------------------------ MODULE ControllerQueriesProofs ------------------------
(***************************************************************************)
(* Proofs about the getters of OpenSprinklerController (ControllerQueries) *)
(* for every set of snapshots, property names and values.  The state they  *)
(* read is the assembler's; its invariant IInvRefine and the table lemmas  *)
(* come from SnapshotAssemblerProofs.                                      *)
(***************************************************************************)
EXTENDS ControllerQueries, SnapshotAssemblerProofs

(* A getter leaves the assembler's state alone, so IInvRefine holds after  *)
(* every step of QNext.                                                    *)
LEMMA QueryKeepsVars ==
  ASSUME [QNext]_qvars
  PROVE  [Next]_vars
BY DEF QNext, Query, GetProperty, ReadProperty, GetProperties, GetWxStatus, IsEnabled,
       GetNumStations, GetNumPrograms, GetHardwareVersion, GetFirmwareVersion,
       GetHardwareType, GetStations, GetPrograms, qvars

LEMMA IInvQStep == IInvRefine /\ [QNext]_qvars => IInvRefine'
BY QueryKeepsVars, IInvRefineStep

(* The table the getters read: on an existing controller it has the       *)
(* registry's names at the registry's indices, a value in every entry, and *)
(* the mapping StoreOf reads it.                                           *)
LEMMA ReadTable ==
  ASSUME IInvRefine, controller # NoController
  PROVE  /\ DOMAIN P = DOMAIN Registry
         /\ \A i \in DOMAIN Registry : P[i].name = Registry[i].name
         /\ \A k \in DOMAIN Registry : StoreOf[Registry[k].name] = P[k].val
<1>1. constructed # << >>
  BY DEF IInvRefine
<1>2. /\ DOMAIN P = DOMAIN Registry
      /\ \A i \in DOMAIN Registry : P[i].name = Registry[i].name
  BY DEF IInvRefine, TypeOK, P
<1>3. ASSUME NEW k \in DOMAIN Registry PROVE StoreOf[Registry[k].name] = P[k].val
  <2>1. Registry[k].name \in Names
    BY DEF Names
  <2>2. StoreOf[Registry[k].name] = ValueOf(P, Registry[k].name)
    BY <1>1, <2>1 DEF StoreOf, P
  <2>. QED
    BY <1>2, <2>2, ValueOfIndex
<1>. QED
  BY <1>2, <1>3

-----------------------------------------------------------------------------
(* What each kind of reply obliges ReadsStore to show.                     *)
LEMMA ReadsStoreCases ==
  ASSUME NEW r
  PROVE  /\ r.op = "getProperties" =>
              (ReadsStore(r) <=> /\ { r.val[i].name : i \in DOMAIN r.val } = Names
                                 /\ \A i \in DOMAIN r.val : r.val[i].val = StoreOf[r.val[i].name])
         /\ r.op = "getProperty" => (ReadsStore(r) <=> r.arg \in Names /\ r.val = StoreOf[r.arg])
         /\ r.op \in {"getWxStatus", "isEnabled", "getFirmwareVersion", "getHardwareType",
                      "getStations", "getPrograms"} => ReadsStore(r)
BY DEF ReadsStore, Reads

(* getProperty(n) returns only for the first entry's name, device_time,   *)
(* and then it returns that entry's value, which is the store's.           *)
LEMMA GetPropertyReadsStore ==
  ASSUME IInvRefine, NEW n, GetProperty(n), ~reply'.raised
  PROVE  ReadsStore(reply')
<1>1. controller # NoController
  BY DEF GetProperty, Query
<1>2. reply' = ReadProperty("getProperty", n)
  BY DEF GetProperty, Query
<1>3. P[1].name = n /\ reply' = Return("getProperty", n, P[1].val)
  BY <1>2 DEF ReadProperty, getProperty, Raise, Return
<1>4. 1 \in DOMAIN Registry /\ n = Registry[1].name
  BY <1>1, <1>3, ReadTable, RegistryFacts
<1>5. n \in Names /\ reply'.val = StoreOf[n]
  BY <1>1, <1>3, <1>4, ReadTable DEF Names, Return
<1>. QED
  BY <1>3, <1>5, ReadsStoreCases DEF Return

(* getProperties returns one {name, val} per entry of the table: every     *)
(* registered name, each with the store's value.                          *)
LEMMA GetPropertiesReadsStore ==
  ASSUME IInvRefine, GetProperties
  PROVE  ReadsStore(reply')
<1> DEFINE R == [i \in DOMAIN P |-> [name |-> P[i].name, val |-> P[i].val]]
<1>1. controller # NoController /\ reply' = Return("getProperties", NoReply, R)
  BY DEF GetProperties, Query
<1>2. /\ DOMAIN P = DOMAIN Registry
      /\ \A i \in DOMAIN Registry : P[i].name = Registry[i].name
      /\ \A k \in DOMAIN Registry : StoreOf[Registry[k].name] = P[k].val
  BY <1>1, ReadTable
<1>3. { R[i].name : i \in DOMAIN R } = Names
  BY <1>2 DEF Names
<1>4. \A i \in DOMAIN R : R[i].val = StoreOf[R[i].name]
  BY <1>2
<1>5. reply'.op = "getProperties" /\ reply'.val = R
  BY <1>1 DEF Return
<1>6. ReadsStore(reply') <=> /\ { R[i].name : i \in DOMAIN R } = Names
                             /\ \A i \in DOMAIN R : R[i].val = StoreOf[R[i].name]
  BY <1>5, ReadsStoreCases
<1>. QED
  BY <1>3, <1>4, <1>6

(* The getters built on getProperty('num_stations' | 'num_programs' |      *)
(* 'hardware_version') always raise: none of these is the first entry.     *)
LEMMA NamedGettersRaise ==
  ASSUME IInvRefine, GetNumStations \/ GetNumPrograms \/ GetHardwareVersion
  PROVE  reply'.raised
<1>1. controller # NoController
  BY DEF GetNumStations, GetNumPrograms, GetHardwareVersion, Query
<1>2. P[1].name = "device_time"
  BY <1>1, ReadTable, RegistryFacts
<1>. QED
  BY <1>2 DEF GetNumStations, GetNumPrograms, GetHardwareVersion, Query, ReadProperty,
              getProperty, Raise

-----------------------------------------------------------------------------
(* GettersReadStore for every snapshot set and every name and value: a     *)
(* getter that returns normally returns the controller's current value of *)
(* what it reads (after any setProperty), never a template default or      *)
(* another entry's value.                                                  *)
THEOREM GettersReadStoreHolds == QSpec => GettersReadStore
<1>1. QInit => IInvRefine
  BY IInvRefineInit DEF QInit
<1> DEFINE A == UNCHANGED vars /\ reply' # NoReply /\ ~reply'.raised => ReadsStore(reply')
<1>2. IInvRefine /\ [QNext]_qvars => [A]_qvars
  <2> SUFFICES ASSUME IInvRefine, [QNext]_qvars PROVE [A]_qvars
    OBVIOUS
  <2>1. CASE \E n \in PropNames : GetProperty(n)
    BY <2>1, GetPropertyReadsStore
  <2>2. CASE GetProperties
    BY <2>2, GetPropertiesReadsStore
  <2>3. CASE GetNumStations \/ GetNumPrograms \/ GetHardwareVersion
    BY <2>3, NamedGettersRaise
  <2>4. CASE GetWxStatus \/ IsEnabled \/ GetFirmwareVersion \/ GetHardwareType
             \/ GetStations \/ GetPrograms
    <3> DEFINE Ops == {"getWxStatus", "isEnabled", "getFirmwareVersion", "getHardwareType",
                       "getStations", "getPrograms"}
    <3>0. \A op, a, e, v : Raise(op, a, e).op = op /\ Return(op, a, v).op = op
      BY DEF Raise, Return
    <3>1. GetWxStatus => reply'.op \in Ops
      <4>1. GetWxStatus => \/ reply' = Raise("getWxStatus", NoReply, "NameError")
                          \/ \E x : reply' = Return("getWxStatus", NoReply, x)
        BY Zenon DEF GetWxStatus, Query
      <4>. QED
        BY <3>0, <4>1 DEF Ops
    <3>2. IsEnabled => reply'.op \in Ops
      BY <3>0 DEF IsEnabled, Query, Ops
    <3>3. GetFirmwareVersion => reply'.op \in Ops
      BY <3>0 DEF GetFirmwareVersion, Query, Ops
    <3>4. GetHardwareType => reply'.op \in Ops
      <4>1. GetHardwareType => \/ reply' = Raise("getHardwareType", NoReply, "NameError")
                              \/ \E x : reply' = Return("getHardwareType", NoReply, x)
        BY Zenon DEF GetHardwareType, Query
      <4>. QED
        BY <3>0, <4>1 DEF Ops
    <3>5. GetStations \/ GetPrograms => reply'.op \in Ops
      BY <3>0 DEF GetStations, GetPrograms, Query, Ops
    <3>6. reply'.op \in Ops
      BY <2>4, <3>1, <3>2, <3>3, <3>4, <3>5
    <3>. QED
      BY <3>6, ReadsStoreCases DEF Ops
  <2>5. CASE Next /\ UNCHANGED reply
    \* A step of the assembler either changes its state, or stutters.
    BY <2>5 DEF qvars
  <2>6. CASE UNCHANGED qvars
    BY <2>6
  <2>. QED
    BY <2>1, <2>2, <2>3, <2>4, <2>5, <2>6 DEF QNext
<1>. QED
  BY <1>1, <1>2, IInvQStep, PTL DEF QSpec, GettersReadStore
-----------------------------------------------------------------------------
(* Every getter replies with a Raise or a Return of its own name.         *)
LEMMA GetterReply ==
  ASSUME QNext, ~(Next /\ UNCHANGED reply)
  PROVE  /\ reply'.raised \in BOOLEAN
         /\ reply'.op \in {"getProperty", "getProperties", "getWxStatus", "isEnabled",
                           "getNumStations", "getNumPrograms", "getHardwareVersion",
                           "getFirmwareVersion", "getHardwareType", "getStations", "getPrograms"}
<1> DEFINE RR(o) == \E a, e, x : reply' = Raise(o, a, e) \/ reply' = Return(o, a, x)
<1>1. ASSUME NEW n, GetProperty(n) PROVE RR("getProperty")
  BY <1>1, Zenon DEF GetProperty, ReadProperty, Query
<1>2. GetProperties => RR("getProperties")
  BY Zenon DEF GetProperties, Query
<1>3. GetWxStatus => RR("getWxStatus")
  BY Zenon DEF GetWxStatus, Query
<1>4. IsEnabled => RR("isEnabled")
  BY Zenon DEF IsEnabled, Query
<1>5. GetNumStations => RR("getNumStations")
  BY Zenon DEF GetNumStations, ReadProperty, Query
<1>6. GetNumPrograms => RR("getNumPrograms")
  BY Zenon DEF GetNumPrograms, ReadProperty, Query
<1>7. GetHardwareVersion => RR("getHardwareVersion")
  BY Zenon DEF GetHardwareVersion, ReadProperty, Query
<1>8. GetFirmwareVersion => RR("getFirmwareVersion")
  BY Zenon DEF GetFirmwareVersion, Query
<1>9. GetHardwareType => RR("getHardwareType")
  BY Zenon DEF GetHardwareType, Query
<1>10. GetStations \/ GetPrograms => RR("getStations") \/ RR("getPrograms")
  BY Zenon DEF GetStations, GetPrograms, Query
<1>11. \E o \in {"getProperty", "getProperties", "getWxStatus", "isEnabled",
                  "getNumStations", "getNumPrograms", "getHardwareVersion",
                  "getFirmwareVersion", "getHardwareType", "getStations", "getPrograms"} : RR(o)
  BY <1>1, <1>2, <1>3, <1>4, <1>5, <1>6, <1>7, <1>8, <1>9, <1>10 DEF QNext
<1>12. PICK o \in {"getProperty", "getProperties", "getWxStatus", "isEnabled",
                   "getNumStations", "getNumPrograms", "getHardwareVersion",
                   "getFirmwareVersion", "getHardwareType", "getStations", "getPrograms"} : RR(o)
  BY <1>11
<1>13. PICK a, e, x : reply' = Raise(o, a, e) \/ reply' = Return(o, a, x)
  BY <1>12 DEF RR
<1>14. reply'.op = o /\ reply'.raised \in BOOLEAN
  <2>1. CASE reply' = Raise(o, a, e)
    BY <2>1 DEF Raise
  <2>2. CASE reply' = Return(o, a, x)
    BY <2>2 DEF Return
  <2>. QED
    BY <1>13, <2>1, <2>2
<1>. QED
  BY <1>12, <1>14

-----------------------------------------------------------------------------
(* The getters are read-only: with the getters interleaved, the property   *)
(* table still implements the abstract store PropertyStore under StoreOf,  *)
(* every getter call being a stutter of the store.                         *)
THEOREM QueriesRefineStore == QSpec => PropertiesRefineStore
<1>1. QInit => PS!Init
  BY StoreRefinementInit DEF QInit
<1>2. IInvRefine /\ [QNext]_qvars => [PS!Next]_StoreOf
  BY QueryKeepsVars, StoreRefinementStep
<1>. QED
  BY <1>1, <1>2, IInvRefineInit, IInvQStep, PTL DEF QSpec, QInit, PropertiesRefineStore, PS!Spec
=============================================================================
