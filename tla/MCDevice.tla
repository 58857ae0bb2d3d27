------------------------------- MODULE MCDevice -------------------------------
(***************************************************************************)
(* The device object next to direct constructions: the snapshots of        *)
(* MCSnapshotAssembler, every transport outcome of one request (refused    *)
(* connection, unparsable body, 200 with JSON, 401 with JSON), station     *)
(* references inside, outside and below the list, and a program number    *)
(* and a program name.                                                     *)
(***************************************************************************)
EXTENDS Device, MCSnapshotAssembler

Int200 == [type |-> "int", v |-> 200]
Int401 == [type |-> "int", v |-> 401]

MCResponses ==
  { [kind |-> "conn_error"],
    [kind |-> "http", json_ok |-> FALSE, code |-> Int200],
    [kind |-> "http", json_ok |-> TRUE,  code |-> Int200],
    [kind |-> "http", json_ok |-> TRUE,  code |-> Int401] }

(* The same outcomes and a device that accepts the connection and never    *)
(* answers.                                                                *)
MCResponsesHang == MCResponses \cup { [kind |-> "hang"] }

MCStationRefs == {0, 3, -1, NameRef}
=============================================================================
