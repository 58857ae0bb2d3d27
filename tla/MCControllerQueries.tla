------------------------- MODULE MCControllerQueries -------------------------
(***************************************************************************)
(* Getters on the controllers built from the snapshots of                  *)
(* MCSnapshotAssembler, with writes to device_time (the one name           *)
(* getProperty can return), to enabled and to an unknown name.             *)
(***************************************************************************)
EXTENDS ControllerQueries, MCSnapshotAssembler
=============================================================================
