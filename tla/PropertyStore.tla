---------------------------- MODULE PropertyStore ----------------------------
(***************************************************************************)
(* What the controller's properties promise (spec 3 and 4.1), with no      *)
(* table and no loop: one value per registered name.  Building a           *)
(* controller from a snapshot resolves every name on its own (the raw     *)
(* value when its section and key are present and it is not derived, its  *)
(* declared default otherwise); the setter overwrites one name, last      *)
(* write wins; an unregistered name changes nothing.  Before any          *)
(* controller exists the store holds the declared defaults.               *)
(*                                                                         *)
(* SnapshotAssembler implements this specification under the mapping      *)
(* StoreOf (see there and SnapshotAssemblerProofs).                        *)
(***************************************************************************)
EXTENDS PropertyRegistry

CONSTANTS
  Snapshots,   \* the /ja documents a controller may be built from
  PropValues   \* values the setter may be given

VARIABLE store

(* Spec 4.1: a property resolves to its raw value when it is not derived   *)
(* and the snapshot has its section and key; otherwise to its default.     *)
Resolved(s, n) ==
  LET e == Registry[Idx(n)]
  IN IF e.source # Derived /\ Has(s, e.source, e.abbrev) THEN s[e.source][e.abbrev] ELSE e.val

Defaults == [n \in Names |-> Registry[Idx(n)].val]

Init == store = Defaults

(* A controller is built from snapshot s.                                  *)
Load(s) == store' = [n \in Names |-> Resolved(s, n)]

(* setProperty(n, v) on a registered name.                                 *)
Write(n, v) ==
  /\ n \in Names
  /\ store' = [store EXCEPT ![n] = v]

Next ==
  \/ \E s \in Snapshots : Load(s)
  \/ \E n \in Names, v \in PropValues : Write(n, v)

Spec == Init /\ [][Next]_store
=============================================================================
