-------------------------- MODULE PropertyRegistry --------------------------
(***************************************************************************)
(* OpenSprinklerController.controller_properties: the table of property    *)
(* definitions (name, section of the snapshot, abbreviated key, value),    *)
(* its resolution against a snapshot, and getProperty / setProperty.      *)
(*                                                                         *)
(* The snapshot is the JSON document returned by /ja: a function from      *)
(* section names to functions from abbreviated keys to values.             *)
(*                                                                         *)
(* The source table has 73 entries; Registry keeps, in source order, the   *)
(* first one (device_time: getProperty depends on which entry is first),   *)
(* the entries the constructor reads (en, snames, nstations, nprogs),     *)
(* location and one derived entry.  The other entries are resolved by the *)
(* same loop and behave like location (a settings key that a snapshot may *)
(* omit).  The names the other getters ask for (hardware_version,          *)
(* firmware_version, wunderground_api_key, ...) are left out: getProperty  *)
(* raises for every name but the first entry's, listed or not.             *)
(***************************************************************************)
EXTENDS Integers, Sequences

Derived == "derived"

Registry ==
  << [name |-> "device_time",   source |-> "settings", abbrev |-> "devt",      val |-> 0],
     [name |-> "enabled",       source |-> "settings", abbrev |-> "en",        val |-> 0],
     [name |-> "location",      source |-> "settings", abbrev |-> "loc",       val |-> ""],
     [name |-> "station_names", source |-> "stations", abbrev |-> "snames",    val |-> <<>>],
     [name |-> "num_stations",  source |-> "status",   abbrev |-> "nstations", val |-> 0],
     [name |-> "num_programs",  source |-> "programs", abbrev |-> "nprogs",    val |-> 0],
     [name |-> "port_number",   source |-> Derived,    formula |-> "hp1 << 8 + hp0", val |-> 0] >>

(* `sourceName in myDict and abbrevName in myDict[sourceName]`             *)
Has(s, sec, key) == sec \in DOMAIN s /\ key \in DOMAIN s[sec]

(* The resolution loop of __init__: a non-derived entry whose section and  *)
(* key are in the snapshot takes the raw value; every other entry keeps    *)
(* its default.                                                            *)
Resolve(s) ==
  [i \in DOMAIN Registry |->
     IF Registry[i].source # Derived /\ Has(s, Registry[i].source, Registry[i].abbrev)
     THEN [Registry[i] EXCEPT !.val = s[Registry[i].source][Registry[i].abbrev]]
     ELSE Registry[i]]

(* getProperty: the loop body returns on the first entry when its name     *)
(* matches and otherwise raises (UnknownPropertyError is not a defined     *)
(* name, so the raise itself is a NameError).  Either way the loop never   *)
(* reaches the second entry.                                               *)
getProperty(props, var_name) ==
  IF props[1].name = var_name
  THEN [raised |-> FALSE, val |-> props[1].val]
  ELSE [raised |-> TRUE]

(* Mutant: an unknown name is appended to the table.                      *)
setPropertyUpsert(props, var_name, var_value) ==
  IF \E i \in DOMAIN props : props[i].name = var_name
  THEN [i \in DOMAIN props |->
          IF props[i].name = var_name THEN [props[i] EXCEPT !.val = var_value]
                                      ELSE props[i]]
  ELSE Append(props, [name |-> var_name, source |-> Derived, val |-> var_value])

(* setProperty: every entry with that name takes the value; an unknown     *)
(* name changes nothing and raises nothing.                                *)
setProperty(props, var_name, var_value) ==
  [i \in DOMAIN props |->
     IF props[i].name = var_name THEN [props[i] EXCEPT !.val = var_value]
                                 ELSE props[i]]

(* Reference, not code: the registered names, where a name is declared,   *)
(* and the value a table holds for a name.                                 *)
Names == { Registry[i].name : i \in DOMAIN Registry }

Idx(n) == CHOOSE i \in DOMAIN Registry : Registry[i].name = n

ValueOf(props, n) == props[CHOOSE i \in DOMAIN props : props[i].name = n].val
=============================================================================
