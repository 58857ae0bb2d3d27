------------------------ MODULE MCSnapshotAssembler ------------------------
(***************************************************************************)
(* Snapshots covering each way the constructor can end: all reads succeed, *)
(* snames shorter than nstations, settings without en (and without loc),   *)
(* no stations section, zero stations, and nine stations (past the 8 a     *)
(* single flag byte can describe).  Three constructions are enough for an *)
(* earlier snapshot's stations and values to meet a later one's.          *)
(***************************************************************************)
EXTENDS SnapshotAssembler

(* A /ja document with every section the constructor reads.               *)
Doc(devt, en, nst, names, sns, ir, sq, ds, sp, np, pd) ==
  [settings |-> [devt |-> devt, en |-> en, loc |-> "garden"],
   stations |-> [snames |-> names, ignore_rain |-> <<ir>>, stn_seq |-> <<sq>>,
                 stn_dis |-> <<ds>>, stn_spe |-> <<sp>>],
   status   |-> [sn |-> sns, nstations |-> nst],
   programs |-> [nprogs |-> np, pd |-> pd]]

Prog1 == << 1, 127, 0, <<10270, 0, 0, 0>>, <<600, 0>>, "lawn" >>

Full    == Doc(1, 1, 2, <<"front", "back">>, <<0, 1>>, 5, 2, 1, 0, 1, <<Prog1>>)
Short   == Doc(2, 0, 3, <<"front", "back">>, <<0, 0, 0>>, 255, 0, 3, 0, 0, << >>)
Nine    == Doc(3, 1, 9, <<"s0", "s1", "s2", "s3", "s4", "s5", "s6", "s7", "s8">>,
               <<0, 0, 0, 0, 0, 0, 0, 0, 1>>, 255, 170, 85, 129, 0, << >>)
NoEn    == [settings |-> [devt |-> 4],
            stations |-> [snames |-> <<"front">>, ignore_rain |-> <<1>>, stn_seq |-> <<1>>,
                          stn_dis |-> <<0>>, stn_spe |-> <<0>>],
            status   |-> [sn |-> <<1>>, nstations |-> 1]]
NoStns  == [settings |-> [devt |-> 5, en |-> 1, loc |-> "porch"],
            status   |-> [sn |-> << >>, nstations |-> 0]]
Empty   == Doc(6, 1, 0, << >>, << >>, 0, 0, 0, 0, 0, << >>)

MCSnapshots == {Full, Short, Nine, NoEn, NoStns, Empty}

(* A complete snapshot and one whose snames is shorter than nstations:     *)
(* the station loop raises IndexError at index 2 after two stations.      *)
MCShortSnapshots == {Full, Short}
=============================================================================
