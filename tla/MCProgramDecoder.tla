-------------------------- MODULE MCProgramDecoder --------------------------
(***************************************************************************)
(* Every flag byte 0..127, two days0 masks, and start-time lists holding   *)
(* an unused slot (0), each basis, both signs, and an entry with both      *)
(* basis bits set (12318, the value the source comments as Sunset -30),   *)
(* and Midnight plus 45 (2093).                                            *)
(***************************************************************************)
EXTENDS ProgramDecoder

MCProgramInputs ==
  { <<f, d0, 3, st, <<600, 0, 120>>, "p">> :
      f \in 0..127, d0 \in {5, 65},
      st \in { <<10270, 0, 4106, 360>>, <<12318, 0, 2093, 0>> } }
=============================================================================
