----------------------------- MODULE MCRpRecord -----------------------------
(***************************************************************************)
(* All tables that travel, three of them over a line with an error: a byte   *)
(* turns into one that means something to the framing.                     *)
(***************************************************************************)
EXTENDS RpRecord

MCTables      == DOMAIN SPECS
MCNoisyTables == {"area", "user", "lighting"}
MCNoiseBytes  == {DLE, STX, ETX, ACK, 255}
=============================================================================
