------------------------------ MODULE MCElkEntry ------------------------------
(* Three rates of the sweep, for TLC. *)
EXTENDS ElkEntry

CONSTANTS r115200, r38400, r300

MCRates == <<r115200, r38400, r300>>
=============================================================================
