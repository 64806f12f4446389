---------------------------- MODULE MCElkCommands ----------------------------
(***************************************************************************)
(* A small instance of ElkCommands: two callers, one command of every kind. *)
(***************************************************************************)
EXTENDS ElkCommands, TLC

MCSymmetry == Permutations(Callers)

MCRegisters == {<<"counter", 0>>, <<"thermostat", 0>>}
MCCommands ==
  {[kind |-> "arm", area |-> 1, level |-> l] : l \in {Disarmed, 1, ForceStay}}
  \cup {[kind |-> "bypass", zone |-> 1], [kind |-> "bypass_area"], [kind |-> "clear_bypass"]}
  \cup {[kind |-> "set", register |-> r, value |-> 1] : r \in MCRegisters}
  \cup {[kind |-> "refresh", register |-> <<"counter", 0>>], [kind |-> "clock"], [kind |-> "queued"]}
=============================================================================
