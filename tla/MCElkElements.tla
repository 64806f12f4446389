---------------------------- MODULE MCElkElements ----------------------------
(***************************************************************************)
(* Small instances of ElkElements: the panel, zones, areas, counters and    *)
(* users, so that every kind of follow-up and of chain occurs.              *)
(***************************************************************************)
EXTENDS ElkElements

MCSize   == [panel |-> 1, zones |-> 2, areas |-> 1, counters |-> 1, users |-> 1]
MCNamed  == {<<"zones", 0>>, <<"zones", 1>>, <<"areas", 0>>, <<"counters", 0>>}
MCAnalog == {<<"zones", 1>>}
=============================================================================
