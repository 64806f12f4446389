---------------------------- MODULE CommandQueue ----------------------------
(***************************************************************************)
(* What a Connection promises the callers of send(), whatever transports   *)
(* come and go: an accepted write leaves the queue in its turn, the last   *)
(* urgent one first and the others in the order they were accepted, or is  *)
(* thrown away with all the others when ElkRP takes the panel.  While the  *)
(* queue is held nothing enters it and nothing leaves.                     *)
(***************************************************************************)
EXTENDS Naturals, Sequences

CONSTANTS
  NormalEntry,  \* the writes a caller may hand over
  UrgentEntry   \* and those that go first

VARIABLES
  normal,  \* writes accepted in order, the oldest first
  urgent,  \* priority writes, the youngest first
  held     \* ElkRP has the panel

vars == <<normal, urgent, held>>

Init == normal = <<>> /\ urgent = <<>> /\ held = FALSE

\* One caller's write, or all those of one resync.
Accept(batch) ==
  /\ ~held
  /\ normal' = normal \o batch
  /\ UNCHANGED <<urgent, held>>

AcceptUrgent(entry) ==
  /\ ~held
  /\ urgent' = <<entry>> \o urgent
  /\ UNCHANGED <<normal, held>>

Take ==
  /\ ~held
  /\ IF urgent # <<>>
       THEN urgent' = Tail(urgent) /\ UNCHANGED normal
       ELSE normal # <<>> /\ normal' = Tail(normal) /\ UNCHANGED urgent
  /\ UNCHANGED held

Hold    == held' = TRUE /\ normal' = <<>> /\ urgent' = <<>>
Release == held' = FALSE /\ UNCHANGED <<normal, urgent>>

\* What a step appended to the end of the normal queue.
Batch == SubSeq(normal', Len(normal) + 1, Len(normal'))

Next ==
  \/ Accept(Batch) /\ Batch \in Seq(NormalEntry)
  \/ Len(urgent') > 0 /\ AcceptUrgent(urgent'[1]) /\ urgent'[1] \in UrgentEntry
  \/ Take \/ Hold \/ Release

Spec == Init /\ [][Next]_vars
=============================================================================
