--------------------------- MODULE AuditForwarding ---------------------------
(***************************************************************************)
(* The audit trail of the app, a file of hash-chained lines that worker      *)
(* threads and the event loop append to, and its forwarding to HA SOC, which *)
(* resumes after a restart of either side, a lost reply and a refusal.       *)
(*                                                                         *)
(* A line is named by a number that stands for its hash; 0 is the previous   *)
(* hash of the first one.  HA SOC is external: it skips what it has, wants   *)
(* the next line and checks that it commits to the one before.               *)
(***************************************************************************)
EXTENDS Integers, Sequences, FiniteSets

CONSTANTS
  Threads,      \* threads that record: workers of the endpoints, the event loop
  BATCH_MAX,
  MaxRecords,   \* lines in all
  MaxFaults     \* restarts, failed calls, lost replies, restored HA SOC

ASSUME AuditAssumption == BATCH_MAX \in Nat \ {0}

VARIABLES
  file,       \* audit.jsonl: the hash of each line and the previous it holds
  saved,      \* soc_push.json
  lastHash,   \* AuditLog._last_hash
  writing,    \* where each thread is in record, and the entry it has built
  scheduled,  \* calls of _start_on_loop that the loop has not run
  pushing,    \* first and last line of the call under way, or NoPush
  lastSeq, failing,  \* SocPusher.last_seq; last_error is not None
  outcome,    \* how the last push, the task that is done, has ended
  soc,        \* HA SOC: the lines it accepted
  made, faults,
  \* Bookkeeping that the program does not keep.
  overlapped, \* the lines recorded while another thread was recording
  restored    \* HA SOC came back from a backup

memory == <<lastHash, writing, scheduled, pushing, lastSeq, failing, outcome>>
vars == <<file, saved, memory, soc, made, faults, overlapped, restored>>

NoPush == <<0, 0>>
Idle == [at |-> "idle", entry |-> [hash |-> 0, previous |-> 0]]

Init ==
  /\ file = <<>> /\ saved = 0 /\ lastHash = 0 /\ writing = [t \in Threads |-> Idle]
  /\ scheduled = 0 /\ pushing = NoPush /\ lastSeq = 0 /\ failing = FALSE
  /\ outcome = "none" /\ soc = <<>> /\ made = 0 /\ faults = 0 /\ overlapped = {} /\ restored = FALSE

-----------------------------------------------------------------------------
\* AuditLog.record, which holds no lock: the entry is built on the hash that
\* the thread reads, appended, and remembered.

Recording == {t \in Threads : writing[t].at # "idle"}

Build(t) ==
  /\ writing[t].at = "idle" /\ made < MaxRecords /\ made' = made + 1
  /\ writing' = [writing EXCEPT ![t] =
       [at |-> "built", entry |-> [hash |-> made', previous |-> lastHash]]]
  /\ overlapped' = IF Recording = {} THEN overlapped
                    ELSE overlapped \union {made'} \union {writing[s].entry.hash : s \in Recording}
  /\ UNCHANGED <<file, saved, lastHash, scheduled, pushing, lastSeq, failing, outcome, soc, faults, restored>>

Write(t) ==
  /\ writing[t].at = "built" /\ file' = Append(file, writing[t].entry)
  /\ writing' = [writing EXCEPT ![t].at = "written"]
  /\ UNCHANGED <<saved, lastHash, scheduled, pushing, lastSeq, failing, outcome, soc, made, faults, overlapped, restored>>

Remember(t) ==
  /\ writing[t].at = "written" /\ lastHash' = writing[t].entry.hash
  /\ writing' = [writing EXCEPT ![t] = Idle] /\ scheduled' = scheduled + 1
  /\ UNCHANGED <<file, saved, pushing, lastSeq, failing, outcome, soc, made, faults, overlapped, restored>>

-----------------------------------------------------------------------------
\* SocPusher.

\* The four ways a push ends: every line is delivered; HA SOC or Home Assistant
\* refuses, which is an error; HA SOC had the batch already; the call is lost.
Ends(how) == pushing' = NoPush /\ outcome' = how
CaughtUp == Ends("caught up") /\ failing' = FALSE
IsRefused == Ends("refused") /\ failing' = TRUE
HadIt == Ends("had it") /\ UNCHANGED failing
IsLost == Ends("lost") /\ UNCHANGED failing

\* Mutant: a push sends full batches only.
GoesOnWhenFull(seq) ==
  IF seq + BATCH_MAX <= Len(file)
    THEN pushing' = <<seq + 1, seq + BATCH_MAX>> /\ UNCHANGED <<failing, outcome>>
    ELSE CaughtUp

\* The loop of push from its top: the next batch, or with none pending the end.
GoesOn(seq) ==
  LET last == IF Len(file) > seq + BATCH_MAX THEN seq + BATCH_MAX ELSE Len(file) IN
    IF seq < Len(file) THEN pushing' = <<seq + 1, last>> /\ UNCHANGED <<failing, outcome>>
    ELSE CaughtUp

\* A push that runs already will find the record itself.
StartOnLoop ==
  /\ scheduled > 0 /\ scheduled' = scheduled - 1
  /\ IF pushing # NoPush THEN UNCHANGED <<pushing, failing, outcome>>
     ELSE GoesOn(lastSeq)
  /\ UNCHANGED <<file, saved, lastHash, writing, lastSeq, soc, made, faults, overlapped, restored>>

\* HA SOC takes the lines it has not got, as far as each commits to the one
\* before it, and none when the batch begins beyond the next.
SocHead == Len(soc)
Commits(k) == file[k].previous =
  IF k = SocHead + 1 THEN (IF soc = <<>> THEN 0 ELSE soc[SocHead].hash) ELSE file[k - 1].hash
Accepted ==
  IF pushing[1] > SocHead + 1 THEN {}
  ELSE {k \in (SocHead + 1)..pushing[2] : \A j \in (SocHead + 1)..k : Commits(j)}
Rejected ==
  IF pushing[1] > SocHead + 1 THEN "gap"
  ELSE IF \E k \in (SocHead + 1)..pushing[2] : ~Commits(k) THEN "chain" ELSE "none"
Takes == soc' = soc \o [k \in 1..Cardinality(Accepted) |-> file[SocHead + k]]

\* Mutant: the lines of a call count as acknowledged, whatever is accepted.
AcknowledgedUnheard == pushing[2]

\* Mutant: a gap does not take the forwarder back.
AcknowledgedUpwards == IF Len(soc') > lastSeq THEN Len(soc') ELSE lastSeq

\* What push makes of the reply: where HA SOC is, on a gap even when that is
\* behind.  A refusal ends it with an error; nothing accepted ends it without.
Acknowledged ==
  IF Len(soc') > lastSeq \/ Rejected = "gap" THEN Len(soc') ELSE lastSeq

Served ==
  /\ pushing # NoPush /\ Takes /\ lastSeq' = Acknowledged /\ saved' = lastSeq'
  /\ CASE Rejected = "gap" -> GoesOn(lastSeq')
       [] Rejected = "chain" -> IsRefused
       [] Rejected = "none" /\ Accepted = {} -> HadIt
       [] Rejected = "none" /\ Accepted # {} -> GoesOn(lastSeq')
  /\ UNCHANGED <<file, lastHash, writing, scheduled, made, faults, overlapped, restored>>

Disturbs == faults < MaxFaults /\ faults' = faults + 1

\* The call fails, before HA SOC took the lines or after it.
Fails ==
  /\ pushing # NoPush /\ Disturbs /\ (Takes \/ UNCHANGED soc)
  /\ UNCHANGED <<file, saved, lastHash, writing, scheduled, lastSeq, made, overlapped, restored>>

\* Home Assistant answers, but with another status or without JSON: that is the
\* HomeAssistantError that push catches.
CallRefused == Fails /\ IsRefused

\* There is no answer: the exception of httpx leaves push, and the task dies.
CallLost == Fails /\ IsLost

\* The app stops, under a call too, and starts: the hash of the last line, the
\* saved sequence, and a catch-up push.
\* Mutant: a new process starts a chain of its own.
NoTailHash == 0
TailHash == IF file = <<>> THEN 0 ELSE file[Len(file)].hash

Restart ==
  /\ Disturbs /\ (IF pushing # NoPush THEN Takes \/ UNCHANGED soc ELSE UNCHANGED soc)
  /\ lastHash' = TailHash /\ writing' = [t \in Threads |-> Idle]
  /\ scheduled' = 1 /\ pushing' = NoPush /\ lastSeq' = saved /\ failing' = FALSE
  /\ outcome' = "none" /\ UNCHANGED <<file, saved, made, overlapped, restored>>

\* HA SOC comes back from a backup.
SocRestored ==
  /\ Disturbs /\ restored' = TRUE /\ \E n \in 0..(Len(soc) - 1) : soc' = SubSeq(soc, 1, n)
  /\ UNCHANGED <<file, saved, memory, made, overlapped>>

Next ==
  \/ \E t \in Threads : Build(t) \/ Write(t) \/ Remember(t)
  \/ StartOnLoop \/ Served \/ CallRefused \/ CallLost \/ Restart \/ SocRestored

\* The event loop runs what is scheduled, a call returns, a record is finished.
Spec == Init /\ [][Next]_vars /\ WF_vars(StartOnLoop) /\ WF_vars(Served)
        /\ \A t \in Threads : WF_vars(Write(t)) /\ WF_vars(Remember(t))

-----------------------------------------------------------------------------
\* Line k commits to the line before it, which is what verify walks the file for.
Chained(k) == file[k].previous = IF k = 1 THEN 0 ELSE file[k - 1].hash
Overlaps(k) == file[k].hash \in overlapped
AtRest == scheduled = 0 /\ pushing = NoPush /\ \A t \in Threads : writing[t] = Idle

\* The ends of a push that leave lines and no error: the task died of a lost call,
\* or HA SOC had the batch.
Silent == outcome \in {"lost", "had it"}

\* However threads record at once and wherever a restart comes: no line commits
\* to one that is not in the file before it, and the chain breaks only at a line
\* whose recording overlapped another's or that follows such a line, so that it
\* closes again behind a fork and across every restart.
ChainSurvives ==
  \A k \in DOMAIN file :
    /\ file[k].previous = 0 \/ \E j \in 1..(k - 1) : file[k].previous = file[j].hash
    /\ Chained(k) \/ Overlaps(k) \/ (k > 1 /\ Overlaps(k - 1))

\* Nothing is taken as acknowledged that HA SOC does not hold, unless it lost
\* some: otherwise lines would be skipped after a lost call or a restart.
AcknowledgedIsHeld == ~restored => saved <= Len(soc) /\ lastSeq <= Len(soc)

\* However records, pushes, wake-ups, failed calls and restarts interleave, a
\* forwarder at rest has delivered the whole file or reports an error, but in two
\* cases: its last push died of a lost call, or it ended as HA SOC had the batch.
\* Whatever was lost before, a push that ends otherwise makes up for it.
NoRecordForgotten ==
  AtRest /\ ~restored /\ ~Silent => failing \/ Len(soc) = Len(file)

\* A forwarder always comes to rest, also when HA SOC was restored or gets lines
\* again: a gap takes it back to where HA SOC is, which then takes the batch.
ComesToRest == <>[](scheduled = 0 /\ pushing = NoPush)

=============================================================================
