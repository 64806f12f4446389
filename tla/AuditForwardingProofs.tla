------------------------ MODULE AuditForwardingProofs ------------------------
(***************************************************************************)
(* What holds of AuditForwarding for any threads, batch size and numbers of  *)
(* records and faults: where the chain may break, what HA SOC holds, and     *)
(* that a forwarder at rest has forgotten nothing.                         *)
(***************************************************************************)
EXTENDS AuditForwarding, FiniteSetTheorems, SequenceTheorems, TLAPS

Entry == [hash : Nat, previous : Nat]

LogOK ==
  /\ file \in Seq(Entry) /\ made \in Nat /\ lastHash \in Nat
  /\ writing \in [Threads -> [at : {"idle", "built", "written"}, entry : Entry]]
  /\ overlapped \subseteq Nat

\* Hashes that a line may commit to, and a file whose last line was recorded by
\* one thread alone.
Known(hash) == hash = 0 \/ \E j \in 1..Len(file) : file[j].hash = hash
TailLone == file = <<>> \/ file[Len(file)].hash \notin overlapped

\* What is built, written and remembered, when it overlaps and when it does not:
\* a thread that is alone builds on the last line, unless a fork ends there.
OverlapsSeen == \A s, t \in Threads :
  s # t /\ writing[s].at # "idle" /\ writing[t].at # "idle" => writing[s].entry.hash \in overlapped
BuiltOnLine == \A t \in Threads : writing[t].at = "built" => Known(writing[t].entry.previous)
WrittenIsLine == \A t \in Threads : writing[t].at = "written" => Known(writing[t].entry.hash)
BuiltOnTail == \A t \in Threads : writing[t].at = "built" /\ TailLone
  => writing[t].entry.hash \in overlapped \/ writing[t].entry.previous = TailHash
WrittenIsTail == \A t \in Threads : writing[t].at = "written" /\ TailLone => writing[t].entry.hash = TailHash
RemembersTail == TailLone => lastHash = TailHash \/ \E t \in Threads : writing[t].at = "written"

ForkInv ==
  /\ ChainSurvives /\ Known(lastHash)
  /\ OverlapsSeen /\ BuiltOnLine /\ WrittenIsLine /\ BuiltOnTail /\ WrittenIsTail /\ RemembersTail

\* HA SOC holds the first lines of the file, as they are in the file.
Prefix == soc \in Seq(Entry) /\ Len(soc) <= Len(file) /\ \A k \in 1..Len(soc) : soc[k] = file[k]

PushOK ==
  \/ pushing = NoPush
  \/ pushing \in Nat \X Nat /\ pushing[1] > 0 /\ pushing[2] <= Len(file)

HeldInv ==
  /\ LogOK /\ Prefix /\ PushOK
  /\ saved \in Nat /\ lastSeq \in Nat /\ scheduled \in Nat
  /\ AcknowledgedIsHeld

\* A forwarder that is idle without an error and without a wake-up to come has
\* acknowledged every line but those whose threads have yet to wake it.
RestInv ==
  ~restored /\ ~Silent /\ ~failing /\ pushing = NoPush /\ scheduled = 0
    /\ (\A t \in Threads : writing[t].at # "written")
    => lastSeq >= Len(file)

Calls == CallRefused \/ CallLost
Pushes == StartOnLoop \/ Served \/ Calls \/ SocRestored

-----------------------------------------------------------------------------
(***************************************************************************)
(* The chain.                                                              *)
(***************************************************************************)
LEMMA LogType == Spec => []LogOK
<1>1. Init => LogOK
  <2>1. Idle \in [at : {"idle", "built", "written"}, entry : Entry]
    BY DEF Idle, Entry
  <2>2. <<>> \in Seq(Entry)
    OBVIOUS
  <2>3. Init => file = <<>> /\ made = 0 /\ lastHash = 0 /\ writing = [t \in Threads |-> Idle] /\ overlapped = {}
    BY DEF Init
  <2>4. [t \in Threads |-> Idle] \in [Threads -> [at : {"idle", "built", "written"}, entry : Entry]]
    BY <2>1
  <2>5. Init => made \in Nat /\ lastHash \in Nat
    BY <2>3
  <2>. QED BY <2>2, <2>3, <2>4, <2>5, Zenon DEF LogOK
<1>2. LogOK /\ [Next]_vars => LogOK'
  <2> SUFFICES ASSUME LogOK, [Next]_vars PROVE LogOK'
    OBVIOUS
  <2> USE DEF LogOK
  <2>1. ASSUME NEW t \in Threads, Build(t) PROVE LogOK'
    <3>1. made' \in Nat /\ UNCHANGED <<file, lastHash>>
      BY <2>1 DEF Build
    <3>2. writing' \in [Threads -> [at : {"idle", "built", "written"}, entry : Entry]]
      BY <2>1, <3>1 DEF Build, Entry
    <3>3. \A s \in Threads : writing[s].entry.hash \in Nat
      BY DEF Entry
    <3>4. overlapped' \subseteq Nat
      BY <2>1, <3>1, <3>3 DEF Build, Recording
    <3>. QED BY <3>1, <3>2, <3>4
  <2>2. ASSUME NEW t \in Threads, Write(t) PROVE LogOK'
    <3>1. writing[t].entry \in Entry /\ file' = Append(file, writing[t].entry)
      BY <2>2 DEF Write
    <3>2. file' \in Seq(Entry)
      BY <3>1
    <3>3. writing' = [writing EXCEPT ![t].at = "written"] /\ UNCHANGED <<made, lastHash, overlapped>>
      BY <2>2 DEF Write
    <3>. QED BY <3>2, <3>3
  <2>3. CASE \E t \in Threads : Remember(t)
    BY <2>3 DEF Remember, Idle, Entry
  <2>4. CASE Pushes
    BY <2>4 DEF Pushes, Calls, StartOnLoop, Served, CallRefused, CallLost, Fails, SocRestored, memory
  <2>5. CASE Restart
    <3>1. TailHash \in Nat
      <4>1. file # <<>> => file[Len(file)] \in Entry
        OBVIOUS
      <4>. QED BY <4>1 DEF TailHash, Entry
    <3>2. writing' = [t \in Threads |-> Idle] /\ lastHash' = TailHash /\ UNCHANGED <<file, made, overlapped>>
      BY <2>5 DEF Restart
    <3>. QED BY <3>1, <3>2 DEF Idle, Entry
  <2>6. CASE UNCHANGED vars
    BY <2>6 DEF vars, memory
  <2>. QED BY <2>1, <2>2, <2>3, <2>4, <2>5, <2>6 DEF Next, Pushes, Calls
<1>. QED BY <1>1, <1>2, PTL DEF Spec

\* What has been recorded is untouched by the forwarding.
LEMMA PushesKeepLog ==
  Pushes \/ UNCHANGED vars => UNCHANGED <<file, lastHash, writing, made, overlapped>>
BY DEF Pushes, Calls, StartOnLoop, Served, CallRefused, CallLost, Fails, SocRestored, vars, memory

LEMMA BuildKeepsForks ==
  ASSUME LogOK, ForkInv, NEW t \in Threads, Build(t) PROVE ForkInv'
<1> USE DEF LogOK
<1>1. UNCHANGED <<file, lastHash, TailHash>> /\ writing[t].at = "idle"
  BY DEF Build, TailHash
<1>2. writing' = [writing EXCEPT ![t] = [at |-> "built", entry |-> [hash |-> made', previous |-> lastHash]]]
  BY DEF Build
<1>3. /\ writing'[t].at = "built" /\ writing'[t].entry.hash = made' /\ writing'[t].entry.previous = lastHash
      /\ \A s \in Threads \ {t} : writing'[s] = writing[s]
  BY <1>2
<1>4. /\ overlapped \subseteq overlapped'
      /\ \A s \in Threads : writing[s].at # "idle" => writing[s].entry.hash \in overlapped' /\ made' \in overlapped'
  BY DEF Build, Recording
<1>5. TailLone' => TailLone
  BY <1>1, <1>4 DEF TailLone
<1>7. ChainSurvives'
  BY <1>1, <1>4 DEF ForkInv, ChainSurvives, Chained, Overlaps
<1>8. OverlapsSeen'
  BY <1>3, <1>4 DEF ForkInv, OverlapsSeen
<1>9. BuiltOnLine' /\ WrittenIsLine' /\ Known(lastHash)'
  BY <1>1, <1>3 DEF ForkInv, BuiltOnLine, WrittenIsLine, Known
<1>10. BuiltOnTail'
  <2> SUFFICES ASSUME NEW s \in Threads, writing'[s].at = "built", TailLone'
               PROVE  writing'[s].entry.hash \in overlapped' \/ writing'[s].entry.previous = TailHash'
    BY DEF BuiltOnTail
  <2>1. CASE s = t
    <3>1. (\E r \in Threads : writing[r].at # "idle") => made' \in overlapped'
      BY <1>4
    <3>2. lastHash = TailHash \/ \E r \in Threads : writing[r].at = "written"
      BY <1>5 DEF ForkInv, RemembersTail
    <3>. QED BY <1>1, <1>3, <2>1, <3>1, <3>2
  <2>2. CASE s # t
    BY <1>1, <1>3, <1>4, <1>5, <2>2 DEF ForkInv, BuiltOnTail
  <2>. QED BY <2>1, <2>2
<1>11. WrittenIsTail' /\ RemembersTail'
  BY <1>1, <1>3, <1>5 DEF ForkInv, WrittenIsTail, RemembersTail
<1>. QED BY <1>7, <1>8, <1>9, <1>10, <1>11 DEF ForkInv

LEMMA WriteKeepsForks ==
  ASSUME LogOK, ForkInv, NEW t \in Threads, Write(t) PROVE ForkInv'
<1> USE DEF LogOK
<1> DEFINE e == writing[t].entry
<1>1. writing[t].at = "built" /\ file' = Append(file, e) /\ UNCHANGED <<lastHash, overlapped>>
  BY DEF Write
<1>2. e \in Entry /\ writing' = [writing EXCEPT ![t].at = "written"]
  BY DEF Write
<1>3. /\ writing'[t].at = "written" /\ writing'[t].entry = e
      /\ \A s \in Threads \ {t} : writing'[s] = writing[s]
  BY <1>2
<1>4. /\ file' \in Seq(Entry) /\ Len(file') = Len(file) + 1 /\ Len(file) \in Nat
      /\ file'[Len(file) + 1] = e /\ \A k \in 1..Len(file) : file'[k] = file[k]
  BY <1>1, <1>2
<1> HIDE DEF e
<1>5. file' # <<>> /\ TailHash' = e.hash /\ (TailLone' => e.hash \notin overlapped)
  BY <1>1, <1>4 DEF TailHash, TailLone
<1>6. \A j \in 1..Len(file) : j \in 1..Len(file') /\ file'[j] = file[j]
  BY <1>4
<1>7. Known(e.previous)
  BY <1>1 DEF ForkInv, BuiltOnLine, e
<1>8. ASSUME TailLone', NEW s \in Threads \ {t} PROVE writing'[s].at = "idle"
  BY <1>1, <1>3, <1>5, <1>8 DEF ForkInv, OverlapsSeen, e
<1>9. ASSUME NEW k \in 1..Len(file)
      PROVE  /\ file'[k].previous = 0 \/ \E j \in 1..(k - 1) : file'[k].previous = file'[j].hash
             /\ Chained(k)' \/ Overlaps(k)' \/ (k > 1 /\ Overlaps(k - 1)')
  <2>1. file'[k] = file[k] /\ \A j \in 1..(k - 1) : file'[j] = file[j]
    BY <1>4
  <2>2. /\ file[k].previous = 0 \/ \E j \in 1..(k - 1) : file[k].previous = file[j].hash
        /\ Chained(k) \/ Overlaps(k) \/ (k > 1 /\ Overlaps(k - 1))
    BY <1>4 DEF ForkInv, ChainSurvives
  <2>3. k > 1 => file'[k - 1] = file[k - 1]
    BY <2>1
  <2>. QED BY <1>1, <2>1, <2>2, <2>3 DEF Chained, Overlaps
<1>10. PICK n \in Nat : n = Len(file)
  BY <1>4
<1>11. ChainSurvives'
  <2>1. e.previous = 0 \/ \E j \in 1..n : e.previous = file'[j].hash
    BY <1>4, <1>7, <1>10 DEF Known
  <2>2. Chained(n + 1)' \/ Overlaps(n + 1)' \/ (n > 0 /\ Overlaps(n)')
    <3>1. file'[n + 1] = e /\ (n > 0 => file'[n] = file[n]) /\ (n + 1 = 1 <=> n = 0) /\ n + 1 - 1 = n
      BY <1>4, <1>10
    <3>2. CASE file = <<>>
      <4>1. n = 0
        BY <1>10, <3>2
      <4>3. TailLone /\ TailHash = 0
        BY <3>2 DEF TailLone, TailHash
      <4>2. e.hash \in overlapped \/ e.previous = 0
        BY <1>1, <4>3 DEF ForkInv, BuiltOnTail, e
      <4>. QED BY <1>1, <3>1, <4>1, <4>2 DEF Chained, Overlaps
    <3>3. CASE file # <<>>
      <4>0. n > 0
        BY <1>4, <1>10, <3>3
      <4>1. TailHash = file[n].hash /\ (TailLone \/ file[n].hash \in overlapped)
        BY <1>10, <3>3 DEF TailHash, TailLone
      <4>2. TailLone => e.hash \in overlapped \/ e.previous = TailHash
        BY <1>1 DEF ForkInv, BuiltOnTail, e
      <4>3. file'[n] = file[n] /\ n + 1 # 1 /\ n + 1 - 1 = n
        BY <3>1, <4>0
      <4>4. CASE file[n].hash \in overlapped
        BY <1>1, <4>0, <4>3, <4>4 DEF Overlaps
      <4>5. CASE e.hash \in overlapped
        BY <1>1, <3>1, <4>5 DEF Overlaps
      <4>6. CASE e.previous = file[n].hash
        BY <3>1, <4>3, <4>6 DEF Chained
      <4>. QED BY <4>1, <4>2, <4>4, <4>5, <4>6
    <3>. QED BY <3>2, <3>3
  <2>3. SUFFICES ASSUME NEW k \in 1..(n + 1)
                 PROVE  /\ file'[k].previous = 0 \/ \E j \in 1..(k - 1) : file'[k].previous = file'[j].hash
                        /\ Chained(k)' \/ Overlaps(k)' \/ (k > 1 /\ Overlaps(k - 1)')
    BY <1>4, <1>10 DEF ChainSurvives
  <2>4. CASE k = n + 1
    <3>1. k - 1 = n /\ (k > 1 <=> n > 0) /\ file'[k] = e
      BY <1>4, <1>10, <2>4
    <3>. QED BY <2>1, <2>2, <2>4, <3>1
  <2>5. CASE k \in 1..Len(file)
    BY <1>9, <2>5
  <2>. QED BY <1>10, <2>4, <2>5
<1>12. OverlapsSeen'
  BY <1>1, <1>3 DEF ForkInv, OverlapsSeen, e
<1>13. BuiltOnLine' /\ Known(lastHash)'
  BY <1>1, <1>3, <1>6 DEF ForkInv, BuiltOnLine, Known
<1>14. WrittenIsLine'
  <2>1. Len(file) + 1 \in 1..Len(file') /\ file'[Len(file) + 1].hash = e.hash
    BY <1>4
  <2>2. ASSUME NEW s \in Threads, writing'[s].at = "written"
        PROVE  writing'[s].entry.hash = 0 \/ \E j \in 1..Len(file') : file'[j].hash = writing'[s].entry.hash
    <3>1. CASE s = t
      BY <1>3, <2>1, <3>1
    <3>2. CASE s # t
      <4>1. Known(writing[s].entry.hash) /\ writing'[s] = writing[s]
        BY <1>3, <2>2, <3>2 DEF ForkInv, WrittenIsLine
      <4>. QED BY <1>6, <4>1 DEF Known
    <3>. QED BY <3>1, <3>2
  <2>. QED BY <2>2 DEF WrittenIsLine, Known
<1>15. BuiltOnTail' /\ WrittenIsTail' /\ RemembersTail'
  BY <1>3, <1>5, <1>8 DEF BuiltOnTail, WrittenIsTail, RemembersTail
<1>. QED BY <1>11, <1>12, <1>13, <1>14, <1>15 DEF ForkInv

\* Of AuditLog.record and of the tail that is read at a start, for any number of
\* threads that record at once and any restarts: lines commit to earlier lines of
\* the file, and the chain is broken only at a line whose recording overlapped
\* another's or behind such a line.
THEOREM ChainAlwaysSurvives == Spec => []ChainSurvives
<1> USE DEF OverlapsSeen, BuiltOnLine, WrittenIsLine, BuiltOnTail, WrittenIsTail, RemembersTail
<1>1. Init => ForkInv
  BY DEF Init, ForkInv, ChainSurvives, Idle, TailHash, Known
<1>2. LogOK /\ ForkInv /\ [Next]_vars => ForkInv'
  <2> SUFFICES ASSUME LogOK, ForkInv, [Next]_vars PROVE ForkInv'
    OBVIOUS
  <2>1. ASSUME NEW t \in Threads, Build(t) PROVE ForkInv'
    BY <2>1, BuildKeepsForks
  <2>2. ASSUME NEW t \in Threads, Write(t) PROVE ForkInv'
    BY <2>2, WriteKeepsForks
  <2>3. ASSUME NEW t \in Threads, Remember(t) PROVE ForkInv'
    <3>1. writing[t].at = "written" /\ lastHash' = writing[t].entry.hash /\ UNCHANGED <<file, overlapped>>
      BY <2>3 DEF Remember
    <3>2. UNCHANGED <<TailHash, TailLone>>
      BY <3>1 DEF TailHash, TailLone
    <3>3. writing'[t].at = "idle" /\ \A s \in Threads \ {t} : writing'[s] = writing[s]
      BY <2>3 DEF Remember, LogOK, Idle
    <3>4. ChainSurvives'
      BY <3>1 DEF ForkInv, ChainSurvives, Chained, Overlaps
    <3>5. Known(lastHash)' /\ RemembersTail'
      BY <3>1, <3>2 DEF ForkInv, Known
    <3>6. OverlapsSeen' /\ BuiltOnTail' /\ WrittenIsTail'
      BY <3>1, <3>2, <3>3 DEF ForkInv
    <3>7. BuiltOnLine' /\ WrittenIsLine'
      BY <3>1, <3>3 DEF ForkInv, Known
    <3>. QED BY <3>4, <3>5, <3>6, <3>7 DEF ForkInv
  <2>4. CASE Pushes \/ UNCHANGED vars
    <3>1. UNCHANGED <<file, lastHash, writing, overlapped>>
      BY <2>4, PushesKeepLog
    <3>. QED BY <3>1 DEF ForkInv, ChainSurvives, Chained, Overlaps, Known, TailLone, TailHash
  <2>5. CASE Restart
    <3>1. writing' = [t \in Threads |-> Idle] /\ lastHash' = TailHash /\ UNCHANGED <<file, overlapped>>
      BY <2>5 DEF Restart
    <3>2. ChainSurvives' /\ UNCHANGED TailHash
      BY <3>1 DEF ForkInv, ChainSurvives, Chained, Overlaps, TailHash
    <3>3. \A t \in Threads : writing'[t].at = "idle"
      BY <3>1 DEF Idle
    <3>4. Known(lastHash)'
      <4>1. file # <<>> => Len(file) \in 1..Len(file)
        BY DEF LogOK
      <4>. QED BY <3>1, <4>1 DEF Known, TailHash
    <3>. QED BY <3>1, <3>2, <3>3, <3>4 DEF ForkInv
  <2>. QED BY <2>1, <2>2, <2>3, <2>4, <2>5 DEF Next, Pushes, Calls
<1>3. ForkInv => ChainSurvives
  BY DEF ForkInv
<1>. QED BY <1>1, <1>2, <1>3, LogType, PTL DEF Spec

-----------------------------------------------------------------------------
(***************************************************************************)
(* What HA SOC holds.                                                      *)
(***************************************************************************)
\* HA SOC takes at most the lines of the batch, and those in their order.
LEMMA TakesPrefix ==
  ASSUME file \in Seq(Entry), Prefix, PushOK, pushing # NoPush, Takes, UNCHANGED file
  PROVE  Prefix' /\ Len(soc) <= Len(soc')
<1>1. PICK h, last \in Nat : h = Len(soc) /\ last = pushing[2] /\ h <= Len(file) /\ last <= Len(file)
  BY DEF PushOK, Prefix
<1>2. \A a, b \in Int : IsFiniteSet(a..b) /\ Cardinality(a..b) = IF a > b THEN 0 ELSE b - a + 1
  BY FS_Interval
<1>3. IsFiniteSet((h + 1)..last) /\ Cardinality((h + 1)..last) = IF h + 1 > last THEN 0 ELSE last - h
  BY <1>2
<1>4. Accepted \in SUBSET ((h + 1)..last)
  BY <1>1 DEF Accepted, SocHead
<1>5. PICK n \in Nat : n = Cardinality(Accepted) /\ n <= Cardinality((h + 1)..last)
  BY <1>3, <1>4, FS_Subset, FS_CardinalityType
<1>6. Len(file) \in Nat /\ h + n <= Len(file)
  BY <1>1, <1>3, <1>5
<1> DEFINE new == [k \in 1..n |-> file[h + k]]
<1>7. \A k \in 1..n : h + k \in 1..Len(file) /\ file[h + k] \in Entry
  BY <1>6
<1>8. new \in Seq(Entry) /\ Len(new) = n /\ \A k \in 1..n : new[k] = file[h + k]
  BY <1>7
<1>9. soc' = soc \o new
  BY <1>1, <1>5 DEF Takes, SocHead
<1> HIDE DEF new
<1>10. soc \in Seq(Entry) /\ \A k \in 1..h : soc[k] = file[k]
  BY <1>1 DEF Prefix
<1>11. soc' \in Seq(Entry) /\ Len(soc') = h + n
  <2>1. soc \in Seq(Entry) /\ new \in Seq(Entry) /\ Len(soc) = h /\ Len(new) = n
    BY <1>1, <1>8, <1>10
  <2>2. soc \o new \in Seq(Entry) /\ Len(soc \o new) = Len(soc) + Len(new)
    BY <2>1, ConcatProperties, Zenon
  <2> QED
    BY <1>9, <2>1, <2>2, Zenon
<1>12. ASSUME NEW k \in 1..(h + n) PROVE soc'[k] = file[k]
  <2>1. CASE k <= h
    BY <1>1, <1>8, <1>9, <1>10, <2>1
  <2>2. CASE k > h
    <3>1. k - h \in 1..n /\ h + (k - h) = k
      BY <2>2
    <3>. QED BY <1>1, <1>8, <1>9, <1>10, <2>2, <3>1
  <2>. QED BY <2>1, <2>2
<1>. QED BY <1>1, <1>6, <1>11, <1>12 DEF Prefix

\* The top of the loop of push: a batch out of the file, or the end with nothing
\* left to send.
LEMMA GoesOnInFile ==
  ASSUME file \in Seq(Entry), NEW seq \in Nat, GoesOn(seq), UNCHANGED file
  PROVE  /\ PushOK'
         /\ pushing' = NoPush => seq >= Len(file)
<1> DEFINE last == IF Len(file) > seq + BATCH_MAX THEN seq + BATCH_MAX ELSE Len(file)
<1>1. last \in Nat /\ last <= Len(file) /\ Len(file) \in Nat
  BY AuditAssumption
<1>2. CASE seq < Len(file)
  <2>1. pushing' = <<seq + 1, last>>
    BY <1>2 DEF GoesOn
  <2>. QED BY <1>1, <2>1 DEF PushOK, NoPush
<1>3. CASE ~(seq < Len(file))
  <2>1. CaughtUp /\ seq >= Len(file)
    <3>1. CaughtUp
      BY <1>3, Zenon DEF GoesOn
    <3>. QED BY <1>1, <1>3, <3>1
  <2>2. pushing' = NoPush
    BY <2>1, Zenon DEF CaughtUp, Ends
  <2>. QED BY <2>1, <2>2 DEF PushOK, NoPush
<1>. QED BY <1>2, <1>3

LEMMA HeldType == Spec => []HeldInv
<1>1. Init /\ LogOK => HeldInv
  <2> SUFFICES ASSUME Init, LogOK PROVE HeldInv
    OBVIOUS
  <2>1. soc = <<>> /\ file = <<>> /\ pushing = NoPush /\ saved = 0 /\ lastSeq = 0 /\ scheduled = 0
    BY DEF Init
  <2>2. <<>> \in Seq(Entry) /\ Len(<<>>) = 0
    OBVIOUS
  <2>3. Prefix
    BY <2>1, <2>2 DEF Prefix
  <2>. QED BY <2>1, <2>2, <2>3 DEF HeldInv, PushOK, AcknowledgedIsHeld
<1>2. HeldInv /\ LogOK' /\ [Next]_vars => HeldInv'
  <2> SUFFICES ASSUME HeldInv, LogOK', [Next]_vars PROVE HeldInv'
    OBVIOUS
  <2> USE DEF HeldInv, AcknowledgedIsHeld
  <2>0. file \in Seq(Entry) /\ Len(soc) \in Nat /\ Len(file) \in Nat
    BY DEF LogOK, Prefix
  <2>1. ASSUME NEW t \in Threads, Build(t) \/ Remember(t) PROVE HeldInv'
    BY <2>1, <2>0 DEF Build, Remember, Prefix, PushOK
  <2>2. ASSUME NEW t \in Threads, Write(t) PROVE HeldInv'
    <3>1. file' = Append(file, writing[t].entry) /\ UNCHANGED <<soc, pushing, saved, lastSeq, scheduled, restored>>
      BY <2>2 DEF Write
    <3>2. Len(file') = Len(file) + 1 /\ \A k \in 1..Len(file) : file'[k] = file[k]
      BY <3>1, <2>0
    <3>3. Prefix'
      BY <3>1, <3>2, <2>0 DEF Prefix
    <3>4. PushOK'
      BY <3>1, <3>2, <2>0 DEF PushOK, NoPush
    <3>. QED BY <3>1, <3>3, <3>4
  <2>3. CASE StartOnLoop
    <3>1. scheduled' \in Nat /\ UNCHANGED <<file, soc, saved, lastSeq, restored>>
      BY <2>3 DEF StartOnLoop
    <3>2. PushOK'
      <4>1. CASE pushing # NoPush
        BY <4>1, <2>3 DEF StartOnLoop, PushOK
      <4>2. CASE pushing = NoPush
        BY <4>2, <2>3, <2>0, GoesOnInFile DEF StartOnLoop
      <4>. QED BY <4>1, <4>2
    <3>. QED BY <3>1, <3>2 DEF Prefix
  <2>4. CASE Served
    <3>1. pushing # NoPush /\ Takes /\ UNCHANGED <<file, scheduled, restored>>
            /\ lastSeq' = Acknowledged /\ saved' = lastSeq'
      BY <2>4 DEF Served
    <3>2. Prefix' /\ Len(soc) <= Len(soc') /\ Len(soc') \in Nat
      BY <3>1, <2>0, TakesPrefix DEF Prefix
    <3>3. lastSeq' \in Nat /\ saved' \in Nat /\ AcknowledgedIsHeld'
      BY <3>1, <3>2, <2>0 DEF Acknowledged
    <3>4. GoesOn(lastSeq') \/ pushing' = NoPush
      BY <2>4 DEF Served, Rejected, IsRefused, HadIt, Ends
    <3>5. PushOK'
      <4>1. CASE GoesOn(lastSeq')
        BY <3>1, <3>3, <4>1, <2>0, GoesOnInFile
      <4>2. CASE pushing' = NoPush
        BY <4>2 DEF PushOK, NoPush
      <4>. QED BY <3>4, <4>1, <4>2
    <3>. QED BY <3>1, <3>2, <3>3, <3>5
  <2>5. CASE Calls
    <3>1. pushing # NoPush /\ (Takes \/ UNCHANGED soc) /\ pushing' = NoPush
            /\ UNCHANGED <<file, saved, lastSeq, scheduled, restored>>
      BY <2>5 DEF Calls, CallRefused, CallLost, Fails, IsRefused, IsLost, Ends
    <3>2. Prefix' /\ Len(soc) <= Len(soc') /\ Len(soc') \in Nat
      BY <3>1, <2>0, TakesPrefix DEF Prefix
    <3>3. PushOK'
      BY <3>1 DEF PushOK, NoPush
    <3>. QED BY <3>1, <3>2, <3>3, <2>0
  <2>6. CASE Restart
    <3>1. ((pushing # NoPush /\ Takes) \/ UNCHANGED soc) /\ pushing' = NoPush /\ scheduled' = 1
            /\ lastSeq' = saved /\ UNCHANGED <<file, saved, restored>>
      BY <2>6 DEF Restart
    <3>2. Prefix' /\ Len(soc) <= Len(soc') /\ Len(soc') \in Nat
      BY <3>1, <2>0, TakesPrefix DEF Prefix
    <3>3. PushOK'
      BY <3>1 DEF PushOK, NoPush
    <3>. QED BY <3>1, <3>2, <3>3, <2>0
  <2>7. CASE SocRestored
    <3>1. restored' = TRUE /\ UNCHANGED <<file, saved, lastSeq, scheduled, pushing>>
      BY <2>7 DEF SocRestored, memory
    <3>2. PICK n \in 0..(Len(soc) - 1) : soc' = SubSeq(soc, 1, n)
      BY <2>7 DEF SocRestored
    <3>3. n \in Nat /\ n <= Len(soc)
      BY <3>2, <2>0
    <3>4. soc' \in Seq(Entry) /\ Len(soc') = n /\ \A k \in 1..n : soc'[k] = soc[k]
      BY <3>2, <3>3 DEF Prefix
    <3>5. Prefix'
      BY <3>1, <3>3, <3>4, <2>0 DEF Prefix
    <3>. QED BY <3>1, <3>5 DEF PushOK
  <2>8. CASE UNCHANGED vars
    BY <2>8 DEF vars, memory, Prefix, PushOK
  <2>. QED BY <2>1, <2>2, <2>3, <2>4, <2>5, <2>6, <2>7, <2>8 DEF Next, Calls
<1>. QED BY <1>1, <1>2, LogType, PTL DEF Spec

\* Of SocPusher.push and its saved position: no line counts as acknowledged that
\* HA SOC does not hold, whatever calls fail, whatever answers are lost and
\* whenever the app restarts, unless HA SOC itself lost lines.
THEOREM AcknowledgedIsAlwaysHeld == Spec => []AcknowledgedIsHeld
<1>1. HeldInv => AcknowledgedIsHeld
  BY DEF HeldInv
<1>. QED BY <1>1, HeldType, PTL

\* Of the same: HA SOC holds the first lines of the file, unchanged and in order,
\* even after it was restored from a backup.
THEOREM SocHoldsPrefix == Spec => []Prefix
<1>1. HeldInv => Prefix
  BY DEF HeldInv
<1>. QED BY <1>1, HeldType, PTL

\* Of on_record, _start_on_loop and push together: when nothing is under way, the
\* whole file is at HA SOC or an error is reported, unless the last push died of a
\* lost call or ended at a batch that HA SOC had.
THEOREM RecordsAreNeverForgotten == Spec => []NoRecordForgotten
<1>1. Init => RestInv
  BY DEF Init, RestInv
<1>2. HeldInv /\ HeldInv' /\ RestInv /\ [Next]_vars => RestInv'
  <2> SUFFICES ASSUME HeldInv, HeldInv', RestInv, [Next]_vars PROVE RestInv'
    OBVIOUS
  <2>0. file \in Seq(Entry) /\ Len(file) \in Nat /\ lastSeq \in Nat /\ lastSeq' \in Nat /\ scheduled \in Nat
    BY DEF HeldInv, LogOK
  <2> USE DEF RestInv
  <2>1. ASSUME NEW t \in Threads, Build(t) PROVE RestInv'
    <3>1. writing[t].at = "idle" /\ \A s \in Threads : writing'[s].at # "written" => writing[s].at # "written"
      BY <2>1 DEF Build, HeldInv, LogOK
    <3>2. UNCHANGED <<restored, failing, pushing, scheduled, lastSeq, file>> /\ UNCHANGED Silent
      BY <2>1 DEF Build, Silent
    <3>. QED BY <3>1, <3>2, Zenon
  <2>2. ASSUME NEW t \in Threads, Write(t) PROVE RestInv'
    <3>1. writing'[t].at = "written"
      BY <2>2 DEF Write, HeldInv, LogOK
    <3>. QED BY <3>1, Zenon
  <2>3. ASSUME NEW t \in Threads, Remember(t) PROVE RestInv'
    <3>1. scheduled' # 0
      BY <2>3, <2>0 DEF Remember
    <3>. QED BY <3>1, Zenon
  <2>4. CASE StartOnLoop
    <3>1. UNCHANGED <<file, lastSeq>>
      BY <2>4 DEF StartOnLoop
    <3>2. CASE pushing # NoPush
      <4>1. pushing' # NoPush
        BY <3>2, <2>4 DEF StartOnLoop
      <4>. QED BY <4>1, Zenon
    <3>3. CASE pushing = NoPush
      BY <3>1, <3>3, <2>0, <2>4, GoesOnInFile DEF StartOnLoop
    <3>. QED BY <3>2, <3>3
  <2>5. CASE Served
    <3>1. UNCHANGED file /\ CASE Rejected = "gap" -> GoesOn(lastSeq')
                              [] Rejected = "chain" -> IsRefused
                              [] Rejected = "none" /\ Accepted = {} -> HadIt
                              [] Rejected = "none" /\ Accepted # {} -> GoesOn(lastSeq')
      BY <2>5 DEF Served
    <3>2. Rejected \in {"gap", "chain", "none"}
      BY DEF Rejected
    <3>3. GoesOn(lastSeq') \/ IsRefused \/ HadIt
      BY <3>1, <3>2
    <3>4. CASE GoesOn(lastSeq')
      BY <3>1, <3>4, <2>0, GoesOnInFile
    <3>5. CASE IsRefused
      <4>1. failing' = TRUE
        BY <3>5, Zenon DEF IsRefused
      <4>. QED BY <4>1, Zenon
    <3>6. CASE HadIt
      <4>1. outcome' = "had it"
        BY <3>6, Zenon DEF HadIt, Ends
      <4>. QED BY <4>1, Zenon DEF Silent
    <3>. QED BY <3>3, <3>4, <3>5, <3>6
  <2>6. CASE Calls \/ Restart \/ SocRestored
    <3>1. CASE CallRefused
      <4>1. failing' = TRUE
        BY <3>1, Zenon DEF CallRefused, IsRefused
      <4>. QED BY <4>1, Zenon
    <3>2. CASE CallLost
      <4>1. outcome' = "lost"
        BY <3>2, Zenon DEF CallLost, IsLost, Ends
      <4>. QED BY <4>1, Zenon DEF Silent
    <3>3. CASE Restart
      <4>1. scheduled' # 0
        BY <3>3 DEF Restart
      <4>. QED BY <4>1, Zenon
    <3>4. CASE SocRestored
      <4>1. restored' = TRUE
        BY <3>4, Zenon DEF SocRestored
      <4>. QED BY <4>1, Zenon
    <3>. QED BY <2>6, <3>1, <3>2, <3>3, <3>4, Zenon DEF Calls
  <2>7. CASE UNCHANGED vars
    <3>1. UNCHANGED <<restored, failing, pushing, scheduled, lastSeq, file, writing>> /\ UNCHANGED Silent
      BY <2>7, Zenon DEF vars, memory, Silent
    <3>. QED BY <3>1, Zenon
  <2>. QED BY <2>1, <2>2, <2>3, <2>4, <2>5, <2>6, <2>7 DEF Next, Calls
<1>3. HeldInv /\ RestInv => NoRecordForgotten
  <2> SUFFICES ASSUME HeldInv, RestInv, AtRest, ~restored, ~Silent, ~failing PROVE Len(soc) = Len(file)
    BY Zenon DEF NoRecordForgotten
  <2>1. Len(soc) \in Nat /\ Len(file) \in Nat /\ Len(soc) <= Len(file) /\ lastSeq \in Nat /\ lastSeq <= Len(soc)
    BY DEF HeldInv, LogOK, Prefix, AcknowledgedIsHeld
  <2>2. \A t \in Threads : writing[t].at # "written"
    BY DEF AtRest, Idle
  <2>3. lastSeq >= Len(file)
    BY <2>2, Zenon DEF RestInv, AtRest
  <2>. QED BY <2>1, <2>3
<1>. QED BY <1>1, <1>2, <1>3, HeldType, PTL DEF Spec

=============================================================================
