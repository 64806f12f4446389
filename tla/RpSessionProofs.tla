--------------------------- MODULE RpSessionProofs ---------------------------
(***************************************************************************)
(* What holds of RpSession for every number of tasks, records, accounts,   *)
(* requests and faults.                                                    *)
(***************************************************************************)
EXTENDS RpSession, SequenceTheorems, FiniteSetTheorems, NaturalsInduction, TLAPS

Content   == Values \cup {Blank, Absent}
OnRecords == {"read", "write", "crc", "receive"}
Kinds     == OnRecords \cup {"keepalive", "disconnect"}

\* What a task may have asked for.
KindsOf(t) ==
  IF t = Receiver THEN {"receive"}
  ELSE IF t = Keepalive THEN {"keepalive"}
  ELSE IF t = Closer THEN {"disconnect"}
  ELSE {"read", "write", "crc"}

Jobs == {NoJob} \cup
        {j \in [kind : Kinds, item : Nat, value : Content, id : Nat] :
           j.kind \in OnRecords => j.item \in Items}

Requests == {f \in [op : {"read", "write", "crc", "system"}, kind : Kinds,
                    item : Nat, value : Content, id : Nat] :
               f.op # "system" => f.item \in Items}

Answers == [op : {"read", "write", "crc", "system", "hangup", "nak", "crc_error", "ack"},
            item : Nat, value : Content, id : Nat]

Reports == {NoReport} \cup [state : {"running", "finished", "stopped", "died"}, book : Books,
                            read : SUBSET Items, unanswered : SUBSET Items]

TaskType ==
  /\ lock \in Seq(Tasks)
  /\ job \in [Tasks -> Jobs]
  /\ \A t \in Tasks : job[t].kind \in {"none"} \cup KindsOf(t)
  /\ attempt \in [Tasks -> Nat]
  /\ requests \in Nat

\* Every task that has asked for something has one place in the lock, nobody
\* else has one, and only the first has sent anything.
LockInv ==
  /\ \A t \in Tasks : Busy(t) => \E i \in 1..Len(lock) : lock[i] = t
  /\ \A i \in 1..Len(lock) : Busy(lock[i])
  /\ \A i, j \in 1..Len(lock) : lock[i] = lock[j] => i = j
  /\ \A t \in Tasks : attempt[t] # 0 => lock # <<>> /\ lock[1] = t

PanelType ==
  /\ record \in [Items -> Content]
  /\ toPanel \in Seq(Requests) /\ fromPanel \in Seq(Answers)
  /\ link \in {"up", "eof", "closed"}

BookType ==
  /\ account \in [Books -> [Items -> Content]] /\ current \in Books
  /\ report \in Reports

-----------------------------------------------------------------------------
(***************************************************************************)
(* How a step of the task that holds the lock ends.                        *)
(***************************************************************************)
LEMMA ItemsAre == Cardinality(Items) \in Nat \ {0} /\ Items = 1..Cardinality(Items)
<1>1. Cardinality(Items) \in Nat
  BY SessionAssumption, FS_CardinalityType DEF SessionAssumption
<1>2. Items = 1..Cardinality(Items) /\ Items # {}
  BY SessionAssumption DEF SessionAssumption
<1> QED
  BY <1>1, <1>2

\* The receive gives the lock back between two items, and asks for it again.
Advances(t) ==
  /\ t = Receiver /\ GoesOn(job[t].item)
  /\ job' = [job EXCEPT ![t].item = @ + 1] /\ attempt' = [attempt EXCEPT ![t] = 0]
  /\ lock' = Append(Tail(lock), t)

Tries(t) == UNCHANGED <<job, lock>> /\ attempt' = [attempt EXCEPT ![t] = @ + 1]

LEMMA ReceiverReceives ==
  ASSUME TaskType, NEW t \in Tasks, job[t].kind = "receive"
  PROVE  t = Receiver
  BY DEF TaskType, KindsOf, Receiver, Keepalive, Closer

LEMMA SuccessMoves ==
  ASSUME TaskType, NEW t \in Tasks, NEW m, Succeeds(t, m)
  PROVE  Releases(t) \/ Advances(t)
<1>1. CASE job[t].kind = "receive"
  <2>1. NextItem(t)
    BY <1>1 DEF Succeeds
  <2> QED
    BY <1>1, <2>1, ReceiverReceives DEF NextItem, Advances
<1>2. CASE job[t].kind # "receive"
  BY <1>2 DEF Succeeds
<1> QED
  BY <1>1, <1>2

LEMMA FailureMoves ==
  ASSUME NEW t \in Tasks, NEW err, Fails(t, err)
  PROVE  Releases(t) \/ Advances(t)
<1>1. CASE t = Receiver /\ err # "Disconnected"
  <2>1. NextItem(t)
    BY <1>1 DEF Fails
  <2> QED
    BY <1>1, <2>1 DEF NextItem, Advances
<1>2. CASE ~(t = Receiver /\ err # "Disconnected")
  BY <1>2 DEF Fails
<1> QED
  BY <1>1, <1>2

LEMMA RetryMoves ==
  ASSUME NEW t \in Tasks, NEW err, Retries(t, err)
  PROVE  Tries(t) \/ Releases(t) \/ Advances(t)
  BY FailureMoves DEF Retries, Tries, Dies

LEMMA HolderMoves ==
  ASSUME TaskType, NEW t \in Tasks, Feed(t) \/ TimesOut(t) \/ WriteRaises(t)
  PROVE  /\ HasTurn(t) /\ requests' = requests
         /\ UNCHANGED <<job, lock, attempt>> \/ Tries(t) \/ Releases(t) \/ Advances(t)
<1>1. CASE Feed(t)
  BY <1>1, SuccessMoves, FailureMoves, RetryMoves DEF Feed
<1>2. CASE TimesOut(t)
  BY <1>2, RetryMoves DEF TimesOut
<1>3. CASE WriteRaises(t)
  BY <1>3 DEF WriteRaises, Dies
<1> QED
  BY <1>1, <1>2, <1>3, SMTT(60)

-----------------------------------------------------------------------------
(***************************************************************************)
(* Types.                                                                  *)
(***************************************************************************)
LEMMA JobType ==
  ASSUME requests \in Nat, NEW kind \in Kinds, NEW i \in Nat, NEW v \in Content,
         kind \in OnRecords => i \in Items
  PROVE  Job(kind, i, v) \in Jobs /\ Job(kind, i, v).kind = kind
  BY DEF Job, Jobs

\* A record of the account, or the blank one that is made for it.
LEMMA LocalType ==
  ASSUME BookType, NEW i \in Items
  PROVE  Local(i) \in Content
  BY DEF BookType, Local, Content

LEMMA AskType ==
  ASSUME TaskType, NEW t \in Tasks, NEW j \in Jobs, j.kind \in KindsOf(t), Asks(t, j),
         UNCHANGED attempt
  PROVE  TaskType'
<1>1. lock' \in Seq(Tasks) /\ requests' \in Nat
  BY DEF TaskType, Asks
<1>2. job' \in [Tasks -> Jobs] /\ \A u \in Tasks : job'[u].kind \in {"none"} \cup KindsOf(u)
  BY DEF TaskType, Asks
<1> QED
  BY <1>1, <1>2 DEF TaskType

LEMMA ReleaseType ==
  ASSUME TaskType, NEW t \in Tasks, lock # <<>>, Releases(t), UNCHANGED requests
  PROVE  TaskType'
<1>1. lock' \in Seq(Tasks)
  BY HeadTailProperties DEF TaskType, Releases
<1>2. NoJob \in Jobs /\ NoJob.kind = "none"
  BY DEF Jobs, NoJob
<1>3. job' \in [Tasks -> Jobs] /\ \A u \in Tasks : job'[u].kind \in {"none"} \cup KindsOf(u)
  BY <1>2 DEF TaskType, Releases
<1> QED
  BY <1>1, <1>3 DEF TaskType, Releases

LEMMA AdvanceType ==
  ASSUME TaskType, NEW t \in Tasks, lock # <<>>, Busy(t), Advances(t), UNCHANGED requests
  PROVE  TaskType'
<1>1. lock' \in Seq(Tasks)
  BY HeadTailProperties, AppendProperties DEF TaskType, Advances
<1>2. job[t] \in Jobs /\ job[t].kind = "receive" /\ job[t] # NoJob
  BY DEF TaskType, Advances, Busy, KindsOf, NoJob
<1>3. /\ job[t] \in [kind : Kinds, item : Nat, value : Content, id : Nat]
      /\ job[t].item \in Items
  BY <1>2 DEF Jobs, OnRecords
<1>4. job[t].item + 1 \in Items
  BY <1>3, ItemsAre DEF Advances, GoesOn
<1>5. [job[t] EXCEPT !.item = @ + 1] \in Jobs /\ [job[t] EXCEPT !.item = @ + 1].kind = "receive"
  BY <1>2, <1>3, <1>4 DEF Jobs
<1>6. job' = [job EXCEPT ![t] = [job[t] EXCEPT !.item = @ + 1]]
  BY DEF Advances
<1>7. job' \in [Tasks -> Jobs] /\ \A u \in Tasks : job'[u].kind \in {"none"} \cup KindsOf(u)
  BY <1>2, <1>5, <1>6 DEF TaskType
<1> QED
  BY <1>1, <1>7 DEF TaskType, Advances

LEMMA RemovedAt ==
  ASSUME NEW S, NEW s \in Seq(S), NEW i \in 1..Len(s)
  PROVE  /\ RemoveAt(s, i) \in Seq(S) /\ Len(RemoveAt(s, i)) = Len(s) - 1
         /\ \A j \in 1..i - 1 : RemoveAt(s, i)[j] = s[j]
         /\ \A j \in i..Len(s) - 1 : RemoveAt(s, i)[j] = s[j + 1]
<1> DEFINE a == SubSeq(s, 1, i - 1)
           b == SubSeq(s, i + 1, Len(s))
<1>1. Len(s) \in Nat /\ i \in Nat /\ i >= 1 /\ i <= Len(s) /\ \A j \in 1..Len(s) : s[j] \in S
  BY LenProperties, ElementOfSeq
<1>2. /\ a \in Seq(S) /\ Len(a) = (IF 1 <= i - 1 THEN i - 1 - 1 + 1 ELSE 0)
      /\ \A j \in 1..i - 1 - 1 + 1 : a[j] = s[1 + j - 1]
  <2>1. 1 \in Int /\ i - 1 \in Int /\ \A j \in 1..i - 1 : s[j] \in S
    BY <1>1
  <2> QED
    BY <2>1, SubSeqProperties
<1>3. /\ b \in Seq(S) /\ Len(b) = (IF i + 1 <= Len(s) THEN Len(s) - (i + 1) + 1 ELSE 0)
      /\ \A j \in 1..Len(s) - (i + 1) + 1 : b[j] = s[i + 1 + j - 1]
  <2>1. i + 1 \in Int /\ Len(s) \in Int /\ \A j \in i + 1..Len(s) : s[j] \in S
    BY <1>1
  <2> QED
    BY <2>1, SubSeqProperties
<1>4. RemoveAt(s, i) = a \o b
  BY DEF RemoveAt
<1> HIDE DEF a, b
<1>5. /\ Len(a) = i - 1 /\ Len(b) = Len(s) - i
      /\ \A j \in 1..i - 1 : a[j] = s[j]
      /\ \A j \in 1..Len(s) - i : b[j] = s[i + j]
  <2>1. Len(a) = i - 1 /\ Len(b) = Len(s) - i
    BY <1>1, <1>2, <1>3
  <2>2. ASSUME NEW j \in 1..i - 1 PROVE a[j] = s[j]
    <3>1. j \in 1..i - 1 - 1 + 1 /\ 1 + j - 1 = j
      BY <1>1
    <3> QED
      BY <1>2, <3>1
  <2>3. ASSUME NEW j \in 1..Len(s) - i PROVE b[j] = s[i + j]
    <3>1. j \in 1..Len(s) - (i + 1) + 1 /\ i + 1 + j - 1 = i + j
      BY <1>1
    <3> QED
      BY <1>3, <3>1
  <2> QED
    BY <2>1, <2>2, <2>3
<1>6. /\ a \o b \in Seq(S) /\ Len(a \o b) = Len(a) + Len(b)
      /\ \A j \in 1..Len(a) + Len(b) : (a \o b)[j] = IF j <= Len(a) THEN a[j] ELSE b[j - Len(a)]
  BY <1>2, <1>3, ConcatProperties
<1>7. ASSUME NEW j \in i..Len(s) - 1 PROVE (a \o b)[j] = s[j + 1]
  <2>1. j \in 1..Len(a) + Len(b) /\ ~(j <= Len(a))
    BY <1>1, <1>5
  <2>2. PICK k \in 1..Len(s) - i : k = j - Len(a) /\ i + k = j + 1
    <3>1. j - Len(a) \in 1..Len(s) - i /\ i + (j - Len(a)) = j + 1
      BY <1>1, <1>5
    <3> QED
      BY <3>1
  <2>3. (a \o b)[j] = b[k]
    BY <1>6, <2>1, <2>2
  <2> QED
    BY <1>5, <2>2, <2>3
<1>8. ASSUME NEW j \in 1..i - 1 PROVE (a \o b)[j] = s[j]
  <2>1. j \in 1..Len(a) + Len(b) /\ j <= Len(a)
    BY <1>1, <1>5
  <2> QED
    BY <1>5, <1>6, <2>1
<1> QED
  BY <1>1, <1>4, <1>5, <1>6, <1>7, <1>8

LEMMA CloseType ==
  ASSUME TaskType, Close
  PROVE  TaskType'
<1>1. Keepalive \in Tasks /\ Closer \in Tasks /\ Keepalive # Closer /\ Receiver # Closer
  BY DEF Tasks, Keepalive, Closer, Receiver
<1>2. lock' \in Seq(Tasks)
  <2>1. CASE Busy(Keepalive)
    <3>1. PICK i \in DOMAIN lock : lock' = Append(RemoveAt(lock, i), Closer)
      BY <2>1 DEF Close
    <3>2. i \in 1..Len(lock)
      BY DEF TaskType
    <3>3. RemoveAt(lock, i) \in Seq(Tasks)
      BY <3>2, RemovedAt DEF TaskType
    <3>4. Append(RemoveAt(lock, i), Closer) \in Seq(Tasks)
      BY <1>1, <3>3, AppendProperties, Zenon
    <3> QED
      BY <3>1, <3>4, Zenon
  <2>2. CASE ~Busy(Keepalive)
    <3>1. lock' = Append(lock, Closer) /\ lock \in Seq(Tasks)
      BY <2>2, Zenon DEF Close, TaskType
    <3> QED
      BY <1>1, <3>1, AppendProperties, Zenon
  <2> QED
    BY <2>1, <2>2
<1>3. 0 \in Nat /\ Blank \in Content /\ "disconnect" \in Kinds /\ "disconnect" \notin OnRecords
  BY DEF Content, Kinds, OnRecords
<1>4. Job("disconnect", 0, Blank) \in Jobs /\ Job("disconnect", 0, Blank).kind \in KindsOf(Closer)
  BY <1>3, JobType DEF TaskType, KindsOf, Receiver, Keepalive, Closer
<1>5. NoJob \in Jobs /\ NoJob.kind = "none"
  BY DEF Jobs, NoJob
<1>6. job' \in [Tasks -> Jobs] /\ \A u \in Tasks : job'[u].kind \in {"none"} \cup KindsOf(u)
  BY <1>1, <1>4, <1>5 DEF TaskType, Close
<1>7. attempt' \in [Tasks -> Nat] /\ requests' \in Nat
  BY <1>1 DEF TaskType, Close
<1> QED
  BY <1>2, <1>6, <1>7 DEF TaskType

LEMMA TaskTypeStep == TaskType /\ BookType /\ LockInv /\ [Next]_vars => TaskType'
<1> SUFFICES ASSUME TaskType, BookType, LockInv, [Next]_vars PROVE TaskType'
  OBVIOUS
<1>1. ASSUME UNCHANGED <<lock, job, attempt, requests>> PROVE TaskType'
  BY <1>1 DEF TaskType
<1>2. CASE Answer \/ HangsUp \/ \E i \in Items, v \in Values : KeypadEdit(i, v) \/ EditRecord(i, v)
  BY <1>1, <1>2 DEF Answer, HangsUp, KeypadEdit, EditRecord
<1>3. CASE \E b \in Books : OpenAccount(b)
  BY <1>1, <1>3 DEF OpenAccount
<1>4. ASSUME NEW t \in Web, NEW kind \in {"read", "write", "crc"}, NEW i \in Items,
             WebRequest(t, kind, i)
      PROVE  TaskType'
  <2> DEFINE v == IF kind = "write" THEN Local(i) ELSE Blank
  <2>1. v \in Content
    BY LocalType DEF Content
  <2>2. kind \in Kinds /\ i \in Nat /\ t \in Tasks /\ requests \in Nat
    BY ItemsAre DEF Kinds, OnRecords, Tasks, TaskType
  <2>3. Job(kind, i, v) \in Jobs /\ Job(kind, i, v).kind = kind
    BY <2>1, <2>2, JobType
  <2>4. kind \in KindsOf(t)
    BY SessionAssumption DEF KindsOf, SessionAssumption
  <2>5. Asks(t, Job(kind, i, v)) /\ UNCHANGED attempt
    BY <1>4 DEF WebRequest
  <2> QED
    BY <2>2, <2>3, <2>4, <2>5, AskType
<1>5. CASE Receive
  <2>1. 1 \in Nat /\ 1 \in Items /\ Blank \in Content /\ "receive" \in Kinds /\ requests \in Nat
    BY ItemsAre DEF Kinds, OnRecords, Content, TaskType
  <2>2. Job("receive", 1, Blank) \in Jobs /\ Job("receive", 1, Blank).kind \in KindsOf(Receiver)
    BY <2>1, JobType DEF KindsOf
  <2>3. Asks(Receiver, Job("receive", 1, Blank)) /\ UNCHANGED attempt /\ Receiver \in Tasks
    BY <1>5 DEF Receive, Tasks
  <2> QED
    BY <2>2, <2>3, AskType
<1>6. CASE Silence
  <2>1. /\ 0 \in Nat /\ Blank \in Content /\ "keepalive" \in Kinds /\ requests \in Nat
        /\ "keepalive" \notin OnRecords
    BY DEF Kinds, OnRecords, Content, TaskType
  <2>2. Job("keepalive", 0, Blank) \in Jobs /\ Job("keepalive", 0, Blank).kind \in KindsOf(Keepalive)
    BY <2>1, JobType DEF KindsOf, Keepalive, Receiver
  <2>3. Asks(Keepalive, Job("keepalive", 0, Blank)) /\ UNCHANGED attempt /\ Keepalive \in Tasks
    BY <1>6 DEF Silence, Tasks
  <2> QED
    BY <2>2, <2>3, AskType
<1>7. CASE Close
  BY <1>7, CloseType
<1>8. ASSUME NEW t \in Tasks, Send(t) PROVE TaskType'
  BY <1>8 DEF Send, TaskType
<1>9. ASSUME NEW t \in Tasks, Feed(t) \/ TimesOut(t) \/ WriteRaises(t) PROVE TaskType'
  <2>1. /\ HasTurn(t) /\ requests' = requests
        /\ UNCHANGED <<job, lock, attempt>> \/ Tries(t) \/ Releases(t) \/ Advances(t)
    BY <1>9, HolderMoves
  <2>2. Busy(t) /\ lock # <<>>
    BY <2>1 DEF HasTurn, LockInv, TaskType
  <2>3. CASE Tries(t)
    BY <2>1, <2>3 DEF Tries, TaskType
  <2> QED
    BY <1>1, <2>1, <2>2, <2>3, ReleaseType, AdvanceType
<1>10. CASE UNCHANGED vars
  BY <1>1, <1>10 DEF vars
<1> QED
  BY <1>2, <1>3, <1>4, <1>5, <1>6, <1>7, <1>8, <1>9, <1>10 DEF Next

-----------------------------------------------------------------------------
(***************************************************************************)
(* The lock.                                                               *)
(***************************************************************************)

\* A task that has asked for nothing has no place in the lock: it gets the last.
LEMMA AskKeepsLock ==
  ASSUME TaskType, LockInv, NEW t \in Tasks, NEW j, j.kind # "none", ~Busy(t), Asks(t, j),
         UNCHANGED attempt
  PROVE  LockInv'
<1> DEFINE n == Len(lock)
<1>1. /\ n \in Nat /\ Len(lock') = n + 1 /\ lock'[n + 1] = t
      /\ \A i \in 1..n : lock'[i] = lock[i]
      /\ \A i \in 1..n : lock[i] \in Tasks
  BY AppendProperties, ElementOfSeq, LenProperties DEF TaskType, Asks
<1>2. job' = [job EXCEPT ![t] = j] /\ DOMAIN job = Tasks
  BY DEF Asks, TaskType
<1>3. /\ \A u \in Tasks : u # t => (Busy(u)' <=> Busy(u))
      /\ Busy(t)'
  BY <1>2 DEF Busy
<1>4. \A i \in 1..n : lock[i] # t
  BY DEF LockInv
<1> HIDE DEF n
<1>5. ASSUME NEW u \in Tasks, Busy(u)' PROVE \E i \in 1..n + 1 : lock'[i] = u
  <2>1. CASE u = t
    BY <1>1, <2>1
  <2>2. CASE u # t
    <3>1. PICK i \in 1..n : lock[i] = u
      BY <1>3, <1>5, <2>2 DEF LockInv, n
    <3> QED
      BY <1>1, <3>1
  <2> QED
    BY <2>1, <2>2
<1>6. ASSUME NEW i \in 1..n + 1 PROVE job'[lock'[i]].kind # "none"
  <2>1. CASE i = n + 1
    BY <1>1, <1>3, <2>1 DEF Busy
  <2>2. CASE i \in 1..n
    <3>1. Busy(lock[i]) /\ lock[i] # t /\ lock[i] \in Tasks /\ lock'[i] = lock[i]
      BY <1>1, <1>4, <2>2 DEF LockInv, n
    <3> QED
      BY <1>2, <3>1 DEF Busy
  <2> QED
    BY <1>1, <2>1, <2>2
<1>7. ASSUME NEW i \in 1..n + 1, NEW k \in 1..n + 1, lock'[i] = lock'[k] PROVE i = k
  <2>1. CASE i \in 1..n /\ k \in 1..n
    BY <1>1, <1>7, <2>1 DEF LockInv, n
  <2>2. CASE i = n + 1
    BY <1>1, <1>4, <1>7, <2>2
  <2>3. CASE k = n + 1
    BY <1>1, <1>4, <1>7, <2>3
  <2> QED
    BY <1>1, <2>1, <2>2, <2>3
<1>8. ASSUME NEW u \in Tasks, attempt'[u] # 0 PROVE lock' # <<>> /\ lock'[1] = u
  <2>1. lock # <<>> /\ lock[1] = u /\ n > 0
    BY <1>8, EmptySeq DEF LockInv, TaskType, n
  <2>2. lock' # <<>> /\ lock'[1] = lock[1]
    BY <1>1, <2>1
  <2> QED
    BY <2>1, <2>2
<1> QED
  BY <1>1, <1>5, <1>6, <1>7, <1>8 DEF LockInv, Busy

\* The holder leaves, and nobody has sent anything.
LEMMA ReleaseKeepsLock ==
  ASSUME TaskType, LockInv, NEW t \in Tasks, HasTurn(t), Releases(t)
  PROVE  LockInv'
<1> DEFINE n == Len(lock)
<1>1. n \in Nat /\ n > 0 /\ lock # <<>> /\ lock[1] = t /\ \A i \in 1..n : lock[i] \in Tasks
  BY ElementOfSeq, LenProperties, EmptySeq DEF TaskType, LockInv, HasTurn
<1>2. Len(lock') = n - 1 /\ \A i \in 1..n - 1 : lock'[i] = lock[i + 1]
  BY <1>1, HeadTailProperties DEF TaskType, Releases
<1>3. job' = [job EXCEPT ![t] = NoJob] /\ DOMAIN job = Tasks
  BY DEF Releases, TaskType
<1>4. /\ \A u \in Tasks : u # t => (Busy(u)' <=> Busy(u))
      /\ ~Busy(t)'
  BY <1>3 DEF Busy, NoJob
<1>5. \A u \in Tasks : attempt'[u] = 0
  BY <1>1 DEF TaskType, LockInv, Releases
<1>6. \A i \in 1..n : lock[i] = t => i = 1
  BY <1>1 DEF LockInv
<1> HIDE DEF n
<1>7. ASSUME NEW u \in Tasks, Busy(u)' PROVE \E i \in 1..n - 1 : lock'[i] = u
  <2>1. PICK k \in 1..n : lock[k] = u
    BY <1>4, <1>7 DEF LockInv, n
  <2>2. k # 1
    BY <1>1, <1>4, <1>7, <2>1
  <2>3. k - 1 \in 1..n - 1 /\ (k - 1) + 1 = k
    BY <1>1, <2>1, <2>2
  <2> QED
    BY <1>2, <2>1, <2>3
<1>8. ASSUME NEW i \in 1..n - 1 PROVE job'[lock'[i]].kind # "none"
  <2>1. i + 1 \in 1..n /\ i + 1 # 1 /\ lock'[i] = lock[i + 1]
    BY <1>1, <1>2
  <2>2. Busy(lock[i + 1]) /\ lock[i + 1] # t /\ lock[i + 1] \in Tasks
    BY <1>1, <1>6, <2>1 DEF LockInv, n
  <2> QED
    BY <1>3, <2>1, <2>2 DEF Busy
<1>9. ASSUME NEW i \in 1..n - 1, NEW k \in 1..n - 1, lock'[i] = lock'[k] PROVE i = k
  <2>1. i + 1 \in 1..n /\ k + 1 \in 1..n /\ lock[i + 1] = lock[k + 1]
    BY <1>1, <1>2, <1>9
  <2>2. i + 1 = k + 1
    BY <2>1 DEF LockInv, n
  <2> QED
    BY <1>1, <2>2
<1> QED
  BY <1>2, <1>5, <1>7, <1>8, <1>9 DEF LockInv, Busy

\* The receive goes from the first place to the last.
LEMMA AdvanceKeepsLock ==
  ASSUME TaskType, LockInv, NEW t \in Tasks, HasTurn(t), Advances(t)
  PROVE  LockInv'
<1> DEFINE n == Len(lock)
<1>1. n \in Nat /\ n > 0 /\ lock # <<>> /\ lock[1] = t /\ \A i \in 1..n : lock[i] \in Tasks
  BY ElementOfSeq, LenProperties, EmptySeq DEF TaskType, LockInv, HasTurn
<1>2. /\ Len(lock') = n /\ lock'[n] = t
      /\ \A i \in 1..n - 1 : lock'[i] = lock[i + 1]
  <2>1. /\ Tail(lock) \in Seq(Tasks) /\ Len(Tail(lock)) = n - 1
        /\ \A i \in 1..n - 1 : Tail(lock)[i] = lock[i + 1]
    BY <1>1, HeadTailProperties DEF TaskType
  <2>2. /\ Len(lock') = n - 1 + 1 /\ lock'[n - 1 + 1] = t
        /\ \A i \in 1..n - 1 : lock'[i] = Tail(lock)[i]
    BY <2>1, AppendProperties DEF Advances
  <2>3. n - 1 + 1 = n
    BY <1>1
  <2> QED
    BY <2>1, <2>2, <2>3
<1>3. \A u \in Tasks : Busy(u)' <=> Busy(u)
  BY DEF Busy, Advances, TaskType, Jobs, NoJob, Kinds, OnRecords
<1>4. \A u \in Tasks : attempt'[u] = 0
  BY <1>1 DEF TaskType, LockInv, Advances
<1>5. \A i \in 1..n : lock[i] = t => i = 1
  BY <1>1 DEF LockInv
<1> HIDE DEF n
<1>6. ASSUME NEW u \in Tasks, Busy(u)' PROVE \E i \in 1..n : lock'[i] = u
  <2>1. PICK k \in 1..n : lock[k] = u
    BY <1>3, <1>6 DEF LockInv, n
  <2>2. CASE k = 1
    BY <1>1, <1>2, <2>1, <2>2
  <2>3. CASE k # 1
    <3>1. k - 1 \in 1..n - 1 /\ k - 1 \in 1..n /\ (k - 1) + 1 = k
      BY <1>1, <2>1, <2>3
    <3> QED
      BY <1>2, <2>1, <3>1
  <2> QED
    BY <2>2, <2>3
<1>7. ASSUME NEW i \in 1..n PROVE job'[lock'[i]].kind # "none"
  <2>1. Busy(t)'
    BY <1>1, <1>3 DEF HasTurn
  <2>2. CASE i = n
    BY <1>2, <2>1, <2>2 DEF Busy
  <2>3. CASE i # n
    <3>1. i + 1 \in 1..n /\ lock'[i] = lock[i + 1]
      BY <1>1, <1>2, <2>3
    <3>2. Busy(lock[i + 1]) /\ lock[i + 1] \in Tasks
      BY <1>1, <3>1 DEF LockInv, n
    <3> QED
      BY <1>3, <3>1, <3>2 DEF Busy
  <2> QED
    BY <2>2, <2>3
<1>8. ASSUME NEW i \in 1..n, NEW k \in 1..n, lock'[i] = lock'[k] PROVE i = k
  <2>1. ASSUME NEW a \in 1..n, a # n PROVE a + 1 \in 1..n /\ lock'[a] = lock[a + 1] /\ lock'[a] # t
    <3>1. a + 1 \in 1..n /\ a \in 1..n - 1 /\ a + 1 # 1
      BY <1>1, <2>1
    <3> QED
      BY <1>2, <1>5, <3>1
  <2>2. CASE i # n /\ k # n
    <3>1. i + 1 = k + 1
      BY <1>8, <2>1, <2>2 DEF LockInv, n
    <3> QED
      BY <1>1, <3>1
  <2>3. CASE i = n \/ k = n
    BY <1>2, <1>8, <2>1, <2>3
  <2> QED
    BY <2>2, <2>3
<1> QED
  BY <1>2, <1>4, <1>6, <1>7, <1>8 DEF LockInv, Busy, n

\* The keepalive leaves its place, wherever it is.
LEMMA RemovalKeepsLock ==
  ASSUME TaskType, LockInv, NEW k \in 1..Len(lock), NEW s, s = RemoveAt(lock, k)
  PROVE  /\ s \in Seq(Tasks)
         /\ \A u \in Tasks : Busy(u) /\ u # lock[k] => \E i \in 1..Len(s) : s[i] = u
         /\ \A i \in 1..Len(s) : Busy(s[i]) /\ s[i] # lock[k]
         /\ \A i, j \in 1..Len(s) : s[i] = s[j] => i = j
         /\ k # 1 => s # <<>> /\ s[1] = lock[1]
<1> DEFINE n == Len(lock)
<1>1. n \in Nat /\ k \in 1..n /\ \A i \in 1..n : lock[i] \in Tasks
  BY ElementOfSeq, LenProperties DEF TaskType
<1>2. /\ s \in Seq(Tasks) /\ Len(s) = n - 1
      /\ \A j \in 1..k - 1 : s[j] = lock[j]
      /\ \A j \in k..n - 1 : s[j] = lock[j + 1]
  BY RemovedAt DEF TaskType
<1>3. \A i, j \in 1..n : lock[i] = lock[j] => i = j
  BY DEF LockInv
<1> HIDE DEF n
\* From its place in s to its place in the lock.
<1> DEFINE old(j) == IF j < k THEN j ELSE j + 1
<1>4. ASSUME NEW j \in 1..n - 1
      PROVE  old(j) \in 1..n /\ old(j) # k /\ s[j] = lock[old(j)]
  <2>1. CASE j < k
    <3>1. j \in 1..k - 1 /\ j \in 1..n
      BY <1>1, <2>1
    <3> QED
      BY <1>2, <2>1, <3>1
  <2>2. CASE ~(j < k)
    <3>1. j \in k..n - 1 /\ j + 1 \in 1..n /\ j + 1 # k
      BY <1>1, <2>2
    <3> QED
      BY <1>2, <2>2, <3>1
  <2> QED
    BY <2>1, <2>2
<1>5. \A i, j \in 1..n - 1 : old(i) = old(j) => i = j
  BY <1>1
<1>6. ASSUME NEW u \in Tasks, Busy(u), u # lock[k] PROVE \E i \in 1..n - 1 : s[i] = u
  <2>1. PICK a \in 1..n : lock[a] = u
    BY <1>6 DEF LockInv, n
  <2>2. a # k
    BY <1>6, <2>1
  <2>3. CASE a < k
    <3>1. a \in 1..k - 1 /\ a \in 1..n - 1
      BY <1>1, <2>3
    <3> QED
      BY <1>2, <2>1, <3>1
  <2>4. CASE ~(a < k)
    <3>1. a - 1 \in k..n - 1 /\ a - 1 \in 1..n - 1 /\ (a - 1) + 1 = a
      BY <1>1, <2>2, <2>4
    <3> QED
      BY <1>2, <2>1, <3>1
  <2> QED
    BY <2>3, <2>4
<1> HIDE DEF old
<1>7. ASSUME NEW i \in 1..n - 1 PROVE Busy(s[i]) /\ s[i] # lock[k]
  <2>1. old(i) \in 1..n /\ old(i) # k /\ s[i] = lock[old(i)]
    BY <1>4
  <2>2. Busy(lock[old(i)])
    BY <2>1 DEF LockInv, n
  <2>3. lock[old(i)] # lock[k]
    BY <1>1, <1>3, <2>1
  <2> QED
    BY <2>1, <2>2, <2>3
<1>8. ASSUME NEW i \in 1..n - 1, NEW j \in 1..n - 1, s[i] = s[j] PROVE i = j
  <2>1. /\ old(i) \in 1..n /\ s[i] = lock[old(i)]
        /\ old(j) \in 1..n /\ s[j] = lock[old(j)]
    BY <1>4
  <2>2. old(i) = old(j)
    BY <1>3, <1>8, <2>1
  <2> QED
    BY <1>5, <2>2
<1>9. ASSUME k # 1 PROVE s # <<>> /\ s[1] = lock[1]
  <2>1. 1 \in 1..k - 1 /\ n - 1 > 0
    BY <1>1, <1>9
  <2> QED
    BY <1>2, <2>1
<1> QED
  BY <1>2, <1>6, <1>7, <1>8, <1>9

\* A sequence of tasks that is fit for a lock, and one more task.
LEMMA CloserJoins ==
  ASSUME NEW s \in Seq(Tasks), NEW t \in Tasks, \A i \in 1..Len(s) : s[i] # t,
         \A i, j \in 1..Len(s) : s[i] = s[j] => i = j, NEW r, r = Append(s, t)
  PROVE  /\ Len(r) = Len(s) + 1 /\ r[Len(s) + 1] = t /\ r # <<>>
         /\ \A i \in 1..Len(s) : r[i] = s[i]
         /\ \A i, j \in 1..Len(r) : r[i] = r[j] => i = j
<1> DEFINE n == Len(s)
<1>1. /\ n \in Nat /\ Len(r) = n + 1 /\ r[n + 1] = t /\ r # <<>>
      /\ \A i \in 1..n : r[i] = s[i]
  BY AppendProperties, LenProperties
<1>2. ASSUME NEW i \in 1..n + 1, NEW j \in 1..n + 1, r[i] = r[j] PROVE i = j
  <2>1. CASE i \in 1..n /\ j \in 1..n
    BY <1>1, <1>2, <2>1
  <2>2. CASE i = n + 1
    BY <1>1, <1>2, <2>2
  <2>3. CASE j = n + 1
    BY <1>1, <1>2, <2>3
  <2> QED
    BY <1>1, <2>1, <2>2, <2>3
<1> QED
  BY <1>1, <1>2

LEMMA CloseKeepsLock ==
  ASSUME TaskType, LockInv, Close
  PROVE  LockInv'
<1>1. /\ Keepalive \in Tasks /\ Closer \in Tasks /\ Keepalive # Closer
      /\ DOMAIN job = Tasks /\ attempt \in [Tasks -> Nat] /\ lock \in Seq(Tasks)
  BY DEF Tasks, Keepalive, Closer, TaskType
<1>2. /\ ~Busy(Closer) /\ Busy(Closer)' /\ ~Busy(Keepalive)'
      /\ \A u \in Tasks : u \notin {Keepalive, Closer} => job'[u] = job[u]
  BY <1>1 DEF Busy, Close, NoJob, Job
<1>3. /\ attempt'[Keepalive] = 0
      /\ \A u \in Tasks : u # Keepalive => attempt'[u] = attempt[u]
  BY <1>1 DEF Close
<1>4. PICK s \in Seq(Tasks) :
        /\ lock' = Append(s, Closer)
        /\ \A u \in Tasks : Busy(u) /\ u # Keepalive => \E i \in 1..Len(s) : s[i] = u
        /\ \A i \in 1..Len(s) : Busy(s[i]) /\ s[i] # Keepalive
        /\ \A i, j \in 1..Len(s) : s[i] = s[j] => i = j
        /\ lock # <<>> /\ lock[1] # Keepalive => s # <<>> /\ s[1] = lock[1]
  <2>1. CASE Busy(Keepalive)
    <3>1. PICK k \in 1..Len(lock) : /\ lock[k] = Keepalive
                                    /\ lock' = Append(RemoveAt(lock, k), Closer)
      BY <1>1, <2>1, LenProperties DEF Close
    <3> DEFINE s == RemoveAt(lock, k)
    <3>2. /\ s \in Seq(Tasks)
          /\ \A u \in Tasks : Busy(u) /\ u # Keepalive => \E i \in 1..Len(s) : s[i] = u
          /\ \A i \in 1..Len(s) : Busy(s[i]) /\ s[i] # Keepalive
          /\ \A i, j \in 1..Len(s) : s[i] = s[j] => i = j
          /\ k # 1 => s # <<>> /\ s[1] = lock[1]
      BY <3>1, RemovalKeepsLock
    <3>3. lock[1] # Keepalive => k # 1
      BY <3>1
    <3> HIDE DEF s
    <3>4. lock' = Append(s, Closer)
      BY <3>1 DEF s
    <3> QED
      BY <3>2, <3>3, <3>4
  <2>2. CASE ~Busy(Keepalive)
    <3>1. lock' = Append(lock, Closer)
      BY <2>2 DEF Close
    <3>2. \A i \in 1..Len(lock) : Busy(lock[i]) /\ lock[i] # Keepalive
      BY <2>2 DEF LockInv
    <3> QED
      BY <1>1, <3>1, <3>2 DEF LockInv
  <2> QED
    BY <2>1, <2>2
<1>5. \A i \in 1..Len(s) : s[i] \in Tasks /\ s[i] # Closer
  BY <1>2, <1>4, ElementOfSeq
<1>6. /\ Len(lock') = Len(s) + 1 /\ lock'[Len(s) + 1] = Closer /\ lock' # <<>>
      /\ \A i \in 1..Len(s) : lock'[i] = s[i]
      /\ \A i, j \in 1..Len(lock') : lock'[i] = lock'[j] => i = j
  BY <1>1, <1>4, <1>5, CloserJoins, SMTT(60)
<1>7. Len(s) \in Nat /\ (s # <<>> => Len(s) > 0)
  BY EmptySeq, LenProperties
<1>8. ASSUME NEW u \in Tasks, Busy(u)' PROVE \E i \in 1..Len(lock') : lock'[i] = u
  <2>1. CASE u = Closer
    BY <1>6, <1>7, <2>1
  <2>2. CASE u # Closer
    <3>1. u # Keepalive /\ Busy(u)
      BY <1>2, <1>8, <2>2 DEF Busy
    <3>2. PICK i \in 1..Len(s) : s[i] = u
      BY <1>4, <3>1
    <3> QED
      BY <1>6, <1>7, <3>2
  <2> QED
    BY <2>1, <2>2
<1>9. ASSUME NEW i \in 1..Len(lock') PROVE job'[lock'[i]].kind # "none"
  <2>1. CASE i = Len(s) + 1
    BY <1>2, <1>6, <2>1 DEF Busy
  <2>2. CASE i \in 1..Len(s)
    <3>1. Busy(s[i]) /\ s[i] \notin {Keepalive, Closer} /\ s[i] \in Tasks /\ lock'[i] = s[i]
      BY <1>4, <1>5, <1>6, <2>2
    <3> QED
      BY <1>2, <3>1 DEF Busy
  <2> QED
    BY <1>6, <1>7, <2>1, <2>2
<1>10. ASSUME NEW u \in Tasks, attempt'[u] # 0 PROVE lock'[1] = u
  <2>1. u # Keepalive /\ lock # <<>> /\ lock[1] = u
    BY <1>3, <1>10 DEF LockInv
  <2>2. s # <<>> /\ s[1] = u
    BY <1>4, <2>1
  <2> QED
    BY <1>6, <1>7, <2>2
<1> QED
  BY <1>6, <1>8, <1>9, <1>10 DEF LockInv, Busy

LEMMA LockStep == TaskType /\ LockInv /\ [Next]_vars => LockInv'
<1> SUFFICES ASSUME TaskType, LockInv, [Next]_vars PROVE LockInv'
  OBVIOUS
<1>1. ASSUME UNCHANGED <<lock, job, attempt>> PROVE LockInv'
  BY <1>1 DEF LockInv, Busy
<1>2. CASE Answer \/ HangsUp \/ \E i \in Items, v \in Values : KeypadEdit(i, v) \/ EditRecord(i, v)
  BY <1>1, <1>2 DEF Answer, HangsUp, KeypadEdit, EditRecord
<1>3. CASE \E b \in Books : OpenAccount(b)
  BY <1>1, <1>3 DEF OpenAccount
<1>4. ASSUME NEW t \in Web, NEW kind \in {"read", "write", "crc"}, NEW i \in Items,
             WebRequest(t, kind, i)
      PROVE  LockInv'
  <2> DEFINE j == Job(kind, i, IF kind = "write" THEN Local(i) ELSE Blank)
  <2>1. t \in Tasks /\ ~Busy(t) /\ Asks(t, j) /\ UNCHANGED attempt /\ j.kind # "none"
    BY <1>4 DEF WebRequest, Job, Tasks
  <2> QED
    BY <2>1, AskKeepsLock
<1>5. CASE Receive
  <2>1. /\ Receiver \in Tasks /\ ~Busy(Receiver) /\ Asks(Receiver, Job("receive", 1, Blank))
        /\ UNCHANGED attempt /\ Job("receive", 1, Blank).kind # "none"
    BY <1>5 DEF Receive, Job, Tasks
  <2> QED
    BY <2>1, AskKeepsLock
<1>6. CASE Silence
  <2>1. /\ Keepalive \in Tasks /\ ~Busy(Keepalive) /\ Asks(Keepalive, Job("keepalive", 0, Blank))
        /\ UNCHANGED attempt /\ Job("keepalive", 0, Blank).kind # "none"
    BY <1>6 DEF Silence, Job, Tasks
  <2> QED
    BY <2>1, AskKeepsLock
<1>7. CASE Close
  BY <1>7, CloseKeepsLock
<1>8. ASSUME NEW t \in Tasks, HasTurn(t), Send(t) \/ Tries(t) PROVE LockInv'
  <2>1. lock # <<>> /\ lock[1] = t
    BY <1>8 DEF HasTurn, LockInv, TaskType
  <2>2. UNCHANGED <<lock, job>> /\ \A u \in Tasks : u # t => attempt'[u] = attempt[u]
    BY <1>8 DEF Send, Tries, TaskType
  <2> QED
    BY <2>1, <2>2 DEF LockInv, Busy
<1>9. ASSUME NEW t \in Tasks, Feed(t) \/ TimesOut(t) \/ WriteRaises(t) PROVE LockInv'
  BY <1>1, <1>8, <1>9, HolderMoves, ReleaseKeepsLock, AdvanceKeepsLock
<1>10. CASE UNCHANGED vars
  BY <1>1, <1>10 DEF vars
<1> QED
  BY <1>2, <1>3, <1>4, <1>5, <1>6, <1>7, <1>8, <1>9, <1>10 DEF Next, Send

-----------------------------------------------------------------------------
(***************************************************************************)
(* The accounts and the report of a receive.                               *)
(***************************************************************************)
LEMMA LeastOf ==
  ASSUME NEW T \in SUBSET Nat, T # {}
  PROVE  \E k \in T : \A j \in T : k <= j
<1> DEFINE R == OpToRel(<, Nat)
<1>1. IsWellFoundedOn(R, Nat)
  BY NatLessThanWellFounded, Zenon
<1>2. PICK k \in T : \A j \in T : ~(<<j, k>> \in R)
  BY <1>1, WFMin, Zenon
<1>3. R = {pair \in Nat \X Nat : pair[1] < pair[2]}
  BY Zenon DEF OpToRel
<1> HIDE DEF R
<1>4. ASSUME NEW j \in T PROVE k <= j
  <2>1. j \in Nat /\ k \in Nat /\ ~(j < k)
    BY <1>2, <1>3
  <2> QED
    BY <2>1
<1> QED
  BY <1>4

\* The frame that decides, if the frames that were read hold one.
Telling(n) == {k \in 1..n : fromPanel[k].op # "ack"}
Deciding(n) == CHOOSE k \in Telling(n) : \A j \in Telling(n) : k <= j

LEMMA DecidingFrame ==
  ASSUME NEW n \in 1..Len(fromPanel), Telling(n) # {}, fromPanel \in Seq(Answers)
  PROVE  /\ Deciding(n) \in 1..n /\ \A j \in Telling(n) : Deciding(n) <= j
         /\ fromPanel[Deciding(n)].op # "ack" /\ fromPanel[Deciding(n)] \in Answers
<1>1. Telling(n) \in SUBSET Nat /\ Telling(n) \subseteq 1..n
  BY DEF Telling
<1>2. \E k \in Telling(n) : \A j \in Telling(n) : k <= j
  BY <1>1, LeastOf
<1>3. Deciding(n) \in Telling(n) /\ \A j \in Telling(n) : Deciding(n) <= j
  BY <1>2 DEF Deciding
<1>4. Deciding(n) \in 1..Len(fromPanel)
  BY <1>1, <1>3, LenProperties
<1> QED
  BY <1>1, <1>3, <1>4, ElementOfSeq DEF Telling

Item == job[Receiver].item

Gains(v) ==
  /\ account' = [account EXCEPT ![report.book][Item] = v]
  /\ report' = Finished([report EXCEPT !.read = @ \cup {Item}], Item)
  /\ NextItem(Receiver)

Misses ==
  /\ account' = account
  /\ report' = Finished([report EXCEPT !.unanswered = @ \cup {Item}], Item)
  /\ NextItem(Receiver)

GivesUp ==
  /\ account' = account /\ Releases(Receiver)
  /\ \E s \in {"stopped", "died"} : report' = [report EXCEPT !.state = s]

\* What a step of another task, or an attempt that goes on, does to the books.
LeavesReport ==
  /\ report' = report /\ job'[Receiver] = job[Receiver]
  /\ \/ account' = account
     \/ \E i \in Items : account' = [account EXCEPT ![current][i] = Local(i)]

ReceiverStep ==
  \/ Busy(Receiver) /\ ((\E v \in Content : Gains(v)) \/ Misses \/ GivesUp)
  \/ LeavesReport

LEMMA JobItem ==
  ASSUME TaskType, NEW t \in Tasks, job[t].kind \in OnRecords
  PROVE  job[t].item \in Items
  BY DEF TaskType, Jobs, NoJob, OnRecords

\* A task that is not the receive leaves the receive's job alone.
LEMMA OthersRelease ==
  ASSUME TaskType, NEW t \in Tasks, t # Receiver, Releases(t)
  PROVE  job'[Receiver] = job[Receiver]
  BY DEF TaskType, Releases, Tasks

LEMMA SuccessBooks ==
  ASSUME TaskType, BookType, NEW t \in Tasks, Busy(t), NEW m \in Answers, Succeeds(t, m)
  PROVE  ReceiverStep /\ current' = current
<1>1. current' = current
  BY DEF Succeeds
<1>2. CASE job[t].kind = "receive"
  <2>1. t = Receiver
    BY <1>2, ReceiverReceives
  <2>2. m.value \in Content
    BY DEF Answers
  <2>3. Gains(m.value)
    BY <1>2, <2>1 DEF Succeeds, Gains, Item, ReceiveInto
  <2> QED
    BY <1>1, <2>1, <2>2, <2>3 DEF ReceiverStep
<1>3. CASE job[t].kind # "receive"
  <2>1. t # Receiver
    BY <1>3 DEF TaskType, KindsOf, Busy
  <2>2. report' = report /\ Releases(t)
    BY <1>3 DEF Succeeds
  <2>3. account' = account \/ \E i \in Items : account' = [account EXCEPT ![current][i] = Local(i)]
    <3>1. CASE job[t].kind = "read"
      <4>1. job[t].item \in Items
        BY <3>1, JobItem DEF OnRecords
      <4>2. account' = [account EXCEPT ![current][job[t].item] = Local(job[t].item)]
        BY <3>1 DEF Succeeds
      <4> QED
        BY <4>1, <4>2
    <3>2. CASE job[t].kind # "read"
      BY <1>3, <3>2 DEF Succeeds
    <3> QED
      BY <3>1, <3>2
  <2> QED
    BY <1>1, <2>1, <2>2, <2>3, OthersRelease DEF ReceiverStep, LeavesReport
<1> QED
  BY <1>2, <1>3

LEMMA FailureBooks ==
  ASSUME TaskType, BookType, NEW t \in Tasks, Busy(t), NEW err, Fails(t, err)
  PROVE  ReceiverStep /\ current' = current
<1>1. current' = current /\ account' = account
  BY DEF Fails
<1>2. CASE t = Receiver /\ err # "Disconnected"
  BY <1>1, <1>2 DEF Fails, Misses, Item, ReceiverStep
<1>3. CASE t = Receiver /\ err = "Disconnected"
  BY <1>1, <1>3 DEF Fails, GivesUp, ReceiverStep
<1>4. CASE t # Receiver
  BY <1>1, <1>4, OthersRelease DEF Fails, LeavesReport, ReceiverStep
<1> QED
  BY <1>2, <1>3, <1>4

LEMMA DeathBooks ==
  ASSUME TaskType, BookType, NEW t \in Tasks, Busy(t), Dies(t)
  PROVE  ReceiverStep /\ current' = current
<1>1. current' = current /\ account' = account /\ Releases(t)
  BY DEF Dies
<1>2. CASE t = Receiver
  BY <1>1, <1>2 DEF Dies, GivesUp, ReceiverStep
<1>3. CASE t # Receiver
  BY <1>1, <1>3, OthersRelease DEF Dies, LeavesReport, ReceiverStep
<1> QED
  BY <1>2, <1>3

LEMMA RetryBooks ==
  ASSUME TaskType, BookType, NEW t \in Tasks, Busy(t), NEW err, Retries(t, err)
  PROVE  ReceiverStep /\ current' = current
  BY FailureBooks, DeathBooks DEF Retries, LeavesReport, ReceiverStep, book

\* What the deciding frame does, and one read.
Settles(t, m) ==
  CASE m.op = "hangup" -> Fails(t, "Disconnected") /\ UNCHANGED toPanel
    [] m.op = Opcode(job[t].kind) -> Succeeds(t, m) /\ UNCHANGED toPanel
    [] OTHER -> Retries(t, "WrongReply")

Ignores == UNCHANGED <<toPanel, session, link, keepalive, lock, job, attempt, book, crossed>>

LEMMA FeedSettles ==
  ASSUME NEW t, Feed(t)
  PROVE  \E n \in 1..Len(fromPanel) :
           /\ fromPanel' = SubSeq(fromPanel, n + 1, Len(fromPanel))
           /\ Telling(n) = {} => Ignores
           /\ Telling(n) # {} => Settles(t, fromPanel[Deciding(n)])
<1>1. \E n \in 1..Len(fromPanel) :
        /\ fromPanel' = SubSeq(fromPanel, n + 1, Len(fromPanel))
        /\ IF Telling(n) = {} THEN Ignores ELSE Settles(t, fromPanel[Deciding(n)])
  BY Zenon DEF Feed, Telling, Deciding, Settles, Ignores
<1>2. PICK n \in 1..Len(fromPanel) :
        /\ fromPanel' = SubSeq(fromPanel, n + 1, Len(fromPanel))
        /\ IF Telling(n) = {} THEN Ignores ELSE Settles(t, fromPanel[Deciding(n)])
  BY <1>1
<1> QED
  BY <1>2

LEMMA HolderBooks ==
  ASSUME TaskType, PanelType, BookType, NEW t \in Tasks, Feed(t) \/ TimesOut(t) \/ WriteRaises(t)
  PROVE  ReceiverStep /\ current' = current
<1>1. Busy(t)
  BY DEF Feed, TimesOut, WriteRaises, HasTurn
<1>2. CASE Feed(t)
  <2>1. PICK n \in 1..Len(fromPanel) :
          /\ Telling(n) = {} => Ignores
          /\ Telling(n) # {} => Settles(t, fromPanel[Deciding(n)])
    BY <1>2, FeedSettles
  <2>2. CASE Telling(n) = {}
    BY <2>1, <2>2 DEF Ignores, book, ReceiverStep, LeavesReport
  <2>3. CASE Telling(n) # {}
    <3>1. PICK m \in Answers : Settles(t, m)
      BY <2>1, <2>3, DecidingFrame DEF PanelType
    <3>2. (\E err : Fails(t, err)) \/ Succeeds(t, m) \/ Retries(t, "WrongReply")
      BY <3>1 DEF Settles
    <3> QED
      BY <1>1, <3>2, FailureBooks, SuccessBooks, RetryBooks
  <2> QED
    BY <2>2, <2>3
<1>3. CASE TimesOut(t)
  BY <1>1, <1>3, RetryBooks DEF TimesOut
<1>4. CASE WriteRaises(t)
  BY <1>1, <1>4, DeathBooks DEF WriteRaises
<1> QED
  BY <1>2, <1>3, <1>4

-----------------------------------------------------------------------------
\* A receive runs while its report does, and the report is true.
ReportInv ==
  /\ report.state = "running" <=> Busy(Receiver)
  /\ ReceiveAccountsForAll

RunningReports == [state : {"running"}, book : Books, read : SUBSET Items, unanswered : SUBSET Items]

\* What a running receive holds: its item is the next one, and all before it
\* are accounted for.
LEMMA RunningReceive ==
  ASSUME TaskType, BookType, ReportInv, Busy(Receiver)
  PROVE  /\ report \in RunningReports /\ Item \in Items /\ Item \notin report.read \cup report.unanswered
         /\ report.read \cap report.unanswered = {}
         /\ report.read \cup report.unanswered = 1..Item - 1
<1>1. Receiver \in Tasks /\ job[Receiver].kind = "receive"
  BY DEF TaskType, KindsOf, Busy, Tasks
<1>2. Item \in Items /\ Item \in Nat
  BY <1>1, JobItem, ItemsAre DEF OnRecords, Item
<1>3. report.state = "running"
  BY DEF ReportInv
<1>4. report \in RunningReports
  BY <1>3 DEF BookType, Reports, NoReport, RunningReports
<1>5. report.read \cap report.unanswered = {} /\ report.read \cup report.unanswered = 1..Item - 1
  BY <1>3 DEF ReportInv, ReceiveAccountsForAll, Item
<1> QED
  BY <1>2, <1>4, <1>5

\* The item is accounted for, and the receive goes on or ends.
LEMMA ItemPassed ==
  ASSUME TaskType, BookType, ReportInv, Busy(Receiver), NextItem(Receiver),
         NEW r \in RunningReports, r.read \cap r.unanswered = {},
         r.read \cup r.unanswered = 1..Item, report' = Finished(r, Item)
  PROVE  report' \in Reports /\ ReportInv'
<1>1. Item \in Items /\ Item \in Nat
  BY RunningReceive, ItemsAre
<1>2. Receiver \in DOMAIN job /\ job[Receiver].kind # "none"
  BY DEF TaskType, Tasks, Busy
<1>3. CASE GoesOn(Item)
  <2>1. job' = [job EXCEPT ![Receiver].item = @ + 1] /\ report' = r
    BY <1>3 DEF NextItem, Item, Finished
  <2>2. job'[Receiver].item - 1 = Item /\ job'[Receiver].kind = job[Receiver].kind
    <3>1. job'[Receiver] = [job[Receiver] EXCEPT !.item = @ + 1]
      BY <1>2, <2>1
    <3>2. job[Receiver] \in [kind : Kinds, item : Nat, value : Content, id : Nat]
      BY <1>2 DEF TaskType, Jobs, NoJob
    <3> QED
      BY <1>1, <3>1, <3>2 DEF Item
  <2>3. r \in Reports /\ r.state = "running"
    BY DEF RunningReports, Reports
  <2> QED
    BY <1>2, <2>1, <2>2, <2>3 DEF ReportInv, ReceiveAccountsForAll, Busy
<1>4. CASE ~GoesOn(Item)
  <2>1. Releases(Receiver) /\ report' = [r EXCEPT !.state = "finished"]
    BY <1>4 DEF NextItem, Item, Finished
  <2>2. ~Busy(Receiver)'
    BY <1>2, <2>1 DEF Releases, Busy, NoJob
  <2>3. Item = Cardinality(Items) /\ 1..Item = Items
    BY <1>1, <1>4, ItemsAre DEF GoesOn
  <2>4. /\ report' \in Reports /\ report'.state = "finished"
        /\ report'.read = r.read /\ report'.unanswered = r.unanswered
    BY <2>1 DEF RunningReports, Reports
  <2> QED
    BY <2>2, <2>3, <2>4 DEF ReportInv, ReceiveAccountsForAll
<1> QED
  BY <1>3, <1>4

LEMMA ReceiverKeepsBooks ==
  ASSUME TaskType, BookType, ReportInv, ReceiverStep, current' = current
  PROVE  BookType' /\ ReportInv'
<1>1. CASE Busy(Receiver) /\ \E v \in Content : Gains(v)
  <2>1. PICK v \in Content : Gains(v)
    BY <1>1
  <2> DEFINE r == [report EXCEPT !.read = @ \cup {Item}]
  <2>2. /\ report \in RunningReports /\ Item \in Items
        /\ Item \notin report.read \cup report.unanswered
        /\ report.read \cap report.unanswered = {}
        /\ report.read \cup report.unanswered = 1..Item - 1
    BY <1>1, RunningReceive
  <2>3. 1..Item = (1..Item - 1) \cup {Item}
    BY <2>2, ItemsAre
  <2>4. /\ r \in RunningReports /\ r.read = report.read \cup {Item}
        /\ r.unanswered = report.unanswered
    BY <2>2 DEF RunningReports
  <2>5. r.read \cap r.unanswered = {} /\ r.read \cup r.unanswered = 1..Item
    BY <2>2, <2>3, <2>4
  <2>6. report' = Finished(r, Item) /\ NextItem(Receiver)
    BY <2>1 DEF Gains
  <2> HIDE DEF r
  <2>7. report' \in Reports /\ ReportInv'
    BY <1>1, <2>4, <2>5, <2>6, ItemPassed
  <2>8. account' \in [Books -> [Items -> Content]]
    BY <2>1, <2>2 DEF Gains, BookType, RunningReports
  <2> QED
    BY <2>7, <2>8 DEF BookType
<1>2. CASE Busy(Receiver) /\ Misses
  <2> DEFINE r == [report EXCEPT !.unanswered = @ \cup {Item}]
  <2>2. /\ report \in RunningReports /\ Item \in Items
        /\ Item \notin report.read \cup report.unanswered
        /\ report.read \cap report.unanswered = {}
        /\ report.read \cup report.unanswered = 1..Item - 1
    BY <1>2, RunningReceive
  <2>3. 1..Item = (1..Item - 1) \cup {Item}
    BY <2>2, ItemsAre
  <2>4. /\ r \in RunningReports /\ r.unanswered = report.unanswered \cup {Item}
        /\ r.read = report.read
    BY <2>2 DEF RunningReports
  <2>5. r.read \cap r.unanswered = {} /\ r.read \cup r.unanswered = 1..Item
    BY <2>2, <2>3, <2>4
  <2>6. report' = Finished(r, Item) /\ NextItem(Receiver)
    BY <1>2 DEF Misses
  <2> HIDE DEF r
  <2>7. report' \in Reports /\ ReportInv'
    BY <1>2, <2>4, <2>5, <2>6, ItemPassed
  <2> QED
    BY <1>2, <2>7 DEF BookType, Misses
<1>3. CASE Busy(Receiver) /\ GivesUp
  <2>1. /\ report \in RunningReports
        /\ report.read \cap report.unanswered = {}
    BY <1>3, RunningReceive
  <2>2. PICK s \in {"stopped", "died"} : report' = [report EXCEPT !.state = s]
    BY <1>3 DEF GivesUp
  <2>3. /\ report' \in Reports /\ report'.state = s
        /\ report'.read = report.read /\ report'.unanswered = report.unanswered
    BY <2>1, <2>2 DEF RunningReports, Reports
  <2>4. ~Busy(Receiver)'
    BY <1>3 DEF GivesUp, Releases, Busy, NoJob, TaskType, Tasks
  <2> QED
    BY <1>3, <2>1, <2>3, <2>4 DEF BookType, GivesUp, ReportInv, ReceiveAccountsForAll
<1>4. CASE LeavesReport
  <2>1. ReportInv'
    BY <1>4 DEF LeavesReport, ReportInv, ReceiveAccountsForAll, Busy
  <2>2. account' \in [Books -> [Items -> Content]]
    <3>1. ASSUME NEW i \in Items, account' = [account EXCEPT ![current][i] = Local(i)]
          PROVE  account' \in [Books -> [Items -> Content]]
      BY <3>1, LocalType DEF BookType
    <3> QED
      BY <1>4, <3>1 DEF LeavesReport, BookType
  <2> QED
    BY <1>4, <2>1, <2>2 DEF BookType, LeavesReport
<1> QED
  BY <1>1, <1>2, <1>3, <1>4 DEF ReceiverStep

LEMMA BookTypeStep == TaskType /\ PanelType /\ BookType /\ ReportInv /\ [Next]_vars
                        => BookType' /\ ReportInv'
<1> SUFFICES ASSUME TaskType, PanelType, BookType, ReportInv, [Next]_vars
             PROVE  BookType' /\ ReportInv'
  OBVIOUS
<1>1. ASSUME UNCHANGED <<report, current>>, job'[Receiver] = job[Receiver],
             account' \in [Books -> [Items -> Content]]
      PROVE  BookType' /\ ReportInv'
  BY <1>1 DEF BookType, ReportInv, ReceiveAccountsForAll, Busy
<1>2. ASSUME UNCHANGED <<book, job>> PROVE BookType' /\ ReportInv'
  BY <1>1, <1>2 DEF book, BookType
<1>3. CASE Answer \/ HangsUp \/ Silence
  <2>1. CASE Silence
    <3>1. job'[Receiver] = job[Receiver]
      BY <2>1 DEF Silence, Asks, TaskType, Tasks, Keepalive, Receiver
    <3> QED
      BY <1>1, <2>1, <3>1 DEF Silence, book, BookType
  <2> QED
    BY <1>2, <1>3, <2>1 DEF Answer, HangsUp
<1>4. ASSUME NEW i \in Items, NEW v \in Values, KeypadEdit(i, v) \/ EditRecord(i, v)
      PROVE  BookType' /\ ReportInv'
  <2>1. CASE EditRecord(i, v)
    <3>1. account' \in [Books -> [Items -> Content]]
      BY <2>1 DEF EditRecord, BookType, Content
    <3> QED
      BY <1>1, <2>1, <3>1 DEF EditRecord
  <2> QED
    BY <1>2, <1>4, <2>1 DEF KeypadEdit
<1>5. ASSUME NEW b \in Books, OpenAccount(b) PROVE BookType' /\ ReportInv'
  BY <1>5 DEF OpenAccount, BookType, ReportInv, ReceiveAccountsForAll, Busy
<1>6. ASSUME NEW t \in Web, NEW kind \in {"read", "write", "crc"}, NEW i \in Items,
             WebRequest(t, kind, i)
      PROVE  BookType' /\ ReportInv'
  <2>1. job'[Receiver] = job[Receiver]
    BY <1>6, SessionAssumption DEF SessionAssumption, WebRequest, Asks, TaskType, Tasks
  <2>2. account' \in [Books -> [Items -> Content]]
    <3>1. account' = IF kind = "write" THEN [account EXCEPT ![current][i] = Local(i)] ELSE account
      BY <1>6 DEF WebRequest
    <3> QED
      BY <3>1, LocalType DEF BookType
  <2> QED
    BY <1>1, <1>6, <2>1, <2>2 DEF WebRequest
<1>7. CASE Receive
  <2>1. /\ report' = [state |-> "running", book |-> current, read |-> {}, unanswered |-> {}]
        /\ UNCHANGED <<account, current>> /\ Asks(Receiver, Job("receive", 1, Blank))
    BY <1>7 DEF Receive
  <2>2. job'[Receiver].kind = "receive" /\ job'[Receiver].item = 1
    BY <2>1 DEF Asks, Job, TaskType, Tasks
  <2>3. 1..(1 - 1) = {}
    OBVIOUS
  <2> QED
    BY <2>1, <2>2, <2>3 DEF BookType, Reports, ReportInv, ReceiveAccountsForAll, Busy
<1>8. CASE Close
  <2>1. job'[Receiver] = job[Receiver] /\ UNCHANGED book
    BY <1>8 DEF Close, TaskType, Tasks, Keepalive, Closer, Receiver
  <2> QED
    BY <1>1, <2>1 DEF book, BookType
<1>9. ASSUME NEW t \in Tasks, Send(t) PROVE BookType' /\ ReportInv'
  BY <1>2, <1>9 DEF Send
<1>10. ASSUME NEW t \in Tasks, Feed(t) \/ TimesOut(t) \/ WriteRaises(t)
       PROVE  BookType' /\ ReportInv'
  BY <1>10, HolderBooks, ReceiverKeepsBooks
<1>11. CASE UNCHANGED vars
  BY <1>2, <1>11 DEF vars
<1> QED
  BY <1>3, <1>4, <1>5, <1>6, <1>7, <1>8, <1>9, <1>10, <1>11 DEF Next

\* What a request puts on the line.
LEMMA FrameType ==
  ASSUME TaskType, NEW t \in Tasks, Busy(t)
  PROVE  Frame(t) \in Requests
<1>1. job[t] \in [kind : Kinds, item : Nat, value : Content, id : Nat]
  BY DEF TaskType, Jobs, Busy, NoJob
<1>2. job[t].kind \in OnRecords => job[t].item \in Items
  BY JobItem
<1>3. Opcode(job[t].kind) \in {"read", "write", "crc", "system"}
  BY <1>1 DEF Opcode, Kinds, OnRecords
<1>4. Opcode(job[t].kind) # "system" => job[t].kind \in OnRecords
  BY <1>1 DEF Opcode, Kinds, OnRecords
<1> QED
  BY <1>1, <1>2, <1>3, <1>4 DEF Frame, Requests

LEMMA WrittenType ==
  ASSUME TaskType, PanelType, NEW t \in Tasks, Busy(t), Written(t)
  PROVE  toPanel' \in Seq(Requests)
  BY FrameType, AppendProperties DEF PanelType, Written

LEMMA RetryType ==
  ASSUME TaskType, PanelType, NEW t \in Tasks, Busy(t), NEW err, Retries(t, err)
  PROVE  toPanel' \in Seq(Requests) /\ link' \in {"up", "eof", "closed"}
  BY WrittenType DEF Retries, Fails, Dies, PanelType

LEMMA ReplyType ==
  ASSUME NEW req \in Requests, NEW v \in Content
  PROVE  /\ Reply(req, v) \in Answers
         /\ \A op \in {"hangup", "nak", "crc_error", "ack"} :
              [Reply(req, v) EXCEPT !.op = op] \in Answers
  BY DEF Reply, Requests, Answers

LEMMA PanelTypeStep == TaskType /\ PanelType /\ BookType /\ [Next]_vars => PanelType'
<1> SUFFICES ASSUME TaskType, PanelType, BookType, [Next]_vars PROVE PanelType'
  OBVIOUS
<1>1. ASSUME UNCHANGED <<record, frames, link>> PROVE PanelType'
  BY <1>1 DEF PanelType, frames
<1>2. CASE Answer
  <2> DEFINE req == Head(toPanel)
  <2>1. req \in Requests /\ toPanel' \in Seq(Requests) /\ link' = link
    BY <1>2, HeadTailProperties DEF Answer, PanelType
  <2>2. /\ req.value \in Content /\ Blank \in Content
        /\ req.op # "system" => req.item \in Items
    BY <2>1 DEF Requests, Content
  <2>3. \/ record' = record
        \/ req.op = "write" /\ record' = [record EXCEPT ![req.item] = req.value]
    BY <1>2 DEF Answer
  <2>4. record' \in [Items -> Content]
    BY <2>2, <2>3 DEF PanelType
  <2> DEFINE v == IF req.op \in {"read", "crc"} THEN record[req.item] ELSE Blank
  <2>5. v \in Content
    BY <2>2 DEF PanelType
  <2>6. \/ fromPanel' = fromPanel
        \/ fromPanel' = Append(fromPanel, Reply(req, v))
        \/ \E op \in {"hangup", "nak", "crc_error", "ack"} :
             fromPanel' = Append(fromPanel, [Reply(req, Blank) EXCEPT !.op = op])
    <3>1. \/ /\ record' = IF req.op = "write" THEN [record EXCEPT ![req.item] = req.value] ELSE record
             /\ fromPanel' = Append(fromPanel,
                  IF req.kind = "disconnect" THEN [Reply(req, Blank) EXCEPT !.op = "hangup"]
                  ELSE Reply(req, v))
             /\ UNCHANGED faults
          \/ \E op \in {"nak", "crc_error", "ack"} :
               /\ Fault /\ UNCHANGED record
               /\ fromPanel' = Append(fromPanel, [Reply(req, Blank) EXCEPT !.op = op])
          \/ Fault /\ UNCHANGED <<record, fromPanel>>
      BY <1>2, Zenon DEF Answer
    <3> HIDE DEF req, v
    <3>2. CASE fromPanel' = Append(fromPanel,
                  IF req.kind = "disconnect" THEN [Reply(req, Blank) EXCEPT !.op = "hangup"]
                  ELSE Reply(req, v))
      BY <3>2
    <3> QED
      BY <3>1, <3>2
  <2> HIDE DEF req, v
  <2>7. fromPanel' \in Seq(Answers)
    <3>1. fromPanel \in Seq(Answers)
      BY DEF PanelType
    <3>2. ASSUME NEW f \in Answers, fromPanel' = Append(fromPanel, f)
          PROVE  fromPanel' \in Seq(Answers)
      BY <3>1, <3>2, AppendProperties
    <3>3. Reply(req, v) \in Answers
      BY <2>1, <2>5, ReplyType
    <3>4. \A op \in {"hangup", "nak", "crc_error", "ack"} :
            [Reply(req, Blank) EXCEPT !.op = op] \in Answers
      BY <2>1, <2>2, ReplyType
    <3> QED
      BY <2>6, <3>1, <3>2, <3>3, <3>4
  <2> QED
    BY <2>1, <2>4, <2>7 DEF PanelType
<1>3. CASE HangsUp
  <2>1. [op |-> "hangup", item |-> 0, value |-> Blank, id |-> 0] \in Answers
    BY DEF Answers, Content
  <2>2. toPanel' = <<>> /\ <<>> \in Seq(Requests) /\ link' = "eof" /\ record' = record
    BY <1>3 DEF HangsUp
  <2>3. fromPanel' \in Seq(Answers)
    BY <1>3, <2>1, AppendProperties DEF HangsUp, PanelType
  <2> QED
    BY <2>2, <2>3 DEF PanelType
<1>4. ASSUME NEW i \in Items, NEW v \in Values, KeypadEdit(i, v) \/ EditRecord(i, v)
      PROVE  PanelType'
  BY <1>1, <1>4 DEF KeypadEdit, EditRecord, PanelType, frames, Content
<1>5. CASE (\E b \in Books : OpenAccount(b)) \/ Receive \/ Silence \/ Close
  BY <1>1, <1>5 DEF OpenAccount, Receive, Silence, Close
<1>6. CASE \E t \in Web, kind \in {"read", "write", "crc"}, i \in Items : WebRequest(t, kind, i)
  BY <1>1, <1>6 DEF WebRequest
<1>7. ASSUME NEW t \in Tasks, Send(t) PROVE PanelType'
  BY <1>7, WrittenType DEF Send, HasTurn, PanelType
<1>8. ASSUME NEW t \in Tasks, Feed(t) PROVE PanelType'
  <2>1. PICK n \in 1..Len(fromPanel) :
          /\ fromPanel' = SubSeq(fromPanel, n + 1, Len(fromPanel))
          /\ Telling(n) = {} => Ignores
          /\ Telling(n) # {} => Settles(t, fromPanel[Deciding(n)])
    BY <1>8, FeedSettles
  <2>2. Busy(t) /\ record' = record
    BY <1>8 DEF Feed, HasTurn
  <2>3. fromPanel' \in Seq(Answers)
    <3>1. n + 1 \in Int /\ Len(fromPanel) \in Int
      BY LenProperties DEF PanelType
    <3>2. \A j \in n + 1..Len(fromPanel) : fromPanel[j] \in Answers
      BY <3>1, ElementOfSeq DEF PanelType
    <3> QED
      BY <2>1, <3>1, <3>2, SubSeqProperties
  <2>4. toPanel' \in Seq(Requests) /\ link' \in {"up", "eof", "closed"}
    <3>1. CASE Ignores
      BY <3>1 DEF Ignores, PanelType
    <3>2. ASSUME NEW m, Settles(t, m)
          PROVE  toPanel' \in Seq(Requests) /\ link' \in {"up", "eof", "closed"}
      <4>1. \/ toPanel' = toPanel /\ (Fails(t, "Disconnected") \/ Succeeds(t, m))
            \/ Retries(t, "WrongReply")
        BY <3>2 DEF Settles
      <4> QED
        BY <2>2, <4>1, RetryType DEF Fails, Succeeds, PanelType
    <3> QED
      BY <2>1, <3>1, <3>2
  <2> QED
    BY <2>2, <2>3, <2>4 DEF PanelType
<1>9. ASSUME NEW t \in Tasks, TimesOut(t) PROVE PanelType'
  BY <1>9, RetryType DEF TimesOut, HasTurn, PanelType
<1>10. ASSUME NEW t \in Tasks, WriteRaises(t) PROVE PanelType'
  BY <1>1, <1>10 DEF WriteRaises, Dies
<1>11. CASE UNCHANGED vars
  BY <1>1, <1>11 DEF vars
<1> QED
  BY <1>2, <1>3, <1>4, <1>5, <1>6, <1>7, <1>8, <1>9, <1>10, <1>11 DEF Next

-----------------------------------------------------------------------------
(***************************************************************************)
(* The line.                                                               *)
(***************************************************************************)

\* The frame belongs to the request that waits for its reply.
Ours(f) ==
  /\ lock # <<>> /\ attempt[lock[1]] # 0
  /\ f.id = job[lock[1]].id /\ f.item = job[lock[1]].item

\* One request or one reply is under way, and it is that of the holder of the
\* lock; after the panel has hung up, its goodbye comes behind that.
LineOK ==
  /\ ~crossed
  /\ toPanel # <<>> => Len(toPanel) = 1 /\ link = "up" /\ fromPanel = <<>> /\ Ours(toPanel[1])
  /\ fromPanel # <<>> /\ (link = "up" \/ fromPanel[1].op # "hangup") => Ours(fromPanel[1])
  /\ link = "up" => Len(fromPanel) <= 1
  /\ \A i \in 2..Len(fromPanel) : fromPanel[i].op = "hangup"

LineInv == ~late => LineOK

\* No request is under way, and no reply.
Quiet ==
  /\ toPanel = <<>> /\ (link = "up" => fromPanel = <<>>)
  /\ \A i \in 1..Len(fromPanel) : fromPanel[i].op = "hangup"

LEMMA QuietIsOK ==
  ASSUME PanelType', Quiet', ~crossed'
  PROVE  LineOK'
<1>1. fromPanel' # <<>> => 1 \in 1..Len(fromPanel)' /\ Len(fromPanel)' \in Nat
  BY EmptySeq, LenProperties DEF PanelType
<1>2. \A i \in 2..Len(fromPanel') : fromPanel'[i].op = "hangup"
  BY LenProperties DEF Quiet, PanelType
<1>3. link' = "up" => Len(fromPanel') <= 1
  BY EmptySeq DEF Quiet
<1> QED
  BY <1>1, <1>2, <1>3 DEF LineOK, Quiet

LEMMA NobodyWaits ==
  ASSUME PanelType, LineOK, lock = <<>> \/ attempt[lock[1]] = 0
  PROVE  Quiet
<1>1. toPanel = <<>> /\ (link = "up" => fromPanel = <<>>)
  BY DEF LineOK, Ours
<1>2. ASSUME NEW i \in 1..Len(fromPanel) PROVE fromPanel[i].op = "hangup"
  <2>1. CASE i = 1
    <3>1. fromPanel # <<>>
      BY <2>1, EmptySeq
    <3> QED
      BY <2>1, <3>1 DEF LineOK, Ours
  <2>2. CASE i # 1
    <3>1. i \in 2..Len(fromPanel)
      BY <2>2, LenProperties DEF PanelType
    <3> QED
      BY <3>1 DEF LineOK
  <2> QED
    BY <2>1, <2>2
<1> QED
  BY <1>1, <1>2 DEF Quiet

\* Who waits for a reply goes on waiting, and the line is as it was.
LEMMA HolderStays ==
  ASSUME TaskType, LockInv, LockInv', LineOK, UNCHANGED <<frames, link, crossed>>,
         \A u \in Tasks : attempt[u] # 0 => attempt'[u] # 0 /\ job'[u] = job[u]
  PROVE  LineOK'
<1>1. ASSUME NEW f, Ours(f) PROVE Ours(f)'
  <2>1. lock[1] \in Tasks
    BY <1>1, ElementOfSeq, EmptySeq, LenProperties DEF Ours, TaskType
  <2>2. attempt'[lock[1]] # 0 /\ job'[lock[1]] = job[lock[1]]
    BY <1>1, <2>1 DEF Ours
  <2>3. lock' # <<>> /\ lock'[1] = lock[1]
    BY <2>1, <2>2 DEF LockInv
  <2> QED
    BY <1>1, <2>2, <2>3 DEF Ours
<1> QED
  BY <1>1 DEF LineOK, frames

\* A request is written to a line that is quiet.
LEMMA HolderSpeaks ==
  ASSUME TaskType, LockInv, PanelType, PanelType', NEW t \in Tasks, HasTurn(t), Written(t),
         UNCHANGED <<link, lock, job, crossed>>, attempt'[t] # 0,
         toPanel = <<>>, link = "up" => fromPanel' = <<>>,
         \A i \in 1..Len(fromPanel') : fromPanel'[i].op = "hangup", ~crossed
  PROVE  LineOK'
<1>1. CASE link = "up"
  <2>1. toPanel' = <<Frame(t)>> /\ Len(toPanel') = 1 /\ toPanel'[1] = Frame(t)
    BY <1>1 DEF Written
  <2>2. lock # <<>> /\ lock[1] = t
    BY DEF HasTurn, LockInv, TaskType
  <2>3. fromPanel' = <<>> /\ Len(fromPanel') = 0
    BY <1>1, EmptySeq
  <2>4. Ours(toPanel[1])'
    BY <2>1, <2>2 DEF Ours, Frame
  <2> QED
    BY <1>1, <2>1, <2>3, <2>4 DEF LineOK
<1>2. CASE link # "up"
  BY <1>2, QuietIsOK DEF Written, Quiet
<1> QED
  BY <1>1, <1>2

LEMMA RetryOnQuietLine ==
  ASSUME TaskType, LockInv, PanelType, PanelType', NEW t \in Tasks, HasTurn(t),
         NEW err, Retries(t, err), toPanel = <<>>, link = "up" => fromPanel' = <<>>,
         \A i \in 1..Len(fromPanel') : fromPanel'[i].op = "hangup", ~crossed
  PROVE  LineOK'
<1>1. CASE Written(t) /\ attempt' = [attempt EXCEPT ![t] = @ + 1]
           /\ UNCHANGED <<session, link, keepalive, lock, job, book, crossed>>
  <2>1. attempt'[t] # 0
    BY <1>1 DEF TaskType
  <2> QED
    BY <1>1, <2>1, HolderSpeaks
<1>2. CASE (Dies(t) \/ Fails(t, err)) /\ toPanel' = toPanel /\ crossed' = crossed
  <2>1. link' = link \/ link' = "closed"
    BY <1>2 DEF Dies, Fails
  <2> QED
    BY <1>2, <2>1, QuietIsOK DEF Quiet
<1> QED
  BY <1>1, <1>2 DEF Retries, Fails

\* What a read leaves behind, and whose the reply is that decides.
LEMMA FeedTakesOurs ==
  ASSUME TaskType, LockInv, PanelType, LineOK, NEW t \in Tasks, HasTurn(t),
         NEW n \in 1..Len(fromPanel), fromPanel' = SubSeq(fromPanel, n + 1, Len(fromPanel))
  PROVE  /\ toPanel = <<>>
         /\ link = "up" => fromPanel' = <<>>
         /\ \A i \in 1..Len(fromPanel') : fromPanel'[i].op = "hangup"
         /\ Telling(n) # {} /\ fromPanel[Deciding(n)].op # "hangup"
              => /\ fromPanel[Deciding(n)].id = job[t].id
                 /\ fromPanel[Deciding(n)].item = job[t].item
<1> DEFINE s == fromPanel
           r == SubSeq(fromPanel, n + 1, Len(fromPanel))
<1>1. /\ s # <<>> /\ Len(s) \in Nat /\ n \in Nat /\ n >= 1 /\ n <= Len(s)
      /\ s \in Seq(Answers)
  BY EmptySeq, LenProperties DEF PanelType
<1>2. toPanel = <<>>
  BY <1>1 DEF LineOK
<1>3. /\ Len(r) = (IF n + 1 <= Len(s) THEN Len(s) - (n + 1) + 1 ELSE 0)
      /\ \A j \in 1..Len(s) - (n + 1) + 1 : r[j] = s[n + 1 + j - 1]
      /\ r \in Seq(Answers)
  <2>1. n + 1 \in Int /\ Len(s) \in Int /\ \A j \in n + 1..Len(s) : s[j] \in Answers
    BY <1>1, ElementOfSeq
  <2> QED
    BY <2>1, SubSeqProperties
<1>4. ASSUME NEW i \in 1..Len(r) PROVE r[i].op = "hangup"
  <2>1. PICK k \in 2..Len(s) : k = n + 1 + i - 1 /\ i \in 1..Len(s) - (n + 1) + 1
    <3>1. n + 1 + i - 1 \in 2..Len(s) /\ i \in 1..Len(s) - (n + 1) + 1
      BY <1>1, <1>3
    <3> QED
      BY <3>1
  <2>2. r[i] = s[k]
    BY <1>3, <2>1
  <2>3. s[k].op = "hangup"
    BY DEF LineOK
  <2> QED
    BY <2>2, <2>3
<1>5. link = "up" => r = <<>>
  <2>1. link = "up" => Len(r) = 0
    BY <1>1, <1>3 DEF LineOK
  <2> QED
    BY <1>3, <2>1, EmptySeq
<1>6. ASSUME Telling(n) # {}, s[Deciding(n)].op # "hangup"
      PROVE  s[Deciding(n)].id = job[t].id /\ s[Deciding(n)].item = job[t].item
  <2>1. Deciding(n) \in 1..n
    BY <1>1, <1>6, DecidingFrame
  <2>2. Deciding(n) = 1
    <3>1. Deciding(n) \notin 2..Len(s)
      BY <1>6 DEF LineOK
    <3> QED
      BY <1>1, <2>1, <3>1
  <2>3. lock[1] = t
    BY DEF HasTurn, LockInv, TaskType
  <2> QED
    BY <1>1, <1>6, <2>2, <2>3 DEF LineOK, Ours
<1> HIDE DEF r
<1>7. fromPanel' = r
  BY DEF r
<1> QED
  BY <1>2, <1>4, <1>5, <1>6, <1>7

LEMMA FeedKeepsLine ==
  ASSUME TaskType, LockInv, PanelType, PanelType', LineOK, NEW t \in Tasks, Feed(t)
  PROVE  LineOK'
<1>1. PICK n \in 1..Len(fromPanel) :
        /\ fromPanel' = SubSeq(fromPanel, n + 1, Len(fromPanel))
        /\ Telling(n) = {} => Ignores
        /\ Telling(n) # {} => Settles(t, fromPanel[Deciding(n)])
  BY FeedSettles
<1>2. HasTurn(t) /\ ~crossed
  BY DEF Feed, LineOK
<1>3. /\ toPanel = <<>>
      /\ link = "up" => fromPanel' = <<>>
      /\ \A i \in 1..Len(fromPanel') : fromPanel'[i].op = "hangup"
      /\ Telling(n) # {} /\ fromPanel[Deciding(n)].op # "hangup"
           => /\ fromPanel[Deciding(n)].id = job[t].id
              /\ fromPanel[Deciding(n)].item = job[t].item
  BY <1>1, <1>2, FeedTakesOurs
<1>4. ASSUME toPanel' = toPanel, link' \in {link, "closed"}, ~crossed' PROVE LineOK'
  BY <1>3, <1>4, QuietIsOK DEF Quiet
<1>5. CASE Ignores
  BY <1>2, <1>4, <1>5 DEF Ignores
<1>6. ASSUME Telling(n) # {} PROVE LineOK'
  <2> DEFINE m == fromPanel[Deciding(n)]
  <2>1. Settles(t, m)
    BY <1>1, <1>6
  <2>2. m.op # "hangup" => m.id = job[t].id /\ m.item = job[t].item
    BY <1>3, <1>6
  <2> HIDE DEF m
  <2>3. Opcode(job[t].kind) # "hangup"
    BY <1>2, FrameType DEF HasTurn, Frame, Requests
  <2>4. \/ toPanel' = toPanel /\ Fails(t, "Disconnected")
        \/ m.op # "hangup" /\ toPanel' = toPanel /\ Succeeds(t, m)
        \/ Retries(t, "WrongReply")
    BY <2>1, <2>3 DEF Settles
  <2>5. CASE toPanel' = toPanel /\ Fails(t, "Disconnected")
    BY <1>2, <1>4, <2>5 DEF Fails
  <2>6. CASE m.op # "hangup" /\ toPanel' = toPanel /\ Succeeds(t, m)
    BY <1>2, <1>4, <2>2, <2>6 DEF Succeeds
  <2>7. CASE Retries(t, "WrongReply")
    BY <1>2, <1>3, <2>7, RetryOnQuietLine
  <2> QED
    BY <2>4, <2>5, <2>6, <2>7
<1> QED
  BY <1>1, <1>5, <1>6

LEMMA PanelKeepsLine ==
  ASSUME TaskType, PanelType, PanelType', LineOK, Answer \/ HangsUp
  PROVE  LineOK'
<1>1. UNCHANGED <<lock, job, attempt, crossed>> /\ ~crossed
  BY DEF Answer, HangsUp, ghosts, LineOK
<1>2. \A f : Ours(f) => Ours(f)'
  BY <1>1 DEF Ours
<1>3. CASE Answer
  <2> DEFINE req == toPanel[1]
  <2>1. /\ toPanel # <<>> /\ Len(toPanel) = 1 /\ link = "up" /\ link' = link
        /\ fromPanel = <<>> /\ Ours(req) /\ req = Head(toPanel)
    BY <1>3 DEF Answer, LineOK
  <2>2. toPanel' = <<>>
    <3>1. toPanel' = Tail(toPanel) /\ Len(Tail(toPanel)) = 0
      BY <1>3, <2>1, HeadTailProperties DEF Answer, PanelType
    <3> QED
      BY <3>1, EmptySeq DEF PanelType
  <2>3. \/ fromPanel' = fromPanel
        \/ \E f : fromPanel' = Append(fromPanel, f) /\ f.id = req.id /\ f.item = req.item
    BY <1>3, <2>1 DEF Answer, Reply
  <2> HIDE DEF req
  <2>4. CASE fromPanel' = fromPanel
    BY <1>1, <2>1, <2>2, <2>4, QuietIsOK DEF Quiet
  <2>5. ASSUME NEW f, fromPanel' = Append(fromPanel, f), f.id = req.id, f.item = req.item
        PROVE  LineOK'
    <3>1. fromPanel' = <<f>> /\ Len(fromPanel') = 1 /\ fromPanel'[1] = f
      BY <2>1, <2>5
    <3>2. Ours(fromPanel[1])'
      BY <1>1, <2>1, <2>5, <3>1 DEF Ours
    <3> QED
      BY <1>1, <2>1, <2>2, <3>1, <3>2 DEF LineOK
  <2> QED
    BY <2>3, <2>4, <2>5
<1>4. CASE HangsUp
  <2> DEFINE bye == [op |-> "hangup", item |-> 0, value |-> Blank, id |-> 0]
  <2>1. /\ link = "up" /\ link' = "eof" /\ toPanel' = <<>>
        /\ fromPanel' = Append(fromPanel, bye) /\ Len(fromPanel) \in Nat
    BY <1>4, LenProperties DEF HangsUp, PanelType
  <2>2. bye.op = "hangup"
    OBVIOUS
  <2> HIDE DEF bye
  <2>3. CASE fromPanel = <<>>
    <3>1. fromPanel' = <<bye>> /\ Len(fromPanel') = 1 /\ fromPanel'[1] = bye
      BY <2>1, <2>3
    <3> QED
      BY <1>1, <2>1, <2>2, <3>1, QuietIsOK DEF Quiet
  <2>4. CASE fromPanel # <<>>
    <3>1. Len(fromPanel) = 1
      <4>1. Len(fromPanel) # 0
        BY <2>4, EmptySeq DEF PanelType
      <4>2. Len(fromPanel) <= 1
        BY <2>1 DEF LineOK
      <4>3. PICK n \in Nat : n = Len(fromPanel)
        BY <2>1
      <4>4. n = 1
        BY <4>1, <4>2, <4>3
      <4> QED
        BY <4>3, <4>4
    <3>2. Len(fromPanel') = 2 /\ fromPanel'[1] = fromPanel[1] /\ fromPanel'[2] = bye
      <4>1. bye \in Answers /\ fromPanel \in Seq(Answers)
        BY DEF bye, Answers, Content, PanelType
      <4>2. /\ Len(fromPanel') = Len(fromPanel) + 1 /\ fromPanel'[Len(fromPanel) + 1] = bye
            /\ \A i \in 1..Len(fromPanel) : fromPanel'[i] = fromPanel[i]
        BY <2>1, <4>1, AppendProperties
      <4> QED
        BY <3>1, <4>2
    <3>3. Ours(fromPanel[1])
      BY <2>1, <2>4 DEF LineOK
    <3>4. Ours(fromPanel[1])'
      BY <1>1, <3>2, <3>3 DEF Ours
    <3> QED
      BY <1>1, <2>1, <2>2, <3>2, <3>4 DEF LineOK
  <2> QED
    BY <2>3, <2>4
<1> QED
  BY <1>3, <1>4

LEMMA LineStep ==
  ASSUME TaskType, LockInv, LockInv', PanelType, PanelType', LineInv, [Next]_vars
  PROVE  LineInv'
<1>1. SUFFICES ASSUME ~late' PROVE LineOK'
  BY DEF LineInv
<1>2. ~late
  BY <1>1 DEF Next, vars, ghosts, Answer, HangsUp, KeypadEdit, EditRecord, OpenAccount, WebRequest,
              Receive, Silence, Close, Send, Feed, TimesOut, WriteRaises
<1>3. LineOK
  BY <1>2 DEF LineInv
<1>4. ASSUME UNCHANGED <<frames, link, crossed, lock, job, attempt>> PROVE LineOK'
  BY <1>3, <1>4 DEF LineOK, Ours, frames
<1>5. CASE Answer \/ HangsUp
  BY <1>3, <1>5, PanelKeepsLine
<1>6. CASE \E i \in Items, v \in Values : KeypadEdit(i, v) \/ EditRecord(i, v)
  BY <1>4, <1>6 DEF KeypadEdit, EditRecord, ghosts
<1>7. CASE \E b \in Books : OpenAccount(b)
  BY <1>4, <1>7 DEF OpenAccount, ghosts
<1>8. ASSUME NEW t \in Tasks, NEW j, ~Busy(t), Asks(t, j),
             UNCHANGED <<frames, link, crossed, attempt>>
      PROVE  LineOK'
  <2>1. ASSUME NEW u \in Tasks, attempt[u] # 0 PROVE attempt'[u] # 0 /\ job'[u] = job[u]
    <3>1. Busy(u)
      <4>1. lock # <<>> /\ lock[1] = u
        BY <2>1 DEF LockInv
      <4>2. 1 \in 1..Len(lock)
        BY <4>1, EmptySeq, LenProperties DEF TaskType
      <4> QED
        BY <4>1, <4>2 DEF LockInv
    <3> QED
      BY <1>8, <2>1, <3>1 DEF Asks, TaskType
  <2> QED
    BY <1>3, <1>8, <2>1, HolderStays
<1>9. CASE \E t \in Web, kind \in {"read", "write", "crc"}, i \in Items : WebRequest(t, kind, i)
  BY <1>8, <1>9 DEF WebRequest, ghosts, Tasks
<1>10. CASE Receive \/ Silence
  BY <1>8, <1>10 DEF Receive, Silence, ghosts, Tasks
<1>11. CASE Close
  <2>1. attempt[Keepalive] = 0
    <3>1. attempt[Keepalive] \in Nat /\ ~(attempt[Keepalive] > 0)
      BY <1>1, <1>11 DEF Close, TaskType, Tasks
    <3> QED
      BY <3>1
  <2>2. ASSUME NEW u \in Tasks, attempt[u] # 0 PROVE attempt'[u] # 0 /\ job'[u] = job[u]
    <3>1. Busy(u)
      <4>1. lock # <<>> /\ lock[1] = u
        BY <2>2 DEF LockInv
      <4>2. 1 \in 1..Len(lock)
        BY <4>1, EmptySeq, LenProperties DEF TaskType
      <4> QED
        BY <4>1, <4>2 DEF LockInv
    <3>2. u # Keepalive /\ u # Closer
      BY <1>11, <2>1, <2>2, <3>1 DEF Close
    <3> QED
      BY <1>11, <2>2, <3>2 DEF Close, TaskType
  <2> QED
    BY <1>3, <1>11, <2>2, HolderStays DEF Close
<1>12. ASSUME NEW t \in Tasks, HasTurn(t), attempt[t] = 0
       PROVE  Quiet /\ ~crossed
  <2>1. lock[1] = t
    BY <1>12 DEF HasTurn, LockInv, TaskType
  <2> QED
    BY <1>3, <1>12, <2>1, NobodyWaits DEF LineOK
<1>13. ASSUME NEW t \in Tasks, Send(t) PROVE LineOK'
  <2>1. Quiet /\ ~crossed /\ HasTurn(t)
    BY <1>12, <1>13 DEF Send
  <2>2. attempt'[t] # 0
    BY <1>13 DEF Send, TaskType
  <2> QED
    BY <1>13, <2>1, <2>2, HolderSpeaks DEF Send, Quiet, ghosts
<1>14. ASSUME NEW t \in Tasks, Feed(t) PROVE LineOK'
  BY <1>3, <1>14, FeedKeepsLine
<1>15. ASSUME NEW t \in Tasks, TimesOut(t) PROVE LineOK'
  <2>1. toPanel = <<>> /\ fromPanel = <<>> /\ UNCHANGED fromPanel
    BY <1>1, <1>15 DEF TimesOut
  <2>2. \A i \in 1..Len(fromPanel') : fromPanel'[i].op = "hangup"
    <3>1. Len(fromPanel') = 0
      BY <2>1, EmptySeq
    <3> QED
      BY <3>1
  <2> QED
    BY <1>3, <1>15, <2>1, <2>2, RetryOnQuietLine DEF TimesOut, LineOK
<1>16. ASSUME NEW t \in Tasks, WriteRaises(t) PROVE LineOK'
  <2>1. Quiet /\ ~crossed
    BY <1>12, <1>16 DEF WriteRaises
  <2> QED
    BY <1>16, <2>1, QuietIsOK DEF WriteRaises, Dies, Quiet, frames
<1>17. CASE UNCHANGED vars
  BY <1>4, <1>17 DEF vars, ghosts
<1> QED
  BY <1>5, <1>6, <1>7, <1>9, <1>10, <1>11, <1>13, <1>14, <1>15, <1>16, <1>17 DEF Next

-----------------------------------------------------------------------------
\* What every step keeps.
Inv == TaskType /\ LockInv /\ PanelType /\ BookType /\ ReportInv /\ LineInv

LEMMA InitInv == Init => Inv
<1> SUFFICES ASSUME Init PROVE Inv
  OBVIOUS
<1>1. TaskType
  BY DEF Init, TaskType, Jobs, NoJob
<1>2. LockInv
  BY DEF Init, LockInv, Busy, NoJob
<1>3. PanelType
  BY DEF Init, PanelType, Content
<1>4. BookType
  <2>1. current \in Books
    BY SessionAssumption DEF Init, SessionAssumption
  <2> QED
    BY <2>1 DEF Init, BookType, Content, Reports
<1>5. ReportInv
  BY DEF Init, ReportInv, ReceiveAccountsForAll, NoReport, NoJob, Busy, Tasks
<1>6. LineInv
  BY DEF Init, LineInv, LineOK
<1> QED
  BY <1>1, <1>2, <1>3, <1>4, <1>5, <1>6 DEF Inv

LEMMA NextInv == Inv /\ [Next]_vars => Inv'
<1> SUFFICES ASSUME Inv, [Next]_vars PROVE Inv'
  OBVIOUS
<1>1. TaskType /\ LockInv /\ PanelType /\ BookType /\ ReportInv /\ LineInv
  BY DEF Inv
<1>2. TaskType' /\ LockInv'
  BY <1>1, TaskTypeStep, LockStep
<1>3. PanelType' /\ BookType' /\ ReportInv'
  BY <1>1, PanelTypeStep, BookTypeStep
<1>4. LineInv'
  BY <1>1, <1>2, <1>3, LineStep
<1> QED
  BY <1>2, <1>3, <1>4 DEF Inv

LEMMA SpecInv == Spec => []Inv
<1>1. Init => Inv
  BY InitInv
<1>2. Inv /\ [Next]_vars => Inv'
  BY NextInv
<1> QED
  BY <1>1, <1>2, PTL DEF Spec

\* The state is always of its types: what is in an account, on the line and in
\* the panel is a record or none, and a task has asked for what it may ask.
THEOREM SessionTypes == Spec => [](TaskType /\ PanelType /\ BookType)
<1>1. Inv => TaskType /\ PanelType /\ BookType
  BY DEF Inv
<1> QED
  BY <1>1, SpecInv, PTL

\* Session._lock is held by one task, waited for once by each that has asked,
\* and given back whatever way a request ends; only its holder has sent anything.
THEOREM LockIsHeldByOne == Spec => []LockInv
<1>1. Inv => LockInv
  BY DEF Inv
<1> QED
  BY <1>1, SpecInv, PTL

\* Session.request returns the reply to the request it sent, for any number of
\* tasks and requests, as long as no attempt was given up with a reply under way.
THEOREM RepliesMatchRequests == Spec => []RepliesAreOurs
<1>1. Inv => RepliesAreOurs
  BY DEF Inv, LineInv, LineOK, RepliesAreOurs
<1> QED
  BY <1>1, SpecInv, PTL

\* The ReceiveReport of receive_all tells of every item the receive passed, once,
\* and a finished one of all items of the table.
THEOREM ReportIsComplete == Spec => []ReceiveAccountsForAll
<1>1. Inv => ReceiveAccountsForAll
  BY DEF Inv, ReportInv
<1> QED
  BY <1>1, SpecInv, PTL

LEMMA ReceivedKeepToBook ==
  ASSUME Inv, [Next]_vars, report.state = "running",
         report'.read # report.read \/ report'.unanswered # report.unanswered
  PROVE  \A b \in Books, i \in Items :
           account'[b][i] # account[b][i] => b = report.book /\ i \in report'.read
<1>1. TaskType /\ PanelType /\ BookType /\ ReportInv /\ Busy(Receiver)
  BY DEF Inv, ReportInv
<1>2. \E t \in Tasks : Feed(t) \/ TimesOut(t) \/ WriteRaises(t)
  BY <1>1 DEF Next, vars, book, Answer, HangsUp, KeypadEdit, EditRecord, OpenAccount, WebRequest,
              Receive, Silence, Close, Send
<1>3. ReceiverStep
  BY <1>1, <1>2, HolderBooks
<1>4. report \in RunningReports
  BY <1>1, RunningReceive
<1>5. CASE \E v \in Content : Gains(v)
  <2>1. PICK v \in Content : Gains(v)
    BY <1>5
  <2>2. account' = [account EXCEPT ![report.book][Item] = v]
    BY <2>1 DEF Gains
  <2>3. Item \in report'.read
    BY <1>4, <2>1 DEF Gains, Finished, RunningReports
  <2> QED
    BY <1>1, <1>4, <2>2, <2>3 DEF BookType, RunningReports
<1>6. CASE account' = account
  BY <1>6
<1>7. ~LeavesReport
  BY DEF LeavesReport
<1> QED
  BY <1>3, <1>5, <1>6, <1>7 DEF ReceiverStep, Misses, GivesUp

\* What receive_all brings in changes only the account that was open when it
\* began, and only the records it has an answer to, whatever is opened meanwhile.
THEOREM ReceivesKeepToTheirAccount == Spec => ReceiveKeepsToItsAccount
<1>1. Inv /\ [Next]_vars =>
        [report.state = "running" /\ (report'.read # report.read \/ report'.unanswered # report.unanswered) =>
           \A b \in Books, i \in Items :
             account'[b][i] # account[b][i] => b = report.book /\ i \in report'.read]_vars
  BY ReceivedKeepToBook
<1> QED
  BY <1>1, SpecInv, PTL DEF Spec, ReceiveKeepsToItsAccount
=============================================================================
