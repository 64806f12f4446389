------------------------------ MODULE RpSession ------------------------------
(***************************************************************************)
(* A programming session of the app: requests and their replies, retries,   *)
(* the lock that lets one request speak at a time, the keepalive, and what   *)
(* rests on them: reading, writing and verifying one record, receiving all   *)
(* records into an account, and closing.  One session, already logged in.    *)
(***************************************************************************)
EXTENDS Integers, Sequences, SequencesExt, FiniteSets

CONSTANTS
  Web,          \* tasks that serve HTTP requests
  Items,        \* item numbers of one table, 1..n
  Values,       \* contents of a record
  Books,        \* accounts
  MaxRequests,  \* requests begun in all
  MaxFaults,    \* frames lost, spoilt or late, the panel hanging up, edits
  Blank, Absent \* a blank record; no record

Receiver  == "receive_task"
Keepalive == "_keepalive"
Closer    == "close"
Tasks == Web \cup {Receiver, Keepalive, Closer}

ASSUME SessionAssumption ==
  /\ IsFiniteSet(Items) /\ Items # {} /\ Items = 1..Cardinality(Items)
  /\ Blank \notin Values /\ Books # {}
  /\ Web \cap {Receiver, Keepalive, Closer} = {}

VARIABLES
  record,    \* panel: its records
  toPanel, fromPanel,  \* frames under way; a reply holds the id of its request
  link,      \* "up", "eof" once the panel hung up, "closed" by the app
  session,   \* state.session is not None
  keepalive, \* Session._keepalive runs
  lock,      \* Session._lock: its holder, then those that wait
  job,       \* what a task has asked for, or NoJob
  attempt,   \* attempts that a task has sent for its request
  account, current,  \* records of every account; state.account
  report,    \* ReceiveReport of the last receive, and the account it fills
  requests, faults,
  \* Bookkeeping that the program does not keep.
  late,      \* an attempt timed out in this session
  crossed    \* a request was answered by the reply to another one

frames == <<toPanel, fromPanel>>
book   == <<account, current, report>>
ghosts == <<late, crossed>>
vars == <<record, frames, link, session, keepalive, lock, job, attempt, book,
          requests, faults, ghosts>>

NoJob == [kind |-> "none", item |-> 0]
NoReport == [state |-> "none"]

Init ==
  /\ record = [i \in Items |-> Blank]
  /\ toPanel = <<>> /\ fromPanel = <<>> /\ link = "up"
  /\ session = TRUE /\ keepalive = TRUE /\ lock = <<>>
  /\ job = [t \in Tasks |-> NoJob] /\ attempt = [t \in Tasks |-> 0]
  /\ account = [b \in Books |-> [i \in Items |-> Absent]] /\ current = CHOOSE b \in Books : TRUE
  /\ report = NoReport /\ requests = 0 /\ faults = 0
  /\ late = FALSE /\ crossed = FALSE

Busy(t) == job[t].kind # "none"
Fault == faults < MaxFaults /\ faults' = faults + 1

-----------------------------------------------------------------------------
\* messages.py: the opcode that a reply repeats, and the attempts.

Opcode(kind) == CASE kind \in {"read", "receive"} -> "read"
                  [] kind \in {"keepalive", "disconnect"} -> "system"
                  [] OTHER -> kind
Attempts(kind) == IF kind \in {"keepalive", "disconnect"} THEN 2 ELSE 4

\* The panel answers a request, or with a NAK, an answer that the line spoils,
\* or a bare ACK, which no request here expects; or the line loses it.  It
\* answers a disconnect by hanging up.
Reply(req, value) == [op |-> req.op, item |-> req.item, value |-> value, id |-> req.id]

Answer ==
  /\ toPanel # <<>> /\ link = "up" /\ toPanel' = Tail(toPanel)
  /\ LET req == Head(toPanel) IN
       \/ /\ record' = IF req.op = "write" THEN [record EXCEPT ![req.item] = req.value] ELSE record
          /\ fromPanel' = Append(fromPanel,
               IF req.kind = "disconnect" THEN [Reply(req, Blank) EXCEPT !.op = "hangup"]
               ELSE Reply(req, IF req.op \in {"read", "crc"} THEN record[req.item] ELSE Blank))
          /\ UNCHANGED faults
       \/ \E op \in {"nak", "crc_error", "ack"} :
            /\ Fault /\ UNCHANGED record
            /\ fromPanel' = Append(fromPanel, [Reply(req, Blank) EXCEPT !.op = op])
       \/ Fault /\ UNCHANGED <<record, fromPanel>>
  /\ UNCHANGED <<link, session, keepalive, lock, job, attempt, book, requests, ghosts>>

\* The panel drops the session: it says so, and the module closes the line.
HangsUp ==
  /\ Fault /\ link = "up" /\ link' = "eof" /\ toPanel' = <<>>
  /\ fromPanel' = Append(fromPanel, [op |-> "hangup", item |-> 0, value |-> Blank, id |-> 0])
  /\ UNCHANGED <<record, session, keepalive, lock, job, attempt, book, requests, ghosts>>

\* Somebody changes the record at a keypad.
KeypadEdit(i, v) ==
  /\ Fault /\ record[i] # v /\ record' = [record EXCEPT ![i] = v]
  /\ UNCHANGED <<frames, link, session, keepalive, lock, job, attempt, book, requests, ghosts>>

-----------------------------------------------------------------------------
\* Accounts.

\* Account.record makes the blank record that is not there.
Local(i) == IF account[current][i] = Absent THEN Blank ELSE account[current][i]

EditRecord(i, v) ==
  /\ Fault /\ account' = [account EXCEPT ![current][i] = v]
  /\ UNCHANGED <<record, frames, link, session, keepalive, lock, job, attempt, current,
                 report, requests, ghosts>>

\* open_account and new_account replace state.account.
OpenAccount(b) ==
  /\ Fault /\ b # current /\ current' = b
  /\ UNCHANGED <<record, frames, link, session, keepalive, lock, job, attempt, account,
                 report, requests, ghosts>>

-----------------------------------------------------------------------------
\* Requests: a task asks for the lock; its payload is encoded before that.

Job(kind, i, v) == [kind |-> kind, item |-> i, value |-> v, id |-> requests + 1]
Asks(t, j) ==
  /\ requests < MaxRequests /\ requests' = requests + 1
  /\ job' = [job EXCEPT ![t] = j] /\ lock' = Append(lock, t)

\* panel_read, panel_write and panel_verify.  Writing makes the record that it
\* encodes when the account has none.
WebRequest(t, kind, i) ==
  /\ session /\ ~Busy(t) /\ Asks(t, Job(kind, i, IF kind = "write" THEN Local(i) ELSE Blank))
  /\ account' = IF kind = "write" THEN [account EXCEPT ![current][i] = Local(i)] ELSE account
  /\ UNCHANGED <<record, frames, link, session, keepalive, attempt, current, report, faults, ghosts>>

\* panel_receive refuses a second receive.  The task holds the account that is
\* open when it starts.
Receive ==
  /\ session /\ ~Busy(Receiver) /\ Asks(Receiver, Job("receive", 1, Blank))
  /\ report' = [state |-> "running", book |-> current, read |-> {}, unanswered |-> {}]
  /\ UNCHANGED <<record, frames, link, session, keepalive, attempt, account, current, faults, ghosts>>

\* 15 s after the last attempt ended: a request that came meanwhile is still at
\* its first, and the keepalive waits behind it.
Silence ==
  /\ keepalive /\ ~Busy(Keepalive) /\ (lock # <<>> => attempt[Head(lock)] <= 1)
  /\ Asks(Keepalive, Job("keepalive", 0, Blank))
  /\ UNCHANGED <<record, frames, link, session, keepalive, attempt, book, faults, ghosts>>

\* close: the cancelled keepalive gives back the lock, or its place there.
Close ==
  /\ session /\ ~Busy(Closer) /\ requests < MaxRequests /\ requests' = requests + 1
  /\ keepalive' = FALSE
  /\ job' = [job EXCEPT ![Keepalive] = NoJob, ![Closer] = Job("disconnect", 0, Blank)]
  /\ attempt' = [attempt EXCEPT ![Keepalive] = 0]
  /\ late' = (late \/ attempt[Keepalive] > 0)
  /\ IF Busy(Keepalive)
       THEN \E i \in DOMAIN lock : lock[i] = Keepalive /\ lock' = Append(RemoveAt(lock, i), Closer)
       ELSE lock' = Append(lock, Closer)
  /\ UNCHANGED <<record, frames, link, session, book, faults, crossed>>

\* Mutant: the lock covers the sending of a request and not its reply.
HasTurnToSend(t) == Busy(t)
HasTurn(t) == Busy(t) /\ Head(lock) = t

Frame(t) == [op |-> Opcode(job[t].kind), kind |-> job[t].kind, item |-> job[t].item,
             value |-> job[t].value, id |-> job[t].id]
Written(t) == toPanel' = IF link = "up" THEN Append(toPanel, Frame(t)) ELSE toPanel

Send(t) ==
  /\ HasTurn(t) /\ attempt[t] = 0 /\ attempt' = [attempt EXCEPT ![t] = 1] /\ Written(t)
  /\ UNCHANGED <<record, fromPanel, link, session, keepalive, lock, job, book, requests, faults, ghosts>>

-----------------------------------------------------------------------------
\* How a request ends.  The receive goes on with the next item.

\* Mutant: a receive fills the account that is open when a record arrives.
ReceiveIntoCurrent == current
ReceiveInto == report.book

\* Mutant: the lock is not given back.
ReleasesNot(t) ==
  /\ lock' = lock /\ job' = [job EXCEPT ![t] = NoJob] /\ attempt' = [attempt EXCEPT ![t] = 0]

Releases(t) ==
  /\ lock' = Tail(lock) /\ job' = [job EXCEPT ![t] = NoJob]
  /\ attempt' = [attempt EXCEPT ![t] = 0]

\* Mutant: the last item is left out.
GoesOnButLast(i) == i + 1 < Cardinality(Items)
GoesOn(i) == i < Cardinality(Items)

NextItem(t) ==
  IF GoesOn(job[t].item)
    THEN /\ job' = [job EXCEPT ![t].item = @ + 1] /\ attempt' = [attempt EXCEPT ![t] = 0]
         /\ lock' = Append(Tail(lock), t)
    ELSE Releases(t)
Finished(r, i) == IF GoesOn(i) THEN r ELSE [r EXCEPT !.state = "finished"]

Succeeds(t, m) ==
  /\ crossed' = (crossed \/ m.id # job[t].id \/ m.item # job[t].item)
  /\ CASE job[t].kind = "receive" ->
            /\ account' = [account EXCEPT ![ReceiveInto][job[t].item] = m.value]
            /\ report' = Finished([report EXCEPT !.read = @ \cup {job[t].item}], job[t].item)
            /\ NextItem(t) /\ UNCHANGED <<session, link>>
       [] job[t].kind = "disconnect" ->
            session' = FALSE /\ link' = "closed" /\ Releases(t) /\ UNCHANGED <<account, report>>
       [] job[t].kind = "read" ->
            \* The comparison makes the record of the account.
            /\ account' = [account EXCEPT ![current][job[t].item] = Local(job[t].item)]
            /\ Releases(t) /\ UNCHANGED <<report, session, link>>
       [] OTHER -> Releases(t) /\ UNCHANGED <<account, report, session, link>>
  /\ UNCHANGED <<current, keepalive>>

\* Timeout and WrongReply leave an item unanswered, another SessionError stops
\* the receive; each of them ends the keepalive; close ignores them.
Fails(t, err) ==
  /\ keepalive' = (keepalive /\ t # Keepalive)
  /\ IF t = Closer THEN session' = FALSE /\ link' = "closed" ELSE UNCHANGED <<session, link>>
  /\ CASE t = Receiver /\ err # "Disconnected" ->
            report' = Finished([report EXCEPT !.unanswered = @ \cup {job[t].item}], job[t].item)
            /\ NextItem(t)
       [] t = Receiver /\ err = "Disconnected" ->
            report' = [report EXCEPT !.state = "stopped"] /\ Releases(t)
       [] OTHER -> report' = report /\ Releases(t)
  /\ UNCHANGED <<account, current, crossed>>

\* A write to a connection that is gone may raise OSError, which nothing on the
\* way catches: the receive dies without a report, a close leaves the session.
Dies(t) ==
  /\ Releases(t) /\ keepalive' = (keepalive /\ t # Keepalive)
  /\ report' = IF t = Receiver THEN [report EXCEPT !.state = "died"] ELSE report
  /\ UNCHANGED <<link, session, account, current>>

\* The next attempt, or the last error.
Retries(t, err) ==
  IF attempt[t] < Attempts(job[t].kind)
    THEN \/ /\ attempt' = [attempt EXCEPT ![t] = @ + 1] /\ Written(t)
            /\ UNCHANGED <<session, link, keepalive, lock, job, book, crossed>>
         \/ link # "up" /\ Dies(t) /\ UNCHANGED <<toPanel, crossed>>
    ELSE Fails(t, err) /\ UNCHANGED toPanel

\* One read delivers some frames.  The first that is no ACK decides, and the
\* rest of what was read is dropped with it.
Feed(t) ==
  /\ HasTurn(t) /\ attempt[t] > 0 /\ link # "closed"
  /\ \E n \in 1..Len(fromPanel) :
       LET telling == {k \in 1..n : fromPanel[k].op # "ack"} IN
         /\ fromPanel' = SubSeq(fromPanel, n + 1, Len(fromPanel))
         /\ IF telling = {}
              THEN UNCHANGED <<toPanel, session, link, keepalive, lock, job, attempt, book,
                               crossed>>
              ELSE LET m == fromPanel[CHOOSE k \in telling : \A j \in telling : k <= j] IN
                   CASE m.op = "hangup" -> Fails(t, "Disconnected") /\ UNCHANGED toPanel
                     [] m.op = Opcode(job[t].kind) -> Succeeds(t, m) /\ UNCHANGED toPanel
                     [] OTHER -> Retries(t, "WrongReply")
  /\ UNCHANGED <<record, requests, faults, late>>

\* The deadline of an attempt.  At the end of the stream a read returns at once
\* and empty, so that the attempt only waits for it.
TimesOut(t) ==
  /\ HasTurn(t) /\ attempt[t] > 0 /\ Retries(t, "Timeout")
  /\ LET due == toPanel # <<>> \/ fromPanel # <<>> IN
       /\ late' = (late \/ due)
       /\ IF due /\ link = "up" THEN Fault ELSE UNCHANGED faults
  /\ UNCHANGED <<record, fromPanel, requests>>

WriteRaises(t) ==
  /\ HasTurn(t) /\ attempt[t] = 0 /\ link # "up" /\ Dies(t) /\ UNCHANGED <<crossed>>
  /\ UNCHANGED <<record, frames, requests, faults, late>>

Next ==
  \/ Answer \/ HangsUp \/ \E i \in Items, v \in Values : KeypadEdit(i, v) \/ EditRecord(i, v)
  \/ \E b \in Books : OpenAccount(b)
  \/ \E t \in Web, kind \in {"read", "write", "crc"}, i \in Items : WebRequest(t, kind, i)
  \/ Receive \/ Silence \/ Close
  \/ \E t \in Tasks : Send(t) \/ Feed(t) \/ TimesOut(t) \/ WriteRaises(t)

\* The panel works, every attempt has a deadline, and the event loop runs a task
\* that may go on.  An answer that does not come in time is one of the faults.
Spec == Init /\ [][Next]_vars /\ WF_vars(Answer)
        /\ \A t \in Tasks : WF_vars(Send(t)) /\ WF_vars(TimesOut(t) \/ Feed(t) \/ WriteRaises(t))

-----------------------------------------------------------------------------
\* While no attempt is given up with a reply under way, no request is answered
\* by the reply to another: what a read returns is the record it asked for, and
\* a write that is reported as sent is in the panel.
RepliesAreOurs == ~late => ~crossed

\* A receive accounts for every item it passed, each as read or unanswered, and
\* a finished one for all of them.
ReceiveAccountsForAll ==
  report.state # "none" =>
    /\ report.read \cap report.unanswered = {}
    /\ report.state = "finished" => report.read \cup report.unanswered = Items
    /\ report.state = "running" => report.read \cup report.unanswered = 1..(job[Receiver].item - 1)

\* What a receive brings in changes no account but the one that was open when
\* it started, whatever is opened meanwhile, and no record it has no answer to.
ReceiveKeepsToItsAccount ==
  [][report.state = "running" /\ (report'.read # report.read \/ report'.unanswered # report.unanswered) =>
       \A b \in Books, i \in Items :
         account'[b][i] # account[b][i] => b = report.book /\ i \in report'.read]_vars

\* Every request ends, also when the panel hangs up or the session is closed
\* under it.
EveryRequestEnds == \A t \in Tasks : Busy(t) ~> ~Busy(t)

=============================================================================
