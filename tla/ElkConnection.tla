---------------------------- MODULE ElkConnection ----------------------------
(***************************************************************************)
(* The outbound half of an ELK-M1 serial link: the write queue, the write  *)
(* stream that drains it one awaited reply at a time, the read stream that *)
(* releases it, ElkRP pause and resume, and the transports that are opened *)
(* and closed underneath one long-lived Connection object.                 *)
(*                                                                         *)
(* Everything here but the panel runs on one asyncio event loop, so a task *)
(* keeps the loop from one suspension to the next.  The write stream is    *)
(* the only task that takes several model steps without suspending; while  *)
(* it does (pump = "running") no other task of the program may move.       *)
(***************************************************************************)
EXTENDS Integers, Sequences, FiniteSets

CONSTANTS
  Replies,      \* reply types an encoder can name: "AS", "ZB", "VN", ...
  None,         \* Python's None: no reply expected, nothing awaited
  SyncBatch,    \* response commands of the writes one hub resync queues
  MaxSends,     \* bound on the writes accepted in a behaviour
  MaxSessions,  \* bound on the transports opened in a behaviour
  MaxEvents,    \* bound on the frames the panel sends of its own accord
  Lossy         \* whether the line may corrupt a frame of the panel's

ASSUME ConnectionAssumption ==
  /\ None \notin Replies
  /\ {"RP_CONNECTED", "RP_DISCONNECTED", "IE"} \cap (Replies \cup {None}) = {}
  /\ SyncBatch \in Seq(Replies \cup {None})
  /\ MaxSends \in Nat /\ MaxSessions \in Nat /\ MaxEvents \in Nat
  /\ Lossy \in BOOLEAN

VARIABLES
  writer,    \* Connection.writer is not None
  reader,    \* the read-stream task is alive
  pump,      \* where the write-stream task is suspended, if it exists
  queue,     \* Connection._write_queue
  wake,      \* Connection._check_write_queue.is_set()
  response,  \* Connection.response_received.is_set()
  awaiting,  \* Connection.awaiting_response_command
  paused,    \* Connection._paused
  wire,      \* writes the panel has not processed yet
  inbound,   \* frames the read stream has not read yet
  rpActive,  \* the panel is being programmed by ElkRP
  \* Bookkeeping that the program does not keep.
  session,   \* transports opened so far
  accepted,  \* writes accepted so far; also the identity of the last one
  events,    \* frames the panel has sent of its own accord
  inFlight,  \* awaited writes since the stream last ended a wait, or itself
  missed     \* the latest RP change never reached the read stream

linkVars  == <<writer, reader, session>>
queueVars == <<queue, wake, accepted>>
gateVars  == <<response, awaiting, inFlight>>
panelVars == <<rpActive, events, missed>>
vars == <<linkVars, pump, queueVars, gateVars, paused, wire, inbound, panelVars>>

QueuedWrite == [id : Nat, reply : Replies \cup {None}, urgent : BOOLEAN]
RpFrames    == {"RP_CONNECTED", "RP_DISCONNECTED"}
Frames      == Replies \cup RpFrames \cup {"IE"}

\* The event loop is free: the write stream is suspended, not running.
LoopFree == pump # "running"

\* Some ElkRP status change is still on its way to the read stream.
RpPending == \E i \in DOMAIN inbound : inbound[i] \in RpFrames

-----------------------------------------------------------------------------
Init ==
  /\ writer = FALSE /\ reader = FALSE /\ session = 0
  /\ pump = "none"
  /\ queue = <<>> /\ wake = FALSE /\ accepted = 0
  /\ response = FALSE /\ awaiting = None /\ inFlight = 0
  /\ paused = FALSE
  /\ wire = <<>> /\ inbound = <<>>
  /\ rpActive = FALSE /\ events = 0 /\ missed = FALSE

(***************************************************************************)
(* Callers.                                                                *)
(***************************************************************************)
\* Mutant: every send goes to the front.
EnqueueInFront(entry) == <<entry>> \o queue

\* A priority send goes to the front of the queue, any other to its end.
Enqueue(entry) == IF entry.urgent THEN <<entry>> \o queue ELSE Append(queue, entry)

\* Connection.send: refused (ConnectionError, no change) while paused or
\* without a writer.
Send(reply, urgent) ==
  /\ LoopFree
  /\ ~paused /\ writer
  /\ accepted < MaxSends
  /\ accepted' = accepted + 1
  /\ queue' = Enqueue([id |-> accepted + 1, reply |-> reply, urgent |-> urgent])
  /\ wake' = TRUE
  /\ UNCHANGED <<linkVars, pump, gateVars, paused, wire, inbound, panelVars>>

\* Elk._call_sync_handlers: every collection's sync() and the closing "ua"
\* are plain sends.  While paused the first of them raises, Notifier.notify
\* logs the exception, and the resync is gone.
Resync ==
  IF paused
    THEN UNCHANGED queueVars
    ELSE /\ accepted' = accepted + Len(SyncBatch)
         /\ queue' = queue \o [i \in 1..Len(SyncBatch) |->
                        [id |-> accepted + i, reply |-> SyncBatch[i], urgent |-> FALSE]]
         /\ wake' = (wake \/ SyncBatch # <<>>)

(***************************************************************************)
(* The write stream.                                                       *)
(***************************************************************************)
\* The task starts, or its wait on _check_write_queue is over.
PumpResumes ==
  /\ \/ pump = "scheduled"
     \/ pump = "idle" /\ wake
  /\ pump' = "running"
  /\ UNCHANGED <<linkVars, queueVars, gateVars, paused, wire, inbound, panelVars>>

\* Top of the loop with nothing queued: wait for the event, or, when it is
\* set for writes a pause has thrown away since, clear it and look again.
PumpFindsNothing ==
  /\ pump = "running" /\ queue = <<>>
  /\ pump' = IF wake THEN "running" ELSE "idle"
  /\ wake' = FALSE
  /\ UNCHANGED <<linkVars, queue, accepted, gateVars, paused, wire, inbound, panelVars>>

\* Top of the loop with something queued: pop it, write it, and wait for its
\* reply if it has one.  Event.wait() does not suspend on an event that is
\* already set, so a response left over from elsewhere ends the wait at once.
PumpWrites ==
  /\ pump = "running" /\ queue # <<>>
  /\ queue' = Tail(queue)
  /\ wake' = FALSE
  /\ wire' = Append(wire, Head(queue).reply)
  /\ IF Head(queue).reply = None
       THEN UNCHANGED <<pump, gateVars>>
       ELSE /\ inFlight' = inFlight + 1
            /\ response' = FALSE
            /\ IF response THEN awaiting' = None /\ pump' = "running"
                           ELSE awaiting' = Head(queue).reply /\ pump' = "reply"
  /\ UNCHANGED <<linkVars, accepted, paused, inbound, panelVars>>

\* writer.write raises: the popped write is lost and the task is over.
PumpFails ==
  /\ pump = "running" /\ queue # <<>>
  /\ queue' = Tail(queue)
  /\ wake' = FALSE
  /\ pump' = "none" /\ inFlight' = 0
  /\ UNCHANGED <<linkVars, accepted, response, awaiting, paused, wire, inbound, panelVars>>

\* The wait for a reply ends, the flag and the awaited command are reset.
EndWait ==
  /\ response' = FALSE /\ awaiting' = None /\ inFlight' = 0
  /\ pump' = "running"
  /\ UNCHANGED <<linkVars, queueVars, paused, wire, inbound, panelVars>>

ReplyReleases == pump = "reply" /\ response /\ EndWait

\* Mutant: a wait that only a reply ends.
WaitHasNoTimer == pump = "reply" /\ response /\ EndWait

\* MESSAGE_RESPONSE_TIME elapses; the timer can beat a reply that is in.
WaitTimesOut == pump = "reply" /\ EndWait

(***************************************************************************)
(* The read stream: one validated frame, correlated and then dispatched.   *)
(***************************************************************************)
\* Connection.pause
Pause == paused' = TRUE /\ queue' = <<>> /\ UNCHANGED <<wake, accepted>>

\* Mutant: a wait for a reply swallows the resume.
ResumeOnlyIfIdle == paused' = (paused /\ awaiting # None) /\ UNCHANGED queueVars

\* Connection.resume
Resume == paused' = FALSE /\ UNCHANGED queueVars

ReceiveFrame ==
  /\ LoopFree /\ reader /\ inbound # <<>>
  /\ inbound' = Tail(inbound)
  /\ LET frame == Head(inbound) IN
       /\ response' = (response \/ frame = awaiting)
       /\ \/ /\ frame \in Replies
             /\ UNCHANGED <<paused, queueVars>>
          \/ frame = "RP_CONNECTED" /\ Pause
          \/ frame = "RP_DISCONNECTED" /\ Resume
          \/ /\ frame = "IE"
             /\ Resync
             /\ UNCHANGED paused
  /\ UNCHANGED <<linkVars, pump, awaiting, inFlight, wire, panelVars>>

(***************************************************************************)
(* The transport underneath.                                               *)
(***************************************************************************)
\* _entry_connect has an open port: both streams are created and "connected"
\* resyncs the hub.  The queue, both events, the awaited command and the
\* pause are those of the previous transport.
OpenTransport ==
  /\ LoopFree /\ ~writer /\ session < MaxSessions
  /\ session' = session + 1
  /\ writer' = TRUE /\ reader' = TRUE /\ pump' = "scheduled"
  /\ Resync
  /\ UNCHANGED <<gateVars, paused, wire, inbound, panelVars>>

\* End of file or an exception ends the read stream.
ReaderEnds ==
  /\ LoopFree /\ reader
  /\ reader' = FALSE
  /\ UNCHANGED <<writer, session, pump, queueVars, gateVars, paused, wire, inbound, panelVars>>

CancelStreams ==
  /\ reader' = FALSE /\ pump' = "none" /\ inFlight' = 0
  /\ UNCHANGED <<writer, session, queueVars, response, awaiting, paused, wire, inbound, panelVars>>

\* FIRST_COMPLETED: one stream is over, _async_close_transport ends the other.
SupervisorCancels == LoopFree /\ writer /\ (reader # (pump # "none")) /\ CancelStreams

\* ElkConnectionManager.async_stop cancels the connect task and so both.
ManagerCancels == LoopFree /\ reader /\ pump # "none" /\ CancelStreams

\* The rest of _async_close_transport: the writer goes, unread input with it.
CloseTransport ==
  /\ writer /\ ~reader /\ pump = "none"
  /\ writer' = FALSE
  /\ inbound' = <<>>
  /\ missed' = (missed \/ RpPending)
  /\ UNCHANGED <<reader, session, pump, queueVars, gateVars, paused, wire, rpActive, events>>

(***************************************************************************)
(* The panel, and a serial line that may corrupt a frame (the read stream  *)
(* then skips it) or have nobody reading it.                               *)
(***************************************************************************)
Emit(frame) == reader /\ inbound' = Append(inbound, frame)
LoseFrame   == (Lossy \/ ~reader) /\ UNCHANGED inbound

\* The panel takes the next write and answers it, if that is what it does with
\* such a write.
PanelAnswers ==
  /\ wire # <<>>
  /\ wire' = Tail(wire)
  /\ IF Head(wire) = None THEN UNCHANGED inbound
                          ELSE LoseFrame \/ Emit(Head(wire))
  /\ UNCHANGED <<linkVars, pump, queueVars, gateVars, paused, panelVars>>

\* A status broadcast, which is no different from a reply of its type, or
\* the end of installer mode.
PanelBroadcasts(frame) ==
  /\ events < MaxEvents
  /\ events' = events + 1
  /\ Emit(frame)
  /\ UNCHANGED <<linkVars, pump, queueVars, gateVars, paused, wire, rpActive, missed>>

\* An ElkRP session starts or ends.
PanelProgramming ==
  /\ events < MaxEvents
  /\ events' = events + 1
  /\ rpActive' = ~rpActive
  /\ \/ LoseFrame /\ missed' = TRUE
     \/ /\ Emit(IF rpActive THEN "RP_DISCONNECTED" ELSE "RP_CONNECTED")
        /\ missed' = FALSE
  /\ UNCHANGED <<linkVars, pump, queueVars, gateVars, paused, wire>>

-----------------------------------------------------------------------------
WriteStream == PumpResumes \/ PumpFindsNothing \/ PumpWrites \/ ReplyReleases \/ WaitTimesOut
Supervision == SupervisorCancels \/ CloseTransport

Next ==
  \/ \E reply \in Replies \cup {None}, urgent \in BOOLEAN : Send(reply, urgent)
  \/ WriteStream \/ PumpFails
  \/ ReceiveFrame
  \/ OpenTransport \/ ReaderEnds \/ ManagerCancels \/ Supervision
  \/ PanelAnswers
  \/ \E frame \in Replies \cup {"IE"} : PanelBroadcasts(frame)
  \/ PanelProgramming

Spec == Init /\ [][Next]_vars

\* The event loop runs every task that is ready and fires every timer that is
\* due; nothing is assumed of callers, of the panel or of the cable.
Fairness == WF_vars(WriteStream) /\ WF_vars(Supervision) /\ WF_vars(ReceiveFrame)

FairSpec == Spec /\ Fairness

-----------------------------------------------------------------------------
(***************************************************************************)
(* Properties.                                                             *)
(***************************************************************************)
FlagsOK ==
  /\ writer \in BOOLEAN /\ reader \in BOOLEAN
  /\ wake \in BOOLEAN /\ response \in BOOLEAN /\ paused \in BOOLEAN
  /\ rpActive \in BOOLEAN /\ missed \in BOOLEAN

DataOK ==
  /\ pump \in {"none", "scheduled", "running", "idle", "reply"}
  /\ queue \in Seq(QueuedWrite)
  /\ awaiting \in Replies \cup {None}
  /\ wire \in Seq(Replies \cup {None}) /\ inbound \in Seq(Frames)
  /\ session \in Nat /\ accepted \in Nat /\ events \in Nat /\ inFlight \in Nat

\* Every variable keeps its type: only frames a panel can send reach the read
\* stream, and only writes a caller handed over reach the wire.
TypeOK == FlagsOK /\ DataOK

\* The write stream never sleeps on its event while a write is queued, whatever
\* pauses, reconnects and spurious wake-ups came before: every path that fills
\* the queue sets the event, and only the stream clears it.
NoLostWakeup == pump = "idle" /\ queue # <<>> => wake

\* From the RP frame that pauses the connection to the one that resumes it not
\* one write goes out, not even one accepted before the pause or kept across a
\* reconnect: ElkRP has the panel to itself.
SilentWhilePaused == [][Len(wire') > Len(wire) => ~paused]_vars

\* What the connection promises its callers: the queue, of which the urgent
\* writes are the first so many, implements CommandQueue.
Urgents == Cardinality({i \in DOMAIN queue : queue[i].urgent})

Promise == INSTANCE CommandQueue WITH
  NormalEntry <- {entry \in QueuedWrite : ~entry.urgent},
  UrgentEntry <- {entry \in QueuedWrite : entry.urgent},
  urgent <- SubSeq(queue, 1, Urgents),
  normal <- SubSeq(queue, Urgents + 1, Len(queue)),
  held   <- paused

KeepsPromise == Promise!Spec

\* On its first transport the write stream has at most one write that still
\* waits for a reply.  On a later one the flag or awaited command that a
\* cancelled wait left behind can let exactly one more slip through, never two.
OverlapBounded == inFlight <= IF session <= 1 THEN 1 ELSE 2

\* Unless an RP frame was lost, or sent with no transport open, the connection
\* is paused exactly while ElkRP has the panel, once the frames on their way
\* are read.
PauseTracksPanel == ~missed /\ ~RpPending => paused = rpActive

\* However many replies are lost, every queued write leaves the queue unless
\* the transport goes: a reply that never comes costs one timeout.
QueueDrains == (queue # <<>> /\ writer) ~> (queue = <<>> \/ ~writer)

=============================================================================
