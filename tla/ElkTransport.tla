----------------------------- MODULE ElkTransport -----------------------------
(***************************************************************************)
(* The life of one config entry's link to the panel: the connect task that *)
(* opens, supervises and reopens the serial port, the ElkConnectionManager *)
(* that owns that task, the hub's login, and the coordinator that sets the *)
(* entry up, polls it, forces a reconnect of a silent link, and unloads it.*)
(*                                                                         *)
(* All of it shares one asyncio event loop: an action is what one task does *)
(* between two suspensions.  What travels over an open link is the subject *)
(* of ElkConnection; here a link only answers or stays silent.             *)
(***************************************************************************)
EXTENDS Integers, FiniteSets

CONSTANTS
  Tasks,              \* identities of connect tasks; a finished one is reused
  None,               \* no task
  InitialRetryDelay,  \* INITIAL_RETRY_DELAY
  MaxRetryDelay,      \* MAX_RETRY_DELAY
  PollThreshold       \* POLL_TIMEOUT_RECONNECT_THRESHOLD

ASSUME TransportAssumption ==
  /\ None \notin Tasks
  /\ InitialRetryDelay \in Nat \ {0} /\ MaxRetryDelay \in Nat
  /\ InitialRetryDelay <= MaxRetryDelay
  /\ PollThreshold \in Nat \ {0, 1}   \* the first refresh never forces a reconnect

VARIABLES
  task,        \* where each connect task is suspended
  writer,      \* whose transport Connection.writer is
  retryDelay,  \* Connection.retry_delay
  owned,       \* ElkConnectionManager._connect_task
  state,       \* ElkConnectionManager.transport_state
  loggedIn,    \* Elk._logged_in
  entry,       \* how far the config entry's setup or unload has come
  poll,        \* where the coordinator's refresh is suspended
  silent,      \* _consecutive_poll_timeouts
  available,   \* last_update_success: the entities are available
  stop,        \* how far each caller's async_stop has come
  awaited,     \* the task each async_stop waits for
  asked,       \* the "vn" of a resync is queued or on the wire
  paused,      \* Connection._paused
  alive,       \* the panel answers
  \* Bookkeeping that the program does not keep.
  replied,     \* a VN reply came in on the transport that is open
  fresh        \* the hub was not logged in when that transport opened

managerVars == <<owned, state>>
linkVars    == <<writer, asked, replied, fresh>>
hubVars     == <<loggedIn, retryDelay>>
pollVars    == <<silent, available>>
stopVars    == <<stop, awaited>>
panelVars   == <<paused, alive>>
vars == <<task, managerVars, linkVars, hubVars, entry, poll, pollVars, stopVars, panelVars>>

\* Who calls async_stop: the refresh, to force a reconnect, and the entry.
Stoppers == {"poll", "entry"}

\* open:     inside open_probed_serial
\* retry:    asleep after a failed open
\* stream:   supervising the two stream tasks
\* closing:  a stream is over, waiting for the other
\* closed:   the writer is gone, waiting for the port
\* backoff:  asleep after a lost transport
\* stopping, stopped: closing and closed, of a task that was cancelled
TaskStates == {"open", "retry", "stream", "closing", "closed", "backoff",
               "stopping", "stopped", "done"}

\* setup, login: _async_setup waits for the login event; it is set
\* first:        the first refresh is on its way
\* platforms:    the first refresh is in, the platforms are being set up
\* abandoned:    the setup was cancelled or raised where nobody stops the manager
\* failing:      stopping the manager after a setup that failed
EntryStates == {"new", "setup", "login", "first", "platforms", "loaded", "failing", "failed",
                "abandoned", "unloading", "unloaded"}

\* Entities of such an entry have been added, or may have been.
InUse  == entry \in {"platforms", "loaded"}
Polled == InUse \/ entry = "abandoned"

Live(t) == task[t] # "done"

\* Elk.is_connected
Connected == writer # None

\* The next delay after a failure: min(MAX_RETRY_DELAY, retry_delay * 2).
Doubled == IF 2 * retryDelay < MaxRetryDelay THEN 2 * retryDelay ELSE MaxRetryDelay

-----------------------------------------------------------------------------
Init ==
  /\ task = [t \in Tasks |-> "done"] /\ owned = None /\ state = "stopped"
  /\ writer = None /\ asked = FALSE /\ replied = FALSE /\ fresh = TRUE
  /\ loggedIn = FALSE /\ retryDelay = InitialRetryDelay
  /\ entry = "new" /\ poll = "idle" /\ silent = 0 /\ available = TRUE
  /\ stop = [who \in Stoppers |-> "no"] /\ awaited = [who \in Stoppers |-> None]
  /\ paused = FALSE /\ alive = TRUE

(***************************************************************************)
(* _entry_connect                                                          *)
(***************************************************************************)
\* The port is open at a rate the panel answered: the streams are created and
\* "connected" resyncs the hub, unless a pause makes the first send raise.
\* The port is exclusive, so no second transport opens beside the first.
OpenSucceeds(t) ==
  /\ task[t] = "open" /\ alive /\ ~Connected
  /\ task' = [task EXCEPT ![t] = "stream"]
  /\ writer' = t /\ replied' = FALSE /\ fresh' = ~loggedIn
  /\ asked' = ~paused
  /\ state' = "connected"
  /\ UNCHANGED <<owned, hubVars, entry, poll, pollVars, stopVars, panelVars>>

\* The longer delay, and ElkConnectionManager._on_failure
Failure == retryDelay' = Doubled /\ state' = "reconnecting"

\* No port, no reply at any rate, or 30 seconds are over.
OpenFails(t) ==
  /\ task[t] = "open"
  /\ task' = [task EXCEPT ![t] = "retry"]
  /\ Failure
  /\ UNCHANGED <<owned, linkVars, loggedIn, entry, poll, pollVars, stopVars, panelVars>>

WakesUp(t) ==
  /\ task[t] \in {"retry", "backoff"}
  /\ task' = [task EXCEPT ![t] = "open"]
  /\ UNCHANGED <<managerVars, linkVars, hubVars, entry, poll, pollVars, stopVars, panelVars>>

\* A stream task ends, by end of file or by an exception.
StreamEnds(t) ==
  /\ task[t] = "stream"
  /\ task' = [task EXCEPT ![t] = "closing"]
  /\ UNCHANGED <<managerVars, linkVars, hubVars, entry, poll, pollVars, stopVars, panelVars>>

\* _async_close_transport once both streams are over, whether or not an
\* async_stop has taken the writer meanwhile.
CloseWriter(t) ==
  /\ task[t] \in {"closing", "stopping"}
  /\ task' = [task EXCEPT ![t] = IF @ = "closing" THEN "closed" ELSE "stopped"]
  /\ writer' = None /\ asked' = FALSE /\ replied' = FALSE
  /\ UNCHANGED <<managerVars, fresh, hubVars, entry, poll, pollVars, stopVars, panelVars>>

\* What "disconnected" does to the hub and to the coordinator.
Disconnected ==
  /\ loggedIn' = FALSE
  /\ silent' = 0
  /\ available' = FALSE

\* The port is closed after a lost transport.
ReportsLoss(t) ==
  /\ task[t] = "closed"
  /\ task' = [task EXCEPT ![t] = "backoff"]
  /\ Disconnected
  /\ Failure
  /\ UNCHANGED <<owned, linkVars, entry, poll, stopVars, panelVars>>

\* The port is closed after a cancellation: the task ends and reports nothing.
EndsCancelled(t) ==
  /\ task[t] = "stopped"
  /\ task' = [task EXCEPT ![t] = "done"]
  /\ UNCHANGED <<managerVars, linkVars, hubVars, entry, poll, pollVars, stopVars, panelVars>>

(***************************************************************************)
(* ElkConnectionManager                                                    *)
(***************************************************************************)
\* start: a task of its own, unless the one it has still lives.
StartManager ==
  /\ owned = None
  /\ \E t \in Tasks : /\ ~Live(t)
                      /\ owned' = t
                      /\ task' = [task EXCEPT ![t] = "open"]
  /\ state' = "connecting"

\* CancelledError at the await a connect task is in.  Only a supervising task
\* closes its transport on the way out; one that was already closing it leaves
\* the writer to async_stop.
Cancelled(pc) == IF pc = "stream" THEN "stopping" ELSE "done"

\* async_stop, last part: Connection.disconnect on a writer nobody has closed.
\* The caller leaves the count of silent polls at `count`.
LeftOvers(count) ==
  IF Connected
    THEN writer' = None /\ asked' = FALSE /\ replied' = FALSE /\ Disconnected /\ UNCHANGED fresh
    ELSE silent' = count /\ UNCHANGED <<linkVars, loggedIn, available>>

\* Mutant: the manager forgets its task.
StopWithoutCancel(who, count) ==
  /\ state' = "stopped" /\ owned' = None
  /\ stop' = [stop EXCEPT ![who] = "drain"]
  /\ LeftOvers(count)
  /\ UNCHANGED <<awaited, task>>

\* async_stop up to its first suspension: the wait for the connect task it has
\* cancelled or, when there is none, for what disconnect has closed.
StopBegins(who, count) ==
  /\ state' = "stopped" /\ owned' = None
  /\ IF owned # None
       THEN /\ stop' = [stop EXCEPT ![who] = "await"]
            /\ awaited' = [awaited EXCEPT ![who] = owned]
            /\ task' = [task EXCEPT ![owned] = Cancelled(@)]
            /\ silent' = count
            /\ UNCHANGED <<linkVars, loggedIn, available>>
       ELSE /\ stop' = [stop EXCEPT ![who] = "drain"]
            /\ LeftOvers(count)
            /\ UNCHANGED <<awaited, task>>

\* Mutant: the port stays open.
StopLeavesWriter(who) ==
  /\ stop[who] = "await" /\ ~Live(awaited[who]) /\ Connected
  /\ stop' = [stop EXCEPT ![who] = "drain"]
  /\ awaited' = [awaited EXCEPT ![who] = None]
  /\ UNCHANGED <<linkVars, loggedIn, pollVars, task, managerVars, retryDelay, entry, poll, panelVars>>

\* The connect task is over and has left a writer behind.
StopDisconnects(who) ==
  /\ stop[who] = "await" /\ ~Live(awaited[who]) /\ Connected
  /\ stop' = [stop EXCEPT ![who] = "drain"]
  /\ awaited' = [awaited EXCEPT ![who] = None]
  /\ LeftOvers(silent)
  /\ UNCHANGED <<task, managerVars, retryDelay, entry, poll, panelVars>>

\* Mutant: a stop with nothing to drain never returns.
StopHangsOnDrain(who) ==
  /\ stop[who] = "await" /\ ~Live(awaited[who]) /\ ~Connected
  /\ stop' = [stop EXCEPT ![who] = "no"]
  /\ awaited' = [awaited EXCEPT ![who] = None]

\* The step in which async_stop returns to its caller.
StopReturns(who) ==
  /\ \/ stop[who] = "drain"
     \/ stop[who] = "await" /\ ~Live(awaited[who]) /\ ~Connected
  /\ stop' = [stop EXCEPT ![who] = "no"]
  /\ awaited' = [awaited EXCEPT ![who] = None]

(***************************************************************************)
(* The coordinator: setup, refresh, forced reconnect, unload.              *)
(***************************************************************************)
SetUp ==
  /\ entry = "new"
  /\ entry' = "setup"
  /\ StartManager
  /\ UNCHANGED <<linkVars, hubVars, poll, pollVars, stopVars, panelVars>>

\* Elk._login_status and ElkConnectionManager.mark_login
Login == loggedIn' = TRUE /\ retryDelay' = InitialRetryDelay

\* The VN reply to a resync.  Only a hub that is not logged in makes it a login,
\* which setup waits for and which brings the entities back.
ReceiveVersion(t) ==
  /\ task[t] = "stream" /\ alive /\ asked
  /\ asked' = FALSE /\ replied' = TRUE
  /\ IF loggedIn
       THEN UNCHANGED <<hubVars, entry, available>>
       ELSE /\ Login
            /\ entry' = IF entry = "setup" THEN "login" ELSE entry
            /\ available' = TRUE
  /\ UNCHANGED <<task, managerVars, writer, fresh, poll, silent, stopVars, panelVars>>

\* _async_setup returns and the first refresh is next.
LoginSeen ==
  /\ entry = "login"
  /\ entry' = "first"
  /\ UNCHANGED <<task, managerVars, linkVars, hubVars, poll, pollVars, stopVars, panelVars>>

\* CONNECT_TIMEOUT is over, or setup is cancelled.
SetupGivesUp ==
  /\ entry \in {"setup", "login"}
  /\ entry' = "failing"
  /\ StopBegins("entry", silent)
  /\ UNCHANGED <<retryDelay, poll, panelVars>>

\* The platforms are set up, and with them the entry.
PlatformsSetUp ==
  /\ entry = "platforms"
  /\ entry' = "loaded"
  /\ UNCHANGED <<task, managerVars, linkVars, hubVars, poll, pollVars, stopVars, panelVars>>

\* Setup is cancelled behind its wait for the login, in the first refresh or while
\* the platforms are set up, or raises in these: no handler stops the manager, and
\* the connect task lives on.
SetupAbandoned ==
  /\ entry \in {"login", "first", "platforms"}
  /\ entry' = "abandoned"
  /\ poll' = IF entry = "first" THEN "idle" ELSE poll
  /\ UNCHANGED <<task, managerVars, linkVars, hubVars, pollVars, stopVars, panelVars>>

\* UpdateFailed ends a refresh; it ends the setup too when it is the first one.
RefreshFails(count) ==
  /\ poll' = "idle"
  /\ IF entry = "first"
       THEN entry' = "failing" /\ StopBegins("entry", count)
       ELSE /\ available' = FALSE
            /\ silent' = count
            /\ UNCHANGED <<task, managerVars, linkVars, loggedIn, entry, stopVars>>
  /\ UNCHANGED <<retryDelay, panelVars>>

\* A refresh is due.  Without a transport, or while paused, it fails at once.
RefreshStarts ==
  /\ entry = "first" \/ Polled
  /\ poll = "idle"
  /\ IF Connected /\ ~paused
       THEN /\ poll' = "waiting"
            /\ UNCHANGED <<task, managerVars, linkVars, hubVars, entry, pollVars, stopVars, panelVars>>
       ELSE RefreshFails(silent)

\* All five replies are in.
RefreshAnswered ==
  /\ poll = "waiting" /\ alive /\ \E t \in Tasks : task[t] = "stream"
  /\ poll' = "idle" /\ silent' = 0 /\ available' = TRUE
  /\ entry' = IF entry = "first" THEN "platforms" ELSE entry
  /\ UNCHANGED <<task, managerVars, linkVars, hubVars, stopVars, panelVars>>

\* Mutant: a silent poll does not count.
TimeoutUncounted == poll = "waiting" /\ RefreshFails(silent)

\* POLL_RESPONSE_TIMEOUT is over, for want of a panel or of a single reply.  The
\* coordinator of an entry that is being unloaded has no manager any more.
RefreshTimesOut ==
  /\ poll = "waiting"
  /\ IF silent + 1 < PollThreshold
       THEN RefreshFails(silent + 1)
       ELSE IF ~Polled
              THEN RefreshFails(0)
              ELSE /\ poll' = "stopping"
                   /\ StopBegins("poll", 0)
                   /\ UNCHANGED <<retryDelay, entry, panelVars>>

\* Mutant: no start after the stop.
ForceOnlyStops ==
  /\ poll = "stopping"
  /\ StopReturns("poll")
  /\ poll' = "idle" /\ available' = FALSE
  /\ UNCHANGED <<task, managerVars, linkVars, hubVars, entry, silent, panelVars>>

\* _force_reconnect after its async_stop: start, whatever has become of the entry
\* meanwhile, and then the refresh fails like any other that timed out.
ForceRestarts ==
  /\ poll = "stopping"
  /\ StopReturns("poll")
  /\ StartManager
  /\ poll' = "idle" /\ available' = FALSE
  /\ UNCHANGED <<linkVars, hubVars, entry, silent, panelVars>>

\* The platforms are unloaded and the coordinator shut down: no refresh starts
\* from here on, one on its way goes on.
UnloadBegins ==
  /\ entry = "loaded"
  /\ entry' = "unloading"
  /\ StopBegins("entry", silent)
  /\ UNCHANGED <<retryDelay, poll, panelVars>>

EntryStopped ==
  /\ entry \in {"failing", "unloading"}
  /\ StopReturns("entry")
  /\ entry' = IF entry = "failing" THEN "failed" ELSE "unloaded"
  /\ UNCHANGED <<task, managerVars, linkVars, hubVars, poll, pollVars, panelVars>>

(***************************************************************************)
(* The panel.                                                              *)
(***************************************************************************)
\* It stops answering, with the port still open, or answers again.
PanelFallsSilent == alive /\ alive' = FALSE
PanelRecovers    == ~alive /\ alive' = TRUE

PanelChanges ==
  /\ PanelFallsSilent \/ PanelRecovers
  /\ UNCHANGED <<task, managerVars, linkVars, hubVars, entry, poll, pollVars, stopVars, paused>>

\* A status broadcast reaches the callbacks that setup has registered.
Push ==
  /\ alive /\ (entry = "first" \/ Polled) /\ \E t \in Tasks : task[t] = "stream"
  /\ available' = TRUE
  /\ UNCHANGED <<task, managerVars, linkVars, hubVars, entry, poll, silent, stopVars, panelVars>>

\* An RP frame.  Pausing empties the write queue, and the "vn" of a resync with
\* it if it was still there; either way the coordinator pushes a snapshot.
RemoteProgramming ==
  /\ alive /\ \E t \in Tasks : task[t] = "stream"
  /\ paused' = ~paused
  /\ asked' \in IF paused THEN {asked} ELSE {asked, FALSE}
  /\ available' = TRUE
  /\ UNCHANGED <<task, managerVars, writer, replied, fresh, hubVars, entry, poll, silent,
                 stopVars, alive>>

\* An IE frame: the hub resyncs if it can send.
InstallerExits ==
  /\ alive /\ \E t \in Tasks : task[t] = "stream"
  /\ ~paused /\ asked' = TRUE
  /\ UNCHANGED <<task, managerVars, writer, replied, fresh, hubVars, entry, poll, pollVars,
                 stopVars, panelVars>>

-----------------------------------------------------------------------------
Opens(t)   == OpenSucceeds(t) \/ OpenFails(t)
Closes(t)  == CloseWriter(t) \/ ReportsLoss(t) \/ EndsCancelled(t)
Refreshes  == RefreshStarts \/ RefreshAnswered \/ RefreshTimesOut
Setup      == LoginSeen \/ SetupGivesUp \/ PlatformsSetUp
Stops      == EntryStopped \/ \E who \in Stoppers : StopDisconnects(who)

Next ==
  \/ \E t \in Tasks : Opens(t) \/ WakesUp(t) \/ StreamEnds(t) \/ Closes(t) \/ ReceiveVersion(t)
  \/ SetUp \/ Setup \/ SetupAbandoned \/ UnloadBegins
  \/ Refreshes \/ ForceRestarts
  \/ Stops
  \/ PanelChanges \/ Push \/ RemoteProgramming \/ InstallerExits

Spec == Init /\ [][Next]_vars

\* The event loop runs every ready task and fires every timer that is due, and
\* the coordinator schedules a refresh after every refresh.  An attempt to open
\* the port ends one way or the other; that it succeeds, or that a refresh is
\* answered, is only assumed of a panel that gives it chance after chance.
Fairness ==
  /\ \A t \in Tasks : /\ WF_vars(Opens(t)) /\ SF_vars(OpenSucceeds(t))
                      /\ WF_vars(WakesUp(t)) /\ WF_vars(Closes(t))
  /\ WF_vars(Setup) /\ WF_vars(Stops)
  /\ WF_vars(Refreshes) /\ WF_vars(ForceRestarts) /\ SF_vars(RefreshAnswered)

FairSpec == Spec /\ Fairness

-----------------------------------------------------------------------------
(***************************************************************************)
(* Properties.                                                             *)
(***************************************************************************)
\* Every variable keeps its type; above all the delay between two attempts stays
\* between INITIAL_RETRY_DELAY and MAX_RETRY_DELAY, and the silent polls stay
\* below the threshold.
TypeOK ==
  /\ task \in [Tasks -> TaskStates]
  /\ writer \in Tasks \cup {None} /\ owned \in Tasks \cup {None}
  /\ retryDelay \in InitialRetryDelay..MaxRetryDelay
  /\ state \in {"stopped", "connecting", "connected", "reconnecting"}
  /\ entry \in EntryStates /\ poll \in {"idle", "waiting", "stopping"}
  /\ silent \in 0..PollThreshold - 1
  /\ stop \in [Stoppers -> {"no", "await", "drain"}]
  /\ awaited \in [Stoppers -> Tasks \cup {None}]
  /\ loggedIn \in BOOLEAN /\ available \in BOOLEAN /\ asked \in BOOLEAN
  /\ paused \in BOOLEAN /\ alive \in BOOLEAN /\ replied \in BOOLEAN /\ fresh \in BOOLEAN

\* The manager owns exactly one connect task: two never live at a time, and a
\* live one is the manager's own or is awaited by whoever cancelled it, through
\* every overlap of a forced reconnect, a lost transport and an unload.
OneConnectTask ==
  \A t \in Tasks : Live(t) =>
    /\ \A u \in Tasks : Live(u) => u = t
    /\ owned = t \/ \E who \in Stoppers : stop[who] = "await" /\ awaited[who] = t

\* An open port always has a task that will close it: the task that supervises
\* it or, if that was cancelled while closing it, the async_stop that did so.
TransportIsSupervised ==
  Connected =>
    \/ task[writer] \in {"stream", "closing", "stopping"}
    \/ \E who \in Stoppers : stop[who] = "await" /\ awaited[who] = writer

\* A setup that failed for want of a login or of the first refresh, and that Home
\* Assistant will retry, has left no task and no open port behind.  One that was
\* cancelled or raised later ("abandoned") is not retried, and leaves both.
FailedSetupIsClean == entry = "failed" => ~Connected /\ \A t \in Tasks : ~Live(t)

\* transport_state, as the diagnostics show it, agrees with the connect task.
StateIsTruthful ==
  /\ state = "stopped" <=> owned = None
  /\ state = "connected" <=> owned # None /\ task[owned] \in {"stream", "closing", "closed"}

\* The entities of an entry in use are available only over an open transport, but
\* for the moment in which a lost one is closed and reported, or a silent one
\* replaced.
AvailableNeedsTransport ==
  InUse /\ available =>
    Connected \/ poll = "stopping" \/ \E t \in Tasks : task[t] = "closed"

\* Once the panel has answered on a transport, its loss is followed by the
\* shortest delay, provided the hub was not still logged in from a transport
\* that was cancelled when this one opened.
ReplyResetsBackoff == replied /\ fresh => loggedIn /\ retryDelay = InitialRetryDelay

\* Only the login of a hub that was not logged in shortens the delay.
OnlyLoginResetsBackoff == [][retryDelay' < retryDelay => ~loggedIn /\ loggedIn']_vars

\* The 2026-09-07 decision: a transport whose streams live on while the panel
\* answers nothing is given up, unless a pause keeps the refresh from asking.
SilentLinkIsGivenUp ==
  (entry = "loaded" /\ Connected /\ ~alive) ~>
    (entry # "loaded" \/ ~Connected \/ alive \/ paused)

\* A panel that answers again, on a line that holds, gets its entities back.
RecoversAfterOutage ==
  <>[](alive /\ ~paused /\ \A t \in Tasks : task[t] # "closing") =>
    []<>(available \/ entry # "loaded")

\* async_stop waits for cleanup that ends: a failing setup or an unload is never
\* stuck behind the connect task or behind a forced reconnect.
TeardownEnds == entry \in {"failing", "unloading"} ~> entry \in {"failed", "unloaded"}

=============================================================================
