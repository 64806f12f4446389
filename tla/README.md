# A TLA+ model of the Elk-M1 integration and programmer

This directory models `ha_int_elkm1`: a Home Assistant integration that talks to
an ELK-M1 alarm panel over a serial line (`src/custom_components/elkm1`), and the
Elk Programmer app that programs the same panel over the ElkRP protocol
(`src/src/elk_programmer`).  Every definition is translated from the source;
`PROJECT.json` names the lines each one stands for.

## 1. Inventory

### The integration (asyncio, one event loop)

| Part | Source | State | Operations | Talks to |
|---|---|---|---|---|
| Connection | `helpers/elk/connection.py` | write queue, wake event, reply event and awaited command, pause, writer | `send`, `pause`, `resume`, `disconnect`, `_write_stream` | streams, hub, coordinator |
| Transport | `helpers/transport.py` | connect task, stream tasks, retry delay, transport and login state | `_entry_connect`, `_entry_read_stream`, `_async_close_transport`, `start`, `async_stop`, `mark_login`, `mark_disconnected` | Connection, hub, coordinator |
| Baud probe | `helpers/baud_probe.py` | none between calls; the port while it probes | `open_probed_serial`, `probe_baud` | connect task, config flow |
| Config entry | `__init__.py`, `config_flow.py` | the entry's data and options, its setup state, its listener | migrate, set up, reload, unload; the user, options and reconfigure steps | coordinator, baud probe |
| Hub | `helpers/elk/hub.py`, `panel.py`, `notify.py` | `_logged_in`, handler lists | resync, first VN is the login, RP and IE handlers | Connection by `send`; everyone by `notify` |
| Elements | `helpers/elk/elements.py` and one file per kind | attributes, `_configured`, the SD request in progress | `sync`, `_sd_handler`, `setattr` | Connection, entities by callbacks |
| Codec | `helpers/elk/message.py`, `helpers/framing.py` | none | encode, decode, `extract_frames` | both streams |
| Coordinator | `coordinator.py` | manager, hub, silent poll count, snapshot | setup, refresh, forced reconnect, disconnect, confirm and queue commands, arm, bypass | all of the above, the tracker |
| Programming tracker | `programming.py` | claim, unattributed session, RP flag, history, store | `async_claim`, `async_end`, `async_rp_status`, `async_check_claim` | coordinator, services, the app |
| Entities and services | the platform files, `entity.py`, `services.py` | none of their own | views of the snapshot, wrappers of commands | coordinator |

What is hard here: tasks that are cancelled at any suspension point; state that
belongs to the long-lived Connection but was left there by a transport that is
gone; a pause that begins and ends at the panel's will; replies matched by type
only; a link that stays open while nobody answers; setup, forced reconnect and
unload in each other's way.

What makes each part correct:

* Connection: an accepted write leaves the queue in its turn or is dropped by a
  pause; nothing goes out during a pause; the stream never sleeps over a queued
  write; writes wait for each other's replies.
* Transport: one connect task; an open port always has somebody who will close it;
  bounded backoff that only a login resets; stopping ends.
* Hub and coordinator: availability follows the link; a silent link is given up; a
  panel that comes back gets its entities back; a setup that failed and will be retried leaves nothing.
* Elements: every name is asked for until it is known; the mirror is the panel's once
  the traffic of a sync is over; no entity twice or missed.
* Config entry: one exclusive port that nobody leaves open; what runs is what the entry
  says; a changed baud rate is found, remembered, and reloads without end it causes none.
* Codec: what the encoder frames the decoder accepts; chunks do not matter.
* Commands: an undisturbed success is what the panel did; a refusal is never executed,
  and nothing is executed twice.
* Tracker: every session is recorded once; a restart loses nothing announced.

### The programmer app (FastAPI, one event loop and worker threads)

| Part | Source | State | Operations |
|---|---|---|---|
| ElkRP framing | `protocol/framing.py` | decoder state | `encode_frame`, `feed` |
| Session | `protocol/session.py`, `sync.py` | lock, last activity, keepalive task | `send_receive`, `login`, `close`, `receive_all`, `send_record` |
| Panel session | `web/app.py` | the session, the receive task, the idle watch | connect, disconnect, receive, idle stop |
| Integration release | `hass.py` | marker file | `release`, `restore` |
| Audit | `security.py`, `soc_push.py` | hash chain, last acknowledged record | `record`, `push` |
| Records and accounts | `model/`, `storage/` | the open account | encode, decode, import |

The app and the integration share one serial port and one claim: the app
announces a session to the tracker, disables the integration's entries, and
restores them afterwards or after a restart.

The hazards of both programs, each at its line, are the `hazards` of `PROJECT.json`.

## 2. The modules

| Module | Models | Runs | Proofs |
|---|---|---|---|
| `ElkConnection` | the write queue, both streams, ElkRP pause, transports underneath | `connection` | `ElkLineProofs` |
| `CommandQueue` | what `send` promises its callers (abstract); `ElkConnection` implements it: `KeepsPromise` | `connection` | `ElkLineProofs` |
| `ElkTransport` | connect task, manager, login, setup, poll, forced reconnect, unload | `transport` | `ElkTransportProofs` |
| `ElkEntry` | the entry's flows, setup, reload, unload; the search for the baud rate over one port | `entry` | `IntegrationProofs` |
| `ElkFrame` | building frames, cutting and accepting them, over a noisy line | `frame` | `ElkLineProofs` |
| `ElkMessage` | the fields of every command and message, encoder, decoder and panel | `messages` | |
| `ElkElements` | resync, the SD chains, every collection's handlers, snapshot, entities | `elements` | `ElkElementsProofs` |
| `ElkCommands` | confirmed and queued commands, arming, bypass, refusals, timeouts | `commands` | `IntegrationProofs` |
| `ProgrammingTracker` | claims, the panel's own reports, repair issues, the file and restarts | `tracker` | `ProgrammingTrackerProofs` |
| `PanelConnect` | the app's connect, disconnect, idle watch and start; release and restore of the integration | `panel` | `PanelConnectProofs` |
| `RpFraming` | binary frames, their CRC, the receiver byte by byte | `rp_record` | |
| `RpRecord` | table layouts, a record's way from the panel through editor and file and back | `rp_record` | |
| `RpSession` | one ElkRP session: lock, attempts, keepalive, receive, close | `rp_session` | `RpSessionProofs` |
| `AuditForwarding` | the hash-chained audit trail and its push to HA SOC | `audit` | `AuditForwardingProofs` |

`MCElkConnection`, `MCElkEntry`, `MCElkFrame`, `MCElkMessage`, `MCElkElements`, `MCElkCommands`,
`MCRpRecord` and `MCRpSession` instantiate their modules for TLC; the others need no
definitions and have a `.cfg` only.

How they fit together.  `ElkConnection`, `ElkTransport` and `ElkEntry` look at one link from
three sides.  The first keeps what is on the wire and reduces opening and closing a transport
to one action each; the second keeps every task and suspension point of opening, closing,
polling and stopping and reduces the wire to "the panel answers"; the third keeps the port,
the rates and the copies of the entry's data, and lets an entry be set up again and again.
`ElkFrame` and `ElkMessage` are what one message on that wire is made of.  `ElkElements` and
`ElkCommands` use the link as `CommandQueue` promises it: writes leave in their order, one
waits for its reply at a time.  `PanelConnect` and `ProgrammingTracker` are the two ends of
a claim; `RpSession` lives between a login and a close of `PanelConnect`, and `RpRecord` with
`RpFraming` is what one of its requests carries.

A definition named `...` with the comment "Mutant" is a plausible mistake in the definition
that follows it; `PROJECT.json` says which property it breaks.  No specification uses it.

### ElkConnection

The variables are the attributes of `Connection` (`writer`, `queue`, `wake`,
`response`, `awaiting`, `paused`), the two stream tasks (`reader`; `pump` says where
the write stream is suspended), and the line in both directions (`wire`,
`inbound`).  One event loop runs everything but the panel, so a step of another task
is possible only where a task awaits: `pump = "running"` keeps the loop while the
write stream takes several model steps in a row, and the panel alone moves then.

* `Send` is `send` and `_send`; a refused send changes nothing and is no step.
* `PumpResumes`, `PumpFindsNothing`, `PumpWrites`, `PumpFails`, `ReplyReleases` and
  `WaitTimesOut` are `_write_stream` cut at its awaits.  `Event.wait()` on an event
  that is set does not suspend; `PumpWrites` keeps that, and it matters (divergence 1 in section 3).
* `ReceiveFrame` is the body of `_entry_read_stream` for one valid frame:
  correlation, then dispatch, RP and IE included.
* `OpenTransport`, `ReaderEnds`, `SupervisorCancels`, `ManagerCancels` and
  `CloseTransport` are `_entry_connect` and `_async_close_transport` as far as the
  streams see them.  Cancelling the write stream leaves its events alone.
* `Promise` maps the queue to that of `CommandQueue`: an urgent write goes in front of the one list, so
  the urgent writes are always the first `Urgents` of it, the youngest first, and the rest are the others
  in their order.
* `session`, `accepted`, `events`, `inFlight` and `missed` are bookkeeping.
  `accepted` also serves as the identity of a write.

Several frames of one `read()` are dispatched in one go by the code; the model lets
other tasks in between.  That adds behaviours and removes none.  The `break` on a
missing writer (connection.py:89) is not modelled: both streams are cancelled
before the writer is cleared.

### ElkTransport

`task` gives each connect task the place it is suspended at (the states are listed
in the module).  `stop` does the same for each of the two callers of `async_stop`
that can be in it at one time, and `entry` and `poll` for setup, unload and refresh.
`loggedIn`, `retryDelay`, `state`, `owned`, `silent`, `available` and `paused` are
attributes of the code.

* A cancellation is delivered when it is requested: `Cancelled` says what it makes of
  a connect task at each suspension.  A task cancelled while closing a transport
  is simply over, and leaves the writer to `async_stop`.
* `async_stop` is `StopBegins` up to its first await, `StopDisconnects` for a writer
  that was left behind, and `StopReturns` in the step of its caller that goes on.
  A refresh that fails during setup and the `async_disconnect` that follows stop the
  same manager twice; the second call finds nothing and is merged with the first.
  An `async_stop` that is itself cancelled is not modelled.
* A setup goes through `"setup"`, `"login"`, `"first"` (the first refresh) and `"platforms"`
  before it is `"loaded"`.  `SetupGivesUp` and `RefreshFails` are the ends that stop the manager.
  `SetupAbandoned` is the other one: `except Exception` does not catch a cancellation, and nothing
  catches what is raised while the platforms are set up.  The connect task then lives on, the
  coordinator refreshes if it has listeners, and no unload will come (divergence 21 in section 3).
* A login is never rejected on a serial line (the panel asks for no password there),
  so `login_failed_event` is left out.
* The poll threshold is at least 2, as in the code, so the first refresh can fail but
  never forces a reconnect.

### ElkFrame

Here strings are their character codes, because the properties are about single
characters.  `checksum`, `finalize` and `write_msg` build what goes out; `extract_frames`,
`IsValid` and `Dispatch` accept what comes in.  `IsInt` and `IntOf` are Python's
`int(text, 16)` of two characters, which also takes blanks, signs and lower case: what
the check accepts is wider than what the encoder builds.

* `Read` is one turn of `_entry_read_stream` for a read of any size; `Say` puts a report
  on the line and `Corrupt` changes one character of it, terminators included.
* `Write` is one message on its way out, from the encoder's `_finalize` to the bytes.
* `Commands` are the commands with a decoder.  A valid frame of another command is
  dispatched as "unknown", which has no handler, and is taken as not heard.
* The plain texts of a network interface's login are not modelled.
* The read of 500 characters and the limit of 1024 are scaled down to `ReadSize` and
  `MaxFrame`, keeping their order: a frame of a report fits the limit, two do not.
* `Cut` is what one more character does to the frames and the rest: the regular expression of
  `extract_frames` finds CR LF as one terminator, `Cut` as two with an empty frame between them, which is dropped.
  `Dispatch` goes frame by frame, like the loop of the read stream.
* `FrameAssumption`: texts are character codes, and a message has at most 251 characters, so that its two-digit
  length can be written (the longest the program sends, a display text, has 42).  `ReportAssumption`: a report has a
  decoder, contains no terminator, and its frame is no longer than `MaxFrame`; the code's limit of 1024 is four times the
  255 a length field can say.

### ProgrammingTracker

`state` is `ProgrammingState` with sessions numbered by `sessions`; a session keeps whether
it was attributed and seen, and users, purposes and times are left out.  `slot`,
`writing` and `disk` are Home Assistant's `Store`: `async_save` puts the data of now in
the slot, `async_delay_save` the data of whenever the write starts (`Live`), one write
runs at a time, and a read returns what waits in the slot before it asks the file.

* `Calls` is a service call up to its first suspension, `FileRead` the rest of one that
  had to wait for the file, `Serves` what both end in: `Claims` or `Ends`.  The calls that
  wait for the same read resume one after the other before anything else (`Resuming`).
* `ReportsConnected` and `ReportsDisconnected` are `async_rp_status` for RP and IE frames
  of any entry, `ChecksClaim` is `async_check_claim` for a claim that is old.
* `Restarts` keeps the file only.  `HasRoom` is the bound on sessions.

Two calls that wait for the same read load the file twice, the second over what the first
has just done: a claim made in the first second after a restart can be forgotten.
`NothingForgotten` and `SavedAtLast` leave those steps out; everything else is covered.

### PanelConnect

`at` is the await at which a request, or the app's own task, is suspended; `todo` and `done`
are the loops of `release` and `restore` over the entries.  `marker` is the marker file,
empty when there is none (`pending` does not tell the two apart).  `App` is `_lifespan` until
the start is complete and `_idle_watch` afterwards.

* A call to Home Assistant or the panel is answered, refused (the exception the code
  catches) or broken (one it does not: httpx, websockets, an `OSError` of a dead line).  Both
  kinds of failure count as `faults`.
* `Closes` merges the disconnect frame and the closing of the transport: nothing of the app
  depends on what lies between them.
* The state of the integration is reduced to the two things the app changes, the entries that
  are enabled and the claim.  `ProgrammingTracker` is the other side of the claim.
* Only the app changes entries here; a user who does so meanwhile is not modelled.
* `Overlapping` says whether an activity may begin while another is under way.  The app
  does not prevent it.  The properties of `panel` are about one at a time, and do not hold otherwise: divergences 6
  and 7 in section 3 are what an overlap does.  What is proved holds of overlapping activities too.

### ElkEntry

`port` is who has the serial port open, `sweep` the rates each of the two probes has still to
try, `link` and `cached` the connect task, `entry` the entry's data, `running` the copy a setup
was made with, `reloads` the calls of the update listener not yet served.

* `Opens`, `NoAnswer` and `Answers` are `_try_baud`; a port somebody else has fails with
  `OSError` at once, and the sweep goes on to the next rate, as in the code.  The port is
  exclusive (docs/programmer/app.md:119-125).
* A probe that is cancelled, by a stop or by `asyncio.timeout(30)`, does not close its
  writer: `_PROBE_ERRORS` has no `CancelledError`.  The port is `"lost"` until the writer is
  collected (`Collected`, external).
* `Update` is Home Assistant's `async_update_entry`: data that are equal change nothing; the
  listener is there from the end of a setup to the end of an unload.  `ReloadBegins`,
  `Unloads` and `SetupAgain` are `async_reload`, which waits for a setup under way.  That an
  unload of the platforms is refused, and a removal of the entry, are left out.
* `Migrates` is `async_migrate_entry` for a serial entry.  One for a network changes nothing.
* Everything the user may set (PIN, prefix, poll interval) is one number, `edits`.
* `SetupFails` without a fault needs a failed sweep: `CONNECT_TIMEOUT` (30 s) is longer than nine
  rates of 2.5 s each.

### ElkMessage

Three parties: the program's encoders (`al_encode` and the others), the panel, which reads a
command by `Columns` and says its own messages by `Data`, and the program's decoders (`decode`,
`kc_detail`).  The panel is external; its columns are those the decoders and encoders of the code
agree with, element numbers from 1.  The panel's clock is in the host's time zone, `UtcOffset` from UTC; `Date` and
`Minutes` are the calendar of `time.mktime` and `time.gmtime`, without daylight saving.  `Write`, `PanelAnswers`, `PanelReports` and `Read` carry one
message at a time, so the module says nothing about order, which is the subject of others.

### ElkElements

A value is the number of times the panel changed it, and a name is configured or not: enough to
tell a current value from a stale one.  `Areas`, `Zones` and the other collections list, for each
file, what `sync()` requests, what each handler sets, what `_configured_was_set` asks for, and the
panel's broadcast.  `queue` and `line` are writes and messages under way, `Serve` the panel's answer
to one write, `Lose` a lost frame or transport.  `Resync` asks collection by collection (`SyncOf`), in the
order of `Elk.element_list`, and for UA last.  `FollowUps` and `NextName` are the requests a handler adds, `Voltages`
those for analog zones (a zone of definition 34; no other element can be in `Analog`).  `Updated` is what the
attributes are after a message, `Scan` decides on entities, `Notifies` whether the snapshot is built: when
a tracked element changed, and after a trouble status (SS) or a user's code (IC) in any case.  `PollBegins` with
`PollRequests`, `PollEnds` and `PollTimesOut` are the coordinator's refresh, whose handlers come and go with it.

### ElkCommands

`stage`, `call`, `handlers` and `outcome` follow each caller through `async_confirm_command` and
`async_queue_command`: `Shortcut` (an area already armed as asked), `Refused` (no link, or paused),
`Issues` (handler first, then the write), `Confirmed`, `TimesOut`.  `Serve` lets the panel execute the
next write and say what `Says` says, `Read` gives a message to the mirror and to every waiting handler
that `Matches` it.  `Keypad`, `TransportLost`, `TransportBack`, `ElkRP` and `Unload` are the events around
them.  After an unload `_elk` is `None`; a caller that already runs ends with an exception of Python's
own, which the outcome `crash` stands for.  `PARALLEL_UPDATES` keeps commands of one platform apart.

### RpFraming and RpRecord

`RpFraming` is `framing.py`: stuffing, CRC-16/XMODEM, and `Step`, the receiver's state machine for one
byte.  `RpRecord` gives one record of one table (`SPECS`, `WIRE`) every step it can take: `Attempt`
asks for it, `Spoil` and `Swallow` change or drop one byte of the reply, `Feed` decodes it and ends the read with a
reply (`IsReply`), which is refused when it is too short (`IsWhole`), `GiveUp` ends it after the last attempt; `Type`, `Tick` and `Show` are the editor; `Save` and `Open` go through the account
file, which drops the "show on keypad" flags (`from_json`); `Write` sends it back, and what the panel then holds is
compared, field by field and byte by byte, with what the user `meant`.

### RpSession

`lock` is the session's lock with those that wait for it, in order; `job` and `attempt` are the request
of each task and how often it was sent.  `Send`, `Feed`, `TimesOut` and `WriteRaises` are `send_receive`;
a timeout or a wrong reply ends an attempt and the next one begins, all under the lock; what was under way stays on the
line and meets that attempt, or the next request.  `Receive` fills the account it
began with (`report.book`) one item at a time.  The keepalive checks the idle time before it asks for the lock, so that it
may wait behind a request.  `Close` cancels the keepalive, whose place among those that wait goes with it, and asks to
disconnect, through the same lock.  The panel answers each request once (`Answer`), or hangs up; keypads and the web page change records meanwhile.

### AuditForwarding

`Build`, `Write` and `Remember` are the three parts of `AuditLog.record`, which worker threads run
without a lock; `overlapped` has the lines whose recording overlapped another's.  `StartOnLoop` and `Served` are a push of
up to `BATCH_MAX` lines and the answer of HA SOC, which skips what it has, answers a gap with its own head and checks the
chain (external).  `outcome` is how the last push ended.  `CallRefused` is the `HomeAssistantError` that `push` catches, another
status or no JSON; `CallLost` is an exception of httpx, before or after the lines arrived, which it does not: the task dies
and `last_error` stays as it was.  `HadIt` is the end on a batch of which nothing was new.  `Restart` loses the memory and reads
the tail of the file; `SocRestored` is a HA SOC that comes back from a backup.  Hashes are numbers: they are assumed not to collide.

## 3. What is checked

| Run | Bounds | States | Shows |
|---|---|---|---|
| `connection` | 2 reply types and "no reply", 4 writes by callers, 2 transports, 2 frames of the panel's own, losses | 2.4 million | `PauseTracksPanel`, `KeepsPromise`, `QueueDrains` |
| `transport` | 2 connect tasks at a time, delays 1 to 5, threshold 2 | 24 thousand | `OneConnectTask`, `TransportIsSupervised`, `SilentLinkIsGivenUp`, `RecoversAfterOutage`, `TeardownEnds` |
| `entry` | 3 rates, 2 changes of the panel's rate, 2 submissions by the user, 1 fault | 1.3 million | `PortHasAnOwner`, `RunsOnItsData`, `PanelIsFound` |
| `frame` | 2 reports out of 2, 1 of 3 characters anywhere on the line, reads of 1 to 4, frames of at most 9 | 20 thousand | `OneErrorIsDetected`, `ErrorCostsOneMessage`, `RequestIsFramed`, `ChunksAreInvisible` |
| `messages` | every command and message at the ends of its fields | 1.3 thousand | `CommandsAreTaken`, `ReportsAreHeard` |
| `elements` | panel, 2 zones, 1 area, 1 counter, 1 user; 1 change, 1 renaming, 1 poll, 1 fault | 2.3 million | `NamesComplete`, `MirrorIsTrue`, `EntitiesFollow`, `SnapshotLagsOneName` |
| `commands` | 2 callers, 2 calls of every kind, 1 area, 1 zone, 2 registers, 2 events | 2.0 million | `UndisturbedSuccess`, `AtMostOnce` |
| `tracker` | 2 apps, 2 panels, 4 sessions, 3 reports, 1 restart, a history of 2 | 207 thousand | `NeverTwice`, `IssuesAgree`, `NothingForgotten`, `SavedAtLast` |
| `panel` | 2 entries, 2 transports, 2 faults, 1 loss, 2 restarts, one activity at a time | 21 thousand | `HandedOver`, `CrashIsRepaired`, `RestoredAtLast` |
| `rp_record` | every table once, 3 of them with noise, 4 attempts, 1 read, edit and spoilt byte | 86 thousand | `OneErrorIsSurvived`, `WriteIsMeant` |
| `rp_session` | 1 web task, receive, keepalive, close; 2 items, 1 value, 2 accounts, 3 requests, 2 faults | 706 thousand | `RepliesAreOurs`, `ReceiveAccountsForAll`, `ReceiveKeepsToItsAccount`, `EveryRequestEnds` |
| `audit` | 2 threads, batches of 2, 4 records, 2 faults | 328 thousand | `ChainSurvives`, `AcknowledgedIsHeld`, `NoRecordForgotten`, `ComesToRest` |

Why the bounds are enough.

* `connection`: two reply types tell a matching frame from any other.  Each resync takes two of
  the model's writes as well, one with a reply and one without.  Two transports are a first one
  and one that inherits its leftovers; nothing the code keeps distinguishes a third.  Two frames
  of the panel's own are a whole ElkRP session, or half of one and a stray broadcast.
* `transport`: two task identities suffice because a finished task's identity is reused and
  `OneConnectTask` shows a third is never needed.  The delays 1, 2, 4, 5 pass through every case
  of the doubling, the cap included.
* `entry`: three rates are the one that is remembered, one before and one after it in the sweep.  Two
  changes of rate are one that a setup meets and one that a reload meets; two submissions are a
  change and one that comes while its reload is under way.  One fault is enough to lose a port,
  a line or a setup at every other step.
* `frame`: two reports are what one corrupted terminator can join and what one character turned
  into a terminator can cut; the read sizes end in every place of both.
* `messages`: every field is tried at 0, at its largest value and where its number of digits changes; a
  wrong column or base shows at one of these.
* `elements`: the collections left out have the same sync, chain and handlers as one that is in.
  A second zone makes chains of two names; one change, poll, renaming and fault at any step
  overlap each other and two resyncs.
* `commands`: two calls are a command and another that its confirmation could be taken for; the
  callers are symmetric.  Two events are a loss and a return, a pause and a resume, or a change
  at a keypad and the change back.
* `tracker`: a history of two overflows with the third session, and a restart has sessions to
  forget and to add; two apps replace each other's claims and two panels share the flag.
* `panel`: two entries are one that has been disabled when another fails; two faults are a release
  that fails and an undo that fails; the second restart meets what the first has left.
* `rp_record`: every layout is walked; noise depends on the bytes and not on the table, so three
  tables have it.  Four attempts are the code's own limit.
* `rp_session`: each of the other tasks is unique in the code; a web request and these are everyone
  who can wait for the lock.  Three requests put two behind a third.  Two faults are a late
  reply and a second attempt that is late too, or a hang-up after it.
* `audit`: batches of two with four lines need two calls; two threads race, and two more lines show that the
  chain closes behind a fork; two faults are a lost reply and a restart after it.

Only `transport` checks for deadlock: it never stops.  The bounds on calls, events and faults let
all the others stop (`CHECK_DEADLOCK FALSE`); that something must go on there is said by their
liveness properties.

Properties worth reading first: `KeepsPromise` (a refinement), `RecoversAfterOutage`, `PanelIsFound`,
`MirrorIsTrue`, `AtMostOnce`, `NothingForgotten`, `HandedOver`, `RepliesAreOurs`, `WriteIsMeant`,
`NoRecordForgotten`.

### Fairness

The event loop runs every task that is ready and fires every timer that is due, hence weak
fairness of the streams, of closing, waking up, setup's and the poll's timeouts, and of
`async_stop`.  An attempt to open the port always ends (the code wraps it in 30 seconds).  Strong
fairness is assumed of two outcomes the panel decides, an open that succeeds and a refresh that is
answered: a panel that is given chance after chance is lucky at last.  In `ElkEntry` each probe,
sleep, setup, reload and collection goes on, weakly, and failures without a cause are bounded by `MaxFaults`.  The `Store`'s
timer fires, and its reads and writes end.  Every call of the app comes back with some outcome: all
have timeouts but the answers of Home Assistant's socket, which is taken to answer or close.  In
`RpSession` the panel answers what it got (a late answer is a fault), a task that has the lock sends,
and every attempt ends by a reply, a timeout or an exception.  In `AuditForwarding` scheduled calls
run, a call to HA SOC is answered unless it is one of the faults, and a thread that records finishes.  Callers, users, cable, keypads and
ElkRP owe nothing.

### Known divergences

The models also contain these disagreements of code and documents; the properties above are stated so that they hold
beside them, and no run is spent on them.

1. A reply event set for a wait that was cancelled is inherited by the next transport and lets one write
   through ungated (connection.py:83; climate.py:22, docs/decisions.md:119).  `OverlapBounded`, proved: never more than one.
2. An ElkRP session that ends while no transport is open leaves the connection paused until another RP frame (connection.py:129).
3. A forced reconnect restarts the manager after an unload that overtook it (coordinator.py:641; test_transport.py:229).
4. An encoder's message already ends in its checksum and the write stream appends another (connection.py:71; message.py:3);
   `RequestIsFramed` says the counted part is a valid message nevertheless.
5. The tracker's file is read by the two services only: after a restart the first RP frame saves an empty
   state over the stored claim and history (programming.py:266; programming.py:129).
6. A second release overwrites the marker of the first (hass.py:151; hass.py:7, docs/programmer/app.md:138).
7. Two connects pass the check of `state.session` together (app.py:683; app.py:3).
8. A name changed in the panel is not asked again when an overlapping chain has marked the element configured
   (docs/protocol_coverage.md:39).
9. A zone that becomes analog after its entity was decided keeps the binary one (binary_sensor.py:60).
10. A record that was never received can be written over with a blank one (app.py:784-813; docs/programmer/app.md:33).
11. Two threads that record at once fork the audit chain, and `verify` fails from there on (security.py:153-166; soc_push.py:3).
    `ChainSurvives` says where alone the chain can break.
12. The account file drops the "show on keypad" flags (account.py:116-123; operations.md:15).
13. The age of a claim is checked by the refresh before it knows that it is connected (coordinator.py:580-585; programming.py:273).
14. A disconnect over a dead connection leaves the session and the disabled entries as they are (app.py:169; docs/programmer/app.md:134).
15. What the user sets while an entry is being set up waits for the next reload: the listener is added last
    (`__init__.py:188`; `__init__.py:197` says "Reload the config entry when its options change.").
16. `Reconfigure` of an entry whose link is up finds the port taken by that link at every rate, and a port other than the
    entry's is refused (config_flow.py:170-181; README.md:105).
17. The read stream tries the supplemental keypad decoder on every line, and long replies of other commands (VN, AS, CS, LW,
    PS, LD) pass its test of length and digits; they overwrite the status of a keypad (transport.py:72; docs/design.md:106).
    `Read` of `ElkMessage` does it.
18. A probe that finds no panel raises `BaudProbeError`, none of the errors the config flow expects; the form says "unknown"
    where the test of a port without a panel expects "cannot_connect", with an error that the probe never raises
    (config_flow.py:103-105; tests/test_config_flow.py:80-99).  `FlowFails` of `ElkEntry` does it.
19. A call to HA SOC that is lost raises an exception of httpx, which `push` does not catch: the push ends without an error being
    kept, and its lines wait for the next record (soc_push.py:134; hass.py:77-83).  `test_transport_error_is_reported_not_raised`
    tries it with an answer, a 503 (tests_programmer/test_soc_push.py:122).  `CallLost` of `AuditForwarding` does it.
20. A push whose batch HA SOC had already ends there, with later lines pending and no error (soc_push.py:156); its docstring says
    "until HA SOC is caught up or refuses" (soc_push.py:119).  `HadIt` does it.
21. A setup that is cancelled in its first refresh, or raises behind it, stops neither the connect task nor the link, which keeps the
    port that the next setup needs (`__init__.py:151`, 165-193).  `SetupAbandoned` of `ElkTransport` does it.

## 4. What is proved

`ElkLineProofs` proves six properties of `ElkConnection` and three of `ElkFrame`.  Of `ElkConnection`, for every value of
the constants allowed by `ConnectionAssumption` (any set of reply types, any
resync, any number of writes, transports and events):

* `TypeCorrect`: `TypeOK`.  `FlagsOK` and `DataOK` are inductive, the second with the
  first; the queue and resync lemmas (`EnqueueType`, `ResyncType`) carry it.
* `PauseIsSilent`: `SilentWhilePaused`.  The action property needs `PausedIsEmpty`
  (a paused connection has an empty queue), which is inductive because a pause empties
  the queue and every send is refused while it lasts, across reconnects too.
* `WakeupNeverLost`: `NoLostWakeup` is inductive with the type invariant.
* `OverlapIsBounded`: `OverlapBounded` needs `GateInv`, which ties the number of
  unanswered writes to where the stream is and to what was left behind before it.
* `PauseTracks`: `PauseTracksPanel` needs `LatestIsTrue`, which says that the last RP
  frame on its way, or the pause when there is none, agrees with the panel.
* `PromiseKept`: the refinement `KeepsPromise`, every step of the detailed specification one of `CommandQueue` or a
  stutter.  It needs `UrgentFirst` (some number of urgent writes comes first in the queue, and only those are
  urgent), which a resync keeps because it adds at the end and `_send` because it adds an urgent write in front.
  `MappingIs` identifies that number with the mapping's `Urgents`; one lemma each shows that a write at the end is
  `Accept`, one in front is `AcceptUrgent`, and one taken from the front is `Take`.  `PausedIsEmpty` gives `Hold`.

Of `ElkFrame`, for every set of reports and requests that `FrameAssumption` and `ReportAssumption` allow, any noise and
any size of a read.  The loops of the code are recursive functions; the library's induction cannot be used on them, so
`InductionUpTo` and `InductionAlong` state it over a set instead of a predicate, from the well-foundedness of the
naturals (`LeastNatural`).  `LoopRuns` and `LoopsAgree` give such a function its value and make it the only one,
`ExtractAppend` and `DispatchAppend` what one more character or frame does, and the rest follows along a text:

* `RequestsAreFramed`: `RequestIsFramed`.  `FinalizedIsValid` shows that a message between its length and its checksum is
  valid and carries what was put in (`DigitsAreRead`, `ChecksumCompletes`, the sum over two texts); `WrittenInv` says that
  such a message is at the front of whatever is written.
* `ChunksNeverMatter`: `ChunksAreInvisible`.  `ExtractMore` cuts a text in one piece or in two, `DispatchMore` likewise;
  what is too long to be kept is dispatched by no read, and `LongStaysLong` says that it is the case the property excludes.
* `ErrorsCostOneMessageEach`: `ErrorCostsOneMessage`.  Counting frames is no invariant: noise can cut one in two, join two, or
  make one from nothing.  `CostInv` instead says that there is a set of `Unit`s, frames that are dispatched, with a terminator
  behind them and another, or the start of the text, in front, `Apart` from each other, with as many of them, messages heard and errors so far as messages said,
  and one more when the text ends in a character that no terminator follows (`Stray`), since the next frame will be joined to it.
  A report adds a unit (`SayOwes`), a corrupted character is in one unit at most (`CorruptOwes`), and a read hears the
  units that end in what it reads, without losing the others when it drops a rest that is too long (`ReadOwes`, from
  `LeftOver`: what is dropped is longer than any unit).  When everything is read each unit has been heard (`OwedIsHeard`).
* `OneChangeIsCaught`: the arithmetic of `OneErrorIsDetected`.  Two frames that differ in one character and are both valid
  carry the same message: either the sums differ, or the change is within the checksum's own digits.

`ElkTransportProofs` proves the safety properties of `ElkTransport` for every set of
tasks, delays, and threshold that `TransportAssumption` allows:

* `TypeCorrect` and `AlwaysOneTask`: `TypeOK` and `OneConnectTask`, from the state invariant
  that joins `Ownership` (a task that lives is the manager's, or one an `async_stop` has
  cancelled and awaits) with `Phases` (which of setup, unload, poll and forced reconnect can
  be under way together).  Neither is inductive without the other: whether a new task may be
  created depends on who is stopping the manager, and who that is on the phase of the entry.
* `AlwaysSupervised`: `TransportIsSupervised`, strengthened by `Writers` (a task that
  supervises or is closing a transport has the open one).  `StateTruthful`:
  `StateIsTruthful` needs `Ownership` and `Phases` only.
* `SetupFailsClean`: `FailedSetupIsClean`, from `Drained`.  It is about the setups that stop the manager, those that
  Home Assistant will try again; one that was abandoned is another state (divergence 21).
* `ReplyResets`, `OnlyLoginResets`: `ReplyResetsBackoff` and `OnlyLoginResetsBackoff`, the
  first from `LinkInv`, which follows a transport from its opening to its first reply.
* `AvailableIsHonest`: `AvailableNeedsTransport`, which needs all of the above but `LinkInv`.

`PanelConnectProofs` proves two results about `PanelConnect` for any entries, requests, transports and bounds on failures,
losses and restarts that `PanelConnectAssumption` allows, and for activities that overlap in any way:

* `TypeCorrect`: `TypeOK`, from `FlagsOK`, `NumbersOK`, `DataOK` and, for a loop's entries and
  the start, `BootOK` (nobody else is at work while the app is down or starts).
* `StartsRepair`: `StartRepairs`: whatever came before, a start takes no entry out of the marker that is not enabled,
  though its calls fail or the app dies in it again.  `StartInv` says of each entry in the marker that it is enabled, left
  to do or tried and kept; `BootOK` is why nobody comes in between (`BootStep`).

`HandedOver` and `CrashIsRepaired` need that activities do not overlap, which the code does not ensure; they are
model-checked under that condition and not stated as theorems.

`ProgrammingTrackerProofs` proves three results about `ProgrammingTracker` for any apps, panels, history limit, and
bounds on sessions, reports and restarts:

* `NeverTwiceAlways`: `NeverTwice`.  Not inductive alone: a load may meet in the file what memory has meanwhile. `SessionInv`
  says it of the file, of what waits in the slot and of what is being written too, and that nothing stored holds the
  session that nobody has claimed.
* `IssuesAlwaysAgree`: `IssuesAgree`, from `IssuesInv`.
* `NothingIsForgotten`: the action property `NothingForgotten`.  `LimitInv` (histories are within the limit, so only the
  oldest goes) is used with the lemmas on `Appended` and `Closed`, and each action is shown to keep or move every session.

`AuditForwardingProofs` proves four about `AuditForwarding`, for any threads, batch size and bounds:

* `ChainAlwaysSurvives`: `ChainSurvives`, for threads that record at once as well, from `ForkInv`.  Where the last line was
  recorded alone (`TailLone`) what a thread builds, writes and remembers goes behind it (`BuiltOnTail`, `WrittenIsTail`,
  `RemembersTail`) unless it overlaps; and everywhere it commits to a line of the file (`BuiltOnLine`, `WrittenIsLine`).
* `SocHoldsPrefix`: what HA SOC holds are the first lines of the file.
* `AcknowledgedIsAlwaysHeld`: `AcknowledgedIsHeld`, from `HeldInv`, which adds the bounds of the call under way.
* `RecordsAreNeverForgotten`: `NoRecordForgotten`, from `RestInv`: an idle forwarder without an error and without a wake-up
  to come has acknowledged every line but those whose threads have yet to wake it, unless its last push ended silently: died
  of a lost call, or met a batch that HA SOC had.

`IntegrationProofs` proves three results about `ElkCommands`, for any callers, commands and elements that `CommandsAssumption`
allows and any number of calls and events; the bounds do not matter to the proofs.

* `TypeCorrect`: `TypeInv`, which knows of a command by its kind what the entities give it (`CommandIs`), and that the
  panel says nothing but `Messages` (`SaysType`).
* `ExecutedAtMostOnce`: `AtMostOnce`, from `Once`: the numbers of the calls in the queue are distinct and were given out; an
  executed call is there no longer, and a refused one never was.  `OnceBegun` needs that a number is new when a call begins,
  `OnceServed` that what leaves the queue is in it only once.
* `SuccessIsTrue`: `UndisturbedSuccess`, from `Undisturbed`.  The property speaks of the end of a call; the invariant follows the
  call from its beginning: while its write is in the queue, the write is alone there, the line is empty and the panel is as
  the call found it (`Untouched`), so that a toggling bypass does what its caller expects (`MeetsDone`); then every message
  under way that would confirm it is true of the panel, the value a refusing panel reports among them (`RefusalIsTrue`).

Its second part proves four about `ElkEntry`, which shares no name with `ElkCommands` so that one module can extend both,
for any sweep of rates and any bounds, from one invariant `EntryInv`:

* `PortAlwaysHasAnOwner`: needs `Owners`, that a link lives exactly as long as the setup it belongs to, and that a probe
  without rates left has closed its port.
* `BaudIsAlwaysRemembered`: rests on the same, since only the exclusive port keeps a flow from changing the rate
  under an open link.
* `AlwaysRunsOnItsData` and `EditsAlwaysSurvive`: need `Copies`, that a setup runs on the user's last settings until
  they change, and that there are no settings before there is an entry.

`RpSessionProofs` proves five about `RpSession`, for any web tasks, accounts, values, tables of any size, and bounds
on requests and faults that `SessionAssumption` allows, from one invariant `Inv`:

* `SessionTypes`: `TaskType`, `PanelType` and `BookType`.  What a receive asks for is an item of the table, which
  needs the report to be of its type, and that the lock, as well.
* `LockIsHeldByOne`: `LockInv`, the discipline of `async with self._lock` through every exception, timeout and the
  cancellation of the keepalive.
* `ReportIsComplete`: `ReceiveAccountsForAll`, from `ReportInv`: a receive runs exactly as long as its report does, and
  the items the report tells of are those before the one asked for.
* `RepliesMatchRequests`: `RepliesAreOurs`, from `LineInv`: while no attempt was given up with its reply under way,
  request and reply together are at most one and belong to the attempt of the first in the lock; only a hang-up can
  come behind it.
* `ReceivesKeepToTheirAccount`: the action property `ReceiveKeepsToItsAccount`, case by case over the actions.

`ElkElementsProofs` proves every property that `elements` checks, for any collections and sizes, names, analog zones and
bounds that `ElementAssumption` allows.  The table of collections enters by a few lemmas about what the eleven files
declare (`AllDeclare`, `AllAskOfAll`, `OnlyZonesOwn`, `AllAskNames`).

* `ChainsNameEveryElement`: `NamesComplete`.  It becomes inductive when every SD request, in the queue or answered, starts
  behind configured elements only (`Behind`, in the types `Requests` and `Replies` of `ChainInv`): the reply without a
  name then means that all named elements are configured.  `NextNamedIs` is the panel's search for the next name.
* `EntitiesFollowNames`: `EntitiesFollow`, from `EntInv`.
* `SnapshotFollowsElements`: `SnapshotLagsOneName`, from `SnapInv`: an element that is not configured shows no name, so the
  message that configures it changes its name and pushes a snapshot, which lacks that one element only.
* `MirrorsThePanel`: `MirrorIsTrue`, the safety side of "the mirror catches up".  `FreshInv` says of each attribute that is
  asked for, unless something was lost since the last resync, that it is `Known` (equal, or the panel's value is on the
  line) or `Coming`: asked, or due to something on its way, which is an IE, an AS that shows a new alarm, a bypass of all zones, a
  ZD, or a chain of names that has yet to pass the element.  Each needs help.  `GrowInv` (values only grow from the mirror along the line to the panel)
  shows that an older message cannot undo a newer value and that a new alarm is noticed when it is read.  `TurnInv` (one
  reply at a time, and the next request of a chain goes first) keeps two chains of a
  collection from passing each other; with it `PassedInv` says that whatever a chain has passed has
  been asked for, so that the end of a chain leaves nothing out.

Theorems that state a property no run checks speak of types (`TypeOK`) or of what follows the structure of the code closely
(`SilentWhilePaused`, `OverlapBounded`, `StateIsTruthful`, `FailedSetupIsClean`, `OnlyLoginResetsBackoff`,
`AvailableNeedsTransport`, `StartRepairs`, `Prefix`, the session's types and `LockInv`), or are shown along with a stronger one (`NoLostWakeup`, `ReplyResetsBackoff`,
`BaudIsRemembered`, `EditsSurvive`): the proof shows them for every instance.

Only model-checked: every liveness property, `EveryRequestEnds` and `QueueDrains` among them, since liveness under fairness
and `ENABLED` are out of the prover's reach; and `OneErrorIsDetected`, `ElkMessage` and `RpRecord`.  `OneErrorIsDetected` is a
property of the reports of the run, not of every set of reports: where the end of a report happens to be a valid frame
itself, a terminator in front of it makes it heard.  `OneChangeIsCaught` is the part that holds for all.
`ElkMessage` is a table of formats, one case per command and message, and the run goes through all of them.
`RpFraming`, and `RpRecord` over it, compute a CRC with recursive operators and bit operations, which the prover does not take.
The library's induction theorems take an operator as a parameter, which the provers cannot instantiate; where a least
element is needed (`LeastNatural`, `LeastOf` for `NextNamedIs`) it comes from the well-foundedness of the natural numbers.

## 5. What is not modelled

* The importers of the manufacturer's databases and the key files (`storage/`): file formats without behaviour.
* Access control of the app: password, web sessions and lockout decide within one request; their only lasting effect
  is an audit line.  The pages and endpoints that touch no panel.
* The texts of the event log and of the vocabulary, names, units and icons of entities, diagnostics, device actions, the
  panel verification and the Alarmo configuration: functions of the snapshot, or advice, without state of their own.
* The plain-text login of a network interface: the integration is serial only.
* Which persistent path a serial port is known by, the refusal of platforms to unload, and the removal of an entry.
* The scripts that drive a live panel by hand.
* Time: every timer is a step that may come when it is due.  That one interval is longer than another matters in one place, the
  setup's 30 seconds against a sweep of the rates, and is said there.
