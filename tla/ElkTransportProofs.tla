-------------------------- MODULE ElkTransportProofs --------------------------
(***************************************************************************)
(* What holds of ElkTransport for every set of task identities, every pair *)
(* of delays and every poll threshold.  Ownership says who answers for     *)
(* each connect task and Phases what setup, refresh and unload can be doing *)
(* at the same time; they are inductive together, and the properties follow *)
(* from them one after the other.                                          *)
(***************************************************************************)
EXTENDS ElkTransport, TLAPS

USE TransportAssumption

FlagsOK ==
  /\ loggedIn \in BOOLEAN /\ available \in BOOLEAN /\ asked \in BOOLEAN
  /\ paused \in BOOLEAN /\ alive \in BOOLEAN /\ replied \in BOOLEAN /\ fresh \in BOOLEAN

DelayOK ==
  /\ retryDelay \in InitialRetryDelay..MaxRetryDelay
  /\ silent \in 0..PollThreshold - 1

ControlOK ==
  /\ task \in [Tasks -> TaskStates]
  /\ writer \in Tasks \cup {None} /\ owned \in Tasks \cup {None}
  /\ state \in {"stopped", "connecting", "connected", "reconnecting"}
  /\ entry \in EntryStates /\ poll \in {"idle", "waiting", "stopping"}
  /\ stop \in [Stoppers -> {"no", "await", "drain"}]
  /\ awaited \in [Stoppers -> Tasks \cup {None}]

\* The manager's task runs; any other that lives is on its way out and awaited by
\* the one async_stop that can be waiting, during which the manager has no task.
Ownership ==
  /\ owned # None => task[owned] \in {"open", "retry", "stream", "closing", "closed", "backoff"}
  /\ \A t \in Tasks : Live(t) /\ t # owned =>
       /\ task[t] \in {"stopping", "stopped"}
       /\ \E who \in Stoppers : stop[who] = "await" /\ awaited[who] = t
  /\ \A who \in Stoppers : stop[who] = "await" =>
       /\ owned = None
       /\ \A other \in Stoppers : stop[other] = "await" => other = who

\* Which of setup, refresh, forced reconnect and unload can overlap.
Phases ==
  /\ stop["poll"] # "no" <=> poll = "stopping"
  /\ stop["entry"] # "no" <=> entry \in {"failing", "unloading"}
  /\ entry \in {"new", "setup", "login", "failing", "failed"} => poll = "idle"
  /\ entry = "first" => poll # "stopping"
  /\ poll = "stopping" => owned = None /\ stop["entry"] # "await"
  /\ entry \in {"failing", "failed"} => owned = None

\* A task that supervises or is closing a transport has the open one.
Writers ==
  /\ TransportIsSupervised
  /\ \A t \in Tasks : task[t] \in {"stream", "closing"} => writer = t

\* A failing setup that waits for no task any more has nothing left.
Drained ==
  /\ entry = "failing" /\ stop["entry"] = "drain" => ~Connected /\ \A t \in Tasks : ~Live(t)
  /\ FailedSetupIsClean

\* A hub that logged in on the open transport did so by a reply on it.
LinkInv ==
  /\ replied => Connected
  /\ Connected /\ fresh /\ loggedIn => replied
  /\ ReplyResetsBackoff

-----------------------------------------------------------------------------
(***************************************************************************)
(* Types: flags, numbers and control apart.                                *)
(***************************************************************************)
LEMMA FlagsInvariant == FlagsOK /\ [Next]_vars => FlagsOK'
<1> SUFFICES ASSUME FlagsOK, [Next]_vars PROVE FlagsOK'
  OBVIOUS
<1> USE DEF FlagsOK, linkVars, hubVars, pollVars, panelVars, Disconnected, LeftOvers
<1>1. ASSUME NEW who \in Stoppers, NEW count, StopBegins(who, count)
      PROVE  /\ loggedIn' \in BOOLEAN /\ available' \in BOOLEAN /\ asked' \in BOOLEAN
             /\ replied' \in BOOLEAN /\ fresh' \in BOOLEAN
  BY <1>1, Zenon DEF StopBegins
<1>2. ASSUME NEW count, RefreshFails(count) PROVE FlagsOK'
  BY <1>1, <1>2, Zenon DEF RefreshFails, Stoppers
<1>3. ASSUME NEW t \in Tasks, OpenSucceeds(t) PROVE FlagsOK'
  BY <1>3, Zenon DEF OpenSucceeds
<1>4. ASSUME NEW t \in Tasks, OpenFails(t) \/ WakesUp(t) \/ StreamEnds(t) PROVE FlagsOK'
  BY <1>4, Zenon DEF OpenFails, WakesUp, StreamEnds
<1>5. ASSUME NEW t \in Tasks, Closes(t) PROVE FlagsOK'
  BY <1>5, Zenon DEF Closes, CloseWriter, ReportsLoss, EndsCancelled
<1>6. ASSUME NEW t \in Tasks, ReceiveVersion(t) PROVE FlagsOK'
  BY <1>6, Zenon DEF ReceiveVersion, Login
<1>7. CASE SetUp \/ LoginSeen \/ PlatformsSetUp \/ SetupAbandoned
  BY <1>7, Zenon DEF SetUp, LoginSeen, PlatformsSetUp, SetupAbandoned
<1>8. CASE SetupGivesUp \/ UnloadBegins
  BY <1>1, <1>8, Zenon DEF SetupGivesUp, UnloadBegins, Stoppers
<1>9. CASE Refreshes
  BY <1>1, <1>2, <1>9, Zenon DEF Refreshes, RefreshStarts, RefreshAnswered, RefreshTimesOut, Stoppers
<1>10. CASE ForceRestarts \/ EntryStopped
  BY <1>10, Zenon DEF ForceRestarts, EntryStopped
<1>11. ASSUME NEW who \in Stoppers, StopDisconnects(who) PROVE FlagsOK'
  BY <1>11, Zenon DEF StopDisconnects
<1>12. CASE PanelChanges \/ Push \/ RemoteProgramming \/ InstallerExits
  BY <1>12, Zenon DEF PanelChanges, PanelFallsSilent, PanelRecovers, Push,
     RemoteProgramming, InstallerExits
<1>13. CASE UNCHANGED vars
  BY <1>13, Zenon DEF vars
<1> QED
  BY <1>3, <1>4, <1>5, <1>6, <1>7, <1>8, <1>9, <1>10, <1>11, <1>12, <1>13, Zenon
  DEF Next, Opens, Setup, Stops

\* The doubled delay is a delay, and not below the one it follows.
LEMMA DoubledBounds ==
  ASSUME DelayOK
  PROVE  Doubled \in InitialRetryDelay..MaxRetryDelay /\ Doubled >= retryDelay
  BY DEF DelayOK, Doubled, TransportAssumption

LEMMA DelayInvariant == DelayOK /\ [Next]_vars => DelayOK'
<1> SUFFICES ASSUME DelayOK, [Next]_vars PROVE DelayOK'
  OBVIOUS
<1> USE DEF DelayOK, TransportAssumption, linkVars, hubVars, pollVars, panelVars,
    Disconnected, LeftOvers
<1>1. ASSUME NEW who \in Stoppers, NEW count \in 0..PollThreshold - 1, StopBegins(who, count)
      PROVE  silent' \in 0..PollThreshold - 1
  BY <1>1 DEF StopBegins
<1>2. ASSUME NEW count \in 0..PollThreshold - 1, RefreshFails(count) PROVE DelayOK'
  BY <1>1, <1>2 DEF RefreshFails, Stoppers
<1>3. ASSUME NEW t \in Tasks, Opens(t) \/ WakesUp(t) \/ StreamEnds(t) \/ Closes(t)
      PROVE  DelayOK'
  BY <1>3, DoubledBounds DEF Opens, OpenSucceeds, OpenFails, WakesUp, StreamEnds, Closes,
     CloseWriter, ReportsLoss, EndsCancelled, Failure
<1>4. ASSUME NEW t \in Tasks, ReceiveVersion(t) PROVE DelayOK'
  BY <1>4 DEF ReceiveVersion, Login
<1>5. CASE SetUp \/ LoginSeen \/ PlatformsSetUp \/ SetupAbandoned
  BY <1>5 DEF SetUp, LoginSeen, PlatformsSetUp, SetupAbandoned
<1>6. CASE SetupGivesUp \/ UnloadBegins
  BY <1>1, <1>6 DEF SetupGivesUp, UnloadBegins, Stoppers
<1>7. CASE RefreshStarts \/ RefreshAnswered
  BY <1>2, <1>7 DEF RefreshStarts, RefreshAnswered
<1>8. CASE RefreshTimesOut
  BY <1>1, <1>2, <1>8 DEF RefreshTimesOut, Stoppers
<1>9. CASE ForceRestarts \/ EntryStopped
  BY <1>9 DEF ForceRestarts, EntryStopped
<1>10. ASSUME NEW who \in Stoppers, StopDisconnects(who) PROVE DelayOK'
  BY <1>10 DEF StopDisconnects
<1>11. CASE PanelChanges \/ Push \/ RemoteProgramming \/ InstallerExits
  BY <1>11 DEF PanelChanges, Push, RemoteProgramming, InstallerExits
<1>12. CASE UNCHANGED vars
  BY <1>12 DEF vars
<1> QED
  BY <1>3, <1>4, <1>5, <1>6, <1>7, <1>8, <1>9, <1>10, <1>11, <1>12, Zenon
  DEF Next, Setup, Refreshes, Stops

LEMMA ControlInvariant == ControlOK /\ [Next]_vars => ControlOK'
<1> SUFFICES ASSUME ControlOK, [Next]_vars PROVE ControlOK'
  OBVIOUS
<1> USE DEF ControlOK, TaskStates, EntryStates, Stoppers, managerVars, linkVars, stopVars
<1>1. ASSUME NEW who \in Stoppers, NEW count, StopBegins(who, count)
      PROVE  /\ task' \in [Tasks -> TaskStates]
             /\ writer' \in Tasks \cup {None} /\ owned' = None /\ state' = "stopped"
             /\ stop' \in [Stoppers -> {"no", "await", "drain"}]
             /\ awaited' \in [Stoppers -> Tasks \cup {None}]
  BY <1>1 DEF StopBegins, Cancelled, LeftOvers
<1>2. ASSUME NEW count, RefreshFails(count) PROVE ControlOK'
  BY <1>1, <1>2 DEF RefreshFails
<1>3. ASSUME NEW t \in Tasks, OpenSucceeds(t) PROVE ControlOK'
  BY <1>3 DEF OpenSucceeds
<1>4. ASSUME NEW t \in Tasks, OpenFails(t) \/ WakesUp(t) \/ StreamEnds(t) PROVE ControlOK'
  BY <1>4 DEF OpenFails, WakesUp, StreamEnds, Failure
<1>5. ASSUME NEW t \in Tasks, Closes(t) PROVE ControlOK'
  BY <1>5 DEF Closes, CloseWriter, ReportsLoss, EndsCancelled, Failure
<1>6. ASSUME NEW t \in Tasks, ReceiveVersion(t) PROVE ControlOK'
  BY <1>6 DEF ReceiveVersion
<1>7. CASE SetUp \/ LoginSeen \/ PlatformsSetUp \/ SetupAbandoned
  BY <1>7 DEF SetUp, LoginSeen, PlatformsSetUp, SetupAbandoned, StartManager
<1>8. CASE SetupGivesUp \/ UnloadBegins
  BY <1>1, <1>8 DEF SetupGivesUp, UnloadBegins
<1>9. CASE Refreshes
  BY <1>1, <1>2, <1>9 DEF Refreshes, RefreshStarts, RefreshAnswered, RefreshTimesOut
<1>10. CASE ForceRestarts
  BY <1>10 DEF ForceRestarts, StartManager, StopReturns
<1>11. CASE EntryStopped
  BY <1>11 DEF EntryStopped, StopReturns
<1>12. ASSUME NEW who \in Stoppers, StopDisconnects(who) PROVE ControlOK'
  BY <1>12 DEF StopDisconnects, LeftOvers
<1>13. CASE PanelChanges \/ Push \/ RemoteProgramming \/ InstallerExits
  BY <1>13, ZenonT(60) DEF PanelChanges, Push, RemoteProgramming, InstallerExits
<1>14. CASE UNCHANGED vars
  BY <1>14 DEF vars
<1> QED
  BY <1>3, <1>4, <1>5, <1>6, <1>7, <1>8, <1>9, <1>10, <1>11, <1>12, <1>13, <1>14, Zenon
  DEF Next, Opens, Setup, Stops

LEMMA InitTypes == Init => FlagsOK /\ DelayOK /\ ControlOK
<1> SUFFICES ASSUME Init PROVE FlagsOK /\ DelayOK /\ ControlOK
  OBVIOUS
<1>1. FlagsOK
  BY Zenon DEF Init, FlagsOK
<1>2. DelayOK
  BY DEF Init, DelayOK, TransportAssumption
<1>3. ControlOK
  BY DEF Init, ControlOK, TaskStates, EntryStates, Stoppers
<1> QED
  BY <1>1, <1>2, <1>3

\* Every reachable state is well typed: the delay between two attempts never
\* leaves its bounds and the count of silent polls never reaches the threshold.
THEOREM TypeCorrect == Spec => []TypeOK
<1>1. FlagsOK /\ DelayOK /\ ControlOK => TypeOK
  BY DEF FlagsOK, DelayOK, ControlOK, TypeOK
<1> QED
  BY <1>1, InitTypes, FlagsInvariant, DelayInvariant, ControlInvariant, PTL DEF Spec

-----------------------------------------------------------------------------
(***************************************************************************)
(* Ownership and Phases.                                                   *)
(***************************************************************************)
\* async_stop takes the task from the manager and answers for it instead.
LEMMA StopKeepsOwnership ==
  ASSUME ControlOK, Ownership,
         NEW who \in Stoppers, NEW count, stop[who] = "no", StopBegins(who, count)
  PROVE  Ownership'
<1> USE DEF ControlOK, Ownership, StopBegins, stopVars
<1>1. owned' = None
  OBVIOUS
<1>2. CASE owned = None
  <2>1. task' = task /\ awaited' = awaited /\ stop' = [stop EXCEPT ![who] = "drain"]
    BY <1>2
  <2> QED
    BY <1>1, <1>2, <2>1 DEF Live
<1>3. CASE owned # None
  <2>1. \A other \in Stoppers : stop[other] # "await"
    BY <1>3
  <2>2. /\ task' = [task EXCEPT ![owned] = Cancelled(@)]
        /\ awaited' = [awaited EXCEPT ![who] = owned]
        /\ stop' = [stop EXCEPT ![who] = "await"]
    BY <1>3
  <2>3. \A t \in Tasks : Live(t) => t = owned
    BY <1>3, <2>1
  <2>4. ASSUME NEW t \in Tasks, Live(t)'
        PROVE  /\ task'[t] \in {"stopping", "stopped"}
               /\ stop'[who] = "await" /\ awaited'[who] = t
    <3>1. t = owned
      BY <2>2, <2>3, <2>4 DEF Live
    <3>2. task'[t] = Cancelled(task[t])
      BY <2>2, <3>1
    <3> QED
      BY <2>2, <2>4, <3>1, <3>2 DEF Live, Cancelled
  <2>5. \A other \in Stoppers : stop'[other] = "await" => other = who
    BY <2>1, <2>2
  <2> QED
    BY <1>1, <2>4, <2>5
<1> QED
  BY <1>2, <1>3

\* A new task is the only one, when no async_stop is left to wait for an old one.
LEMMA StartKeepsOwnership ==
  ASSUME ControlOK, Ownership, StartManager,
         \A who \in Stoppers : stop[who] = "await" => ~Live(awaited[who]),
         \A who \in Stoppers : stop'[who] # "await"
  PROVE  Ownership'
<1>1. \A t \in Tasks : ~Live(t)
  BY DEF Ownership, StartManager
<1>2. PICK t \in Tasks : owned' = t /\ task' = [task EXCEPT ![t] = "open"]
  BY DEF StartManager
<1>3. task'[t] = "open" /\ \A u \in Tasks : u # t => task'[u] = "done"
  BY <1>1, <1>2 DEF ControlOK, Live
<1> QED
  BY <1>2, <1>3 DEF Ownership, Live

\* A task that is over needs nobody to wait for it.
LEMMA ReturnKeepsOwnership ==
  ASSUME ControlOK, Ownership, NEW who \in Stoppers,
         stop[who] = "await" => ~Live(awaited[who]),
         stop' \in {[stop EXCEPT ![who] = "no"], [stop EXCEPT ![who] = "drain"]},
         awaited' = [awaited EXCEPT ![who] = None], UNCHANGED <<task, owned>>
  PROVE  Ownership'
<1>1. \A other \in Stoppers : stop'[other] = "await" => stop[other] = "await" /\ other # who
  BY DEF ControlOK
<1>2. ASSUME NEW t \in Tasks, Live(t), t # owned
      PROVE  \E other \in Stoppers : stop'[other] = "await" /\ awaited'[other] = t
  <2>1. PICK other \in Stoppers : stop[other] = "await" /\ awaited[other] = t
    BY <1>2 DEF Ownership
  <2>2. other # who
    BY <1>2, <2>1
  <2> QED
    BY <2>1, <2>2 DEF ControlOK
<1> QED
  BY <1>1, <1>2 DEF Ownership, Live

\* A task that moves on within what the manager's task may do, or within what a
\* cancelled one may.
LEMMA MoveKeepsOwnership ==
  ASSUME ControlOK, Ownership, NEW t \in Tasks, NEW at, task' = [task EXCEPT ![t] = at],
         \/ /\ task[t] \in {"open", "retry", "stream", "closing", "closed", "backoff"}
            /\ at \in {"open", "retry", "stream", "closing", "closed", "backoff"}
         \/ task[t] \in {"stopping", "stopped"} /\ at \in {"stopped", "done"},
         UNCHANGED <<owned, stop, awaited>>
  PROVE  Ownership'
  BY DEF ControlOK, Ownership, Live

LEMMA OwnershipInvariant == ControlOK /\ Ownership /\ Phases /\ [Next]_vars => Ownership'
<1> SUFFICES ASSUME ControlOK, Ownership, Phases, [Next]_vars PROVE Ownership'
  OBVIOUS
<1> USE DEF managerVars, stopVars
<1>1. UNCHANGED <<task, owned, stop, awaited>> => Ownership'
  BY DEF Ownership, Live
<1>2. ASSUME NEW count, RefreshFails(count) PROVE Ownership'
  <2>1. CASE entry = "first"
    BY <1>2, <2>1, StopKeepsOwnership DEF RefreshFails, Phases, Stoppers
  <2>2. CASE entry # "first"
    BY <1>1, <1>2, <2>2 DEF RefreshFails
  <2> QED
    BY <2>1, <2>2
<1>3. ASSUME NEW t \in Tasks, OpenSucceeds(t) PROVE Ownership'
  BY <1>3, MoveKeepsOwnership DEF OpenSucceeds
<1>4. ASSUME NEW t \in Tasks, OpenFails(t) PROVE Ownership'
  BY <1>4, MoveKeepsOwnership DEF OpenFails
<1>5. ASSUME NEW t \in Tasks, WakesUp(t) PROVE Ownership'
  BY <1>5, MoveKeepsOwnership DEF WakesUp
<1>6. ASSUME NEW t \in Tasks, StreamEnds(t) PROVE Ownership'
  BY <1>6, MoveKeepsOwnership DEF StreamEnds
<1>7. ASSUME NEW t \in Tasks, CloseWriter(t) PROVE Ownership'
  <2>1. task' = [task EXCEPT ![t] = IF task[t] = "closing" THEN "closed" ELSE "stopped"]
    BY <1>7 DEF CloseWriter, ControlOK
  <2> QED
    BY <1>7, <2>1, MoveKeepsOwnership DEF CloseWriter
<1>8. ASSUME NEW t \in Tasks, ReportsLoss(t) \/ EndsCancelled(t) PROVE Ownership'
  BY <1>8, MoveKeepsOwnership DEF ReportsLoss, EndsCancelled
<1>9. CASE SetUp
  BY <1>9, StartKeepsOwnership DEF SetUp, Phases, Stoppers
<1>10. CASE SetupGivesUp \/ UnloadBegins
  BY <1>10, StopKeepsOwnership DEF SetupGivesUp, UnloadBegins, Phases, Stoppers
<1>11. CASE RefreshStarts
  BY <1>1, <1>2, <1>11 DEF RefreshStarts
<1>12. CASE RefreshTimesOut
  BY <1>2, <1>12, StopKeepsOwnership DEF RefreshTimesOut, Phases, Stoppers
<1>13. CASE ForceRestarts
  <2>1. \A who \in Stoppers : stop[who] = "await" => ~Live(awaited[who])
    BY <1>13 DEF ForceRestarts, StopReturns, Phases, Stoppers
  <2>2. \A who \in Stoppers : stop'[who] # "await"
    BY <1>13 DEF ForceRestarts, StopReturns, Phases, Stoppers, ControlOK
  <2> QED
    BY <1>13, <2>1, <2>2, StartKeepsOwnership DEF ForceRestarts
<1>14. CASE EntryStopped
  BY <1>14, ReturnKeepsOwnership DEF EntryStopped, StopReturns, Stoppers
<1>15. ASSUME NEW who \in Stoppers, StopDisconnects(who) PROVE Ownership'
  BY <1>15, ReturnKeepsOwnership DEF StopDisconnects
<1>16. ASSUME \/ \E t \in Tasks : ReceiveVersion(t)
              \/ LoginSeen \/ PlatformsSetUp \/ SetupAbandoned \/ RefreshAnswered
              \/ PanelChanges \/ Push \/ RemoteProgramming \/ InstallerExits
              \/ UNCHANGED vars
       PROVE  Ownership'
  BY <1>1, <1>16 DEF ReceiveVersion, LoginSeen, PlatformsSetUp, SetupAbandoned, RefreshAnswered, PanelChanges, Push,
     RemoteProgramming, InstallerExits, vars
<1> QED
  BY <1>3, <1>4, <1>5, <1>6, <1>7, <1>8, <1>9, <1>10, <1>11, <1>12, <1>13, <1>14, <1>15,
     <1>16, Zenon DEF Next, Opens, Closes, Setup, Refreshes, Stops

LEMMA PhasesInvariant == ControlOK /\ Ownership /\ Phases /\ [Next]_vars => Phases'
<1> SUFFICES ASSUME ControlOK, Ownership, Phases, [Next]_vars PROVE Phases'
  OBVIOUS
<1> USE DEF ControlOK, Phases, Stoppers, managerVars, stopVars
<1>1. ASSUME NEW who \in Stoppers, NEW count, StopBegins(who, count)
      PROVE  /\ owned' = None
             /\ \/ stop' = [stop EXCEPT ![who] = "await"] /\ owned # None
                \/ stop' = [stop EXCEPT ![who] = "drain"]
  BY <1>1 DEF StopBegins
<1>2. ASSUME NEW count, RefreshFails(count), poll # "stopping",
             entry \in {"first", "platforms", "loaded", "abandoned", "unloading", "unloaded"}
      PROVE  Phases'
  BY <1>1, <1>2 DEF RefreshFails
<1>3. ASSUME NEW t \in Tasks, Opens(t) \/ WakesUp(t) \/ StreamEnds(t) \/ Closes(t)
      PROVE  Phases'
  BY <1>3 DEF Opens, OpenSucceeds, OpenFails, WakesUp, StreamEnds, Closes, CloseWriter,
     ReportsLoss, EndsCancelled
<1>4. ASSUME NEW t \in Tasks, ReceiveVersion(t) PROVE Phases'
  BY <1>4 DEF ReceiveVersion
<1>5. CASE SetUp \/ LoginSeen \/ PlatformsSetUp \/ SetupAbandoned
  BY <1>5 DEF SetUp, LoginSeen, PlatformsSetUp, SetupAbandoned
<1>6. CASE SetupGivesUp \/ UnloadBegins
  BY <1>1, <1>6 DEF SetupGivesUp, UnloadBegins, EntryStates
<1>7. CASE RefreshStarts \/ RefreshAnswered
  BY <1>2, <1>7 DEF RefreshStarts, RefreshAnswered, Polled, InUse
<1>8. CASE RefreshTimesOut
  <2>1. entry \in {"first", "platforms", "loaded", "abandoned", "unloading", "unloaded"}
    BY <1>8 DEF RefreshTimesOut, EntryStates
  <2> QED
    BY <1>1, <1>2, <1>8, <2>1 DEF RefreshTimesOut, Polled, InUse
<1>9. CASE ForceRestarts
  BY <1>9 DEF ForceRestarts, StopReturns, StartManager, EntryStates
<1>10. CASE EntryStopped
  BY <1>10 DEF EntryStopped, StopReturns
<1>11. ASSUME NEW who \in Stoppers, StopDisconnects(who) PROVE Phases'
  BY <1>11 DEF StopDisconnects
<1>12. CASE PanelChanges \/ Push \/ RemoteProgramming \/ InstallerExits
  BY <1>12 DEF PanelChanges, Push, RemoteProgramming, InstallerExits
<1>13. CASE UNCHANGED vars
  BY <1>13 DEF vars
<1> QED
  BY <1>3, <1>4, <1>5, <1>6, <1>7, <1>8, <1>9, <1>10, <1>11, <1>12, <1>13, Zenon
  DEF Next, Setup, Refreshes, Stops

LEMMA InitOwnership == Init => Ownership /\ Phases
  BY DEF Init, Ownership, Phases, Live, Stoppers

LEMMA OneTask == Ownership => OneConnectTask
  BY DEF Ownership, OneConnectTask

\* However a forced reconnect, a lost transport and an unload overlap, no two
\* connect tasks live at a time and none is left without somebody to stop it.
THEOREM AlwaysOneTask == Spec => []OneConnectTask
  BY InitTypes, InitOwnership, ControlInvariant, OwnershipInvariant, PhasesInvariant, OneTask,
     PTL DEF Spec

-----------------------------------------------------------------------------
(***************************************************************************)
(* The open transport and its writer.                                      *)
(***************************************************************************)
\* Who runs is the manager's task, nobody else lives, and nobody is awaited.
LEMMA RunningIsOwned ==
  ASSUME ControlOK, Ownership, NEW t \in Tasks,
         task[t] \in {"open", "retry", "stream", "closing", "closed", "backoff"}
  PROVE  /\ owned = t
         /\ \A u \in Tasks : Live(u) => u = t
         /\ \A who \in Stoppers : stop[who] # "await"
  BY DEF ControlOK, Ownership, Live

\* Between two transports no port is open.
LEMMA NoPortBetween ==
  ASSUME ControlOK, Ownership, Writers, NEW t \in Tasks,
         task[t] \in {"open", "retry", "closed", "backoff"}
  PROVE  ~Connected
  BY RunningIsOwned DEF ControlOK, Writers, TransportIsSupervised, Connected, Live

\* async_stop keeps the transport supervised, or closes it.
LEMMA StopKeepsWriters ==
  ASSUME ControlOK, Ownership, Writers,
         NEW who \in Stoppers, NEW count, stop[who] = "no", StopBegins(who, count)
  PROVE  Writers'
<1> USE DEF ControlOK, StopBegins, stopVars, linkVars
<1>1. CASE owned = None
  <2>1. \A t \in Tasks : task[t] \notin {"stream", "closing"}
    BY <1>1, RunningIsOwned
  <2>2. task' = task /\ writer' = None
    BY <1>1 DEF LeftOvers, Connected
  <2> QED
    BY <2>1, <2>2 DEF Writers, TransportIsSupervised, Connected
<1>2. CASE owned # None
  <2>1. /\ \A t \in Tasks : Live(t) => t = owned
        /\ \A other \in Stoppers : stop[other] # "await"
    BY <1>2 DEF Ownership
  <2>2. /\ task' = [task EXCEPT ![owned] = Cancelled(@)]
        /\ awaited' = [awaited EXCEPT ![who] = owned]
        /\ stop' = [stop EXCEPT ![who] = "await"]
        /\ writer' = writer
    BY <1>2
  <2>3. Connected => writer = owned
    BY <2>1 DEF Writers, TransportIsSupervised, Live, Connected
  <2>4. \A t \in Tasks : task'[t] \notin {"stream", "closing"}
    BY <2>1, <2>2 DEF Live, Cancelled
  <2> QED
    BY <2>2, <2>3, <2>4 DEF Writers, TransportIsSupervised, Connected
<1> QED
  BY <1>1, <1>2

LEMMA WritersInvariant ==
  ControlOK /\ Ownership /\ Phases /\ Writers /\ [Next]_vars => Writers'
<1> SUFFICES ASSUME ControlOK, Ownership, Phases, Writers, [Next]_vars PROVE Writers'
  OBVIOUS
<1> USE DEF managerVars, stopVars, linkVars
<1>1. UNCHANGED <<task, writer, stop, awaited>> => Writers'
  BY DEF Writers, TransportIsSupervised, Connected
<1>2. ASSUME NEW count, RefreshFails(count) PROVE Writers'
  <2>1. CASE entry = "first"
    BY <1>2, <2>1, StopKeepsWriters DEF RefreshFails, Phases, Stoppers
  <2>2. CASE entry # "first"
    BY <1>1, <1>2, <2>2 DEF RefreshFails
  <2> QED
    BY <2>1, <2>2
<1>3. ASSUME NEW t \in Tasks, OpenSucceeds(t) PROVE Writers'
  BY <1>3, RunningIsOwned DEF OpenSucceeds, ControlOK, Writers, TransportIsSupervised, Connected, Live
<1>4. ASSUME NEW t \in Tasks, OpenFails(t) \/ WakesUp(t) \/ ReportsLoss(t) PROVE Writers'
  <2>1. ~Connected /\ \A u \in Tasks : Live(u) => u = t
    BY <1>4, NoPortBetween, RunningIsOwned DEF OpenFails, WakesUp, ReportsLoss
  <2>2. writer' = writer /\ \E at \in {"retry", "open", "backoff"} : task' = [task EXCEPT ![t] = at]
    BY <1>4 DEF OpenFails, WakesUp, ReportsLoss
  <2> QED
    BY <2>1, <2>2 DEF ControlOK, Writers, TransportIsSupervised, Connected, Live
<1>5. ASSUME NEW t \in Tasks, StreamEnds(t) PROVE Writers'
  BY <1>5 DEF StreamEnds, ControlOK, Writers, TransportIsSupervised, Connected
<1>6. ASSUME NEW t \in Tasks, CloseWriter(t) PROVE Writers'
  <2>1. \A u \in Tasks : Live(u) => u = t
    BY <1>6, OneTask DEF CloseWriter, OneConnectTask, Live
  <2>2. writer' = None /\ \E at \in {"closed", "stopped"} : task' = [task EXCEPT ![t] = at]
    BY <1>6 DEF CloseWriter, ControlOK
  <2> QED
    BY <2>1, <2>2 DEF ControlOK, Writers, TransportIsSupervised, Connected, Live
<1>7. ASSUME NEW t \in Tasks, EndsCancelled(t) PROVE Writers'
  BY <1>7 DEF EndsCancelled, ControlOK, Writers, TransportIsSupervised, Connected
<1>8. ASSUME StartManager, UNCHANGED writer, \A t \in Tasks : ~Live(t),
             \A who \in Stoppers : stop[who] = "await" => ~Connected
      PROVE  Writers'
  BY <1>8 DEF StartManager, ControlOK, Writers, TransportIsSupervised, Connected, Live
<1>9. CASE SetUp
  <2>1. \A who \in Stoppers : stop[who] # "await"
    BY <1>9 DEF SetUp, Phases, Stoppers
  <2> QED
    BY <1>8, <1>9, <2>1 DEF SetUp, StartManager, Ownership
<1>10. CASE SetupGivesUp \/ UnloadBegins
  BY <1>10, StopKeepsWriters DEF SetupGivesUp, UnloadBegins, Phases, Stoppers
<1>11. CASE RefreshStarts
  BY <1>1, <1>2, <1>11 DEF RefreshStarts
<1>12. CASE RefreshTimesOut
  BY <1>2, <1>12, StopKeepsWriters DEF RefreshTimesOut, Phases, Stoppers
<1>13. CASE ForceRestarts
  <2>1. \A who \in Stoppers : stop[who] = "await" => ~Live(awaited[who]) /\ ~Connected
    BY <1>13 DEF ForceRestarts, StopReturns, Phases, Stoppers
  <2>2. \A t \in Tasks : ~Live(t)
    BY <1>13, <2>1 DEF ForceRestarts, StartManager, Ownership
  <2> QED
    BY <1>8, <1>13, <2>1, <2>2 DEF ForceRestarts
<1>14. CASE EntryStopped
  BY <1>14 DEF EntryStopped, StopReturns, Stoppers, ControlOK, Writers, TransportIsSupervised, Connected
<1>15. ASSUME NEW who \in Stoppers, StopDisconnects(who) PROVE Writers'
  <2>1. \A t \in Tasks : task[t] \notin {"stream", "closing"}
    BY <1>15, RunningIsOwned DEF StopDisconnects
  <2> QED
    BY <1>15, <2>1 DEF StopDisconnects, LeftOvers, Writers, TransportIsSupervised, Connected
<1>16. ASSUME \/ \E t \in Tasks : ReceiveVersion(t)
              \/ LoginSeen \/ PlatformsSetUp \/ SetupAbandoned \/ RefreshAnswered
              \/ PanelChanges \/ Push \/ RemoteProgramming \/ InstallerExits
              \/ UNCHANGED vars
       PROVE  Writers'
  BY <1>1, <1>16 DEF ReceiveVersion, LoginSeen, PlatformsSetUp, SetupAbandoned, RefreshAnswered, PanelChanges, Push,
     RemoteProgramming, InstallerExits, vars
<1> QED
  BY <1>3, <1>4, <1>5, <1>6, <1>7, <1>9, <1>10, <1>11, <1>12, <1>13, <1>14, <1>15, <1>16,
     Zenon DEF Next, Opens, Closes, Setup, Refreshes, Stops

LEMMA InitWriters == Init => Writers
  BY DEF Init, Writers, TransportIsSupervised, Connected

\* No interleaving of losses, polls, setup and unload leaves an open port behind
\* that no task and no async_stop will close.
THEOREM AlwaysSupervised == Spec => []TransportIsSupervised
<1>1. Writers => TransportIsSupervised
  BY DEF Writers
<1> QED
  BY <1>1, InitTypes, InitOwnership, InitWriters, ControlInvariant, OwnershipInvariant,
     PhasesInvariant, WritersInvariant, PTL DEF Spec

-----------------------------------------------------------------------------
(***************************************************************************)
(* What the coordinator and the diagnostics see of it.                     *)
(***************************************************************************)
LEMMA StateInvariant ==
  ControlOK /\ Ownership /\ StateIsTruthful /\ [Next]_vars => StateIsTruthful'
<1> SUFFICES ASSUME ControlOK, Ownership, StateIsTruthful, [Next]_vars PROVE StateIsTruthful'
  OBVIOUS
<1> USE DEF ControlOK, managerVars, StateIsTruthful
<1>1. UNCHANGED <<task, owned, state>> => StateIsTruthful'
  OBVIOUS
<1>2. owned' = None /\ state' = "stopped" => StateIsTruthful'
  OBVIOUS
<1>3. ASSUME NEW count, RefreshFails(count) PROVE StateIsTruthful'
  BY <1>1, <1>2, <1>3 DEF RefreshFails, StopBegins
<1>4. ASSUME NEW t \in Tasks, OpenSucceeds(t) \/ OpenFails(t) \/ WakesUp(t) \/ StreamEnds(t) \/ ReportsLoss(t)
      PROVE  StateIsTruthful'
  BY <1>4, RunningIsOwned DEF OpenSucceeds, OpenFails, WakesUp, StreamEnds, ReportsLoss, Failure
<1>5. ASSUME NEW t \in Tasks, CloseWriter(t) \/ EndsCancelled(t) PROVE StateIsTruthful'
  <2>1. task[t] = "closing" => owned = t
    BY RunningIsOwned
  <2>2. task[t] \in {"stopping", "stopped"} => owned # t
    BY DEF Ownership
  <2> QED
    BY <1>5, <2>1, <2>2 DEF CloseWriter, EndsCancelled
<1>6. ASSUME StartManager PROVE StateIsTruthful'
  BY <1>6 DEF StartManager
<1>7. CASE SetUp \/ ForceRestarts
  BY <1>6, <1>7 DEF SetUp, ForceRestarts
<1>8. CASE SetupGivesUp \/ UnloadBegins \/ RefreshStarts \/ RefreshTimesOut
  BY <1>1, <1>2, <1>3, <1>8 DEF SetupGivesUp, UnloadBegins, RefreshStarts, RefreshTimesOut, StopBegins
<1>9. ASSUME \/ \E t \in Tasks : ReceiveVersion(t)
             \/ \E who \in Stoppers : StopDisconnects(who)
             \/ LoginSeen \/ PlatformsSetUp \/ SetupAbandoned \/ RefreshAnswered \/ EntryStopped
             \/ PanelChanges \/ Push \/ RemoteProgramming \/ InstallerExits
             \/ UNCHANGED vars
      PROVE  StateIsTruthful'
  BY <1>1, <1>9 DEF ReceiveVersion, StopDisconnects, LoginSeen, PlatformsSetUp, SetupAbandoned,
       RefreshAnswered, EntryStopped,
     PanelChanges, Push, RemoteProgramming, InstallerExits, vars
<1> QED
  BY <1>4, <1>5, <1>7, <1>8, <1>9, Zenon DEF Next, Opens, Closes, Setup, Refreshes, Stops

LEMMA InitState == Init => StateIsTruthful
  BY DEF Init, StateIsTruthful

\* What the diagnostics call connected, reconnecting or stopped is so, even while
\* a stopped manager still waits for its task.
THEOREM StateTruthful == Spec => []StateIsTruthful
  BY InitTypes, InitOwnership, InitState, ControlInvariant, OwnershipInvariant, PhasesInvariant,
     StateInvariant, PTL DEF Spec

\* A setup or first refresh that fails leaves nothing, or a task to wait for.
LEMMA StopDrains ==
  ASSUME ControlOK, Ownership, Phases, NEW count, StopBegins("entry", count),
         entry \in {"setup", "login", "first"}, stop'["entry"] = "drain"
  PROVE  ~Connected' /\ \A t \in Tasks : ~Live(t)'
<1>1. owned = None /\ writer' = None /\ task' = task
  BY DEF StopBegins, LeftOvers, Connected, ControlOK, Stoppers, linkVars
<1>2. \A who \in Stoppers : stop[who] # "await"
  BY DEF Phases, Stoppers
<1> QED
  BY <1>1, <1>2 DEF Ownership, Connected, Live

LEMMA DrainedInvariant ==
  ControlOK /\ Ownership /\ Phases /\ Drained /\ [Next]_vars => Drained'
<1> SUFFICES ASSUME ControlOK, Ownership, Phases, Drained, [Next]_vars PROVE Drained'
  OBVIOUS
<1> USE DEF managerVars, stopVars, linkVars
<1> DEFINE Gone == ~Connected /\ \A t \in Tasks : ~Live(t)
<1>1. entry' \notin {"failing", "failed"} => Drained'
  BY DEF Drained, FailedSetupIsClean
<1>2. Gone /\ UNCHANGED <<task, writer>> => Drained'
  BY DEF Drained, FailedSetupIsClean, Connected, Live
<1>3. UNCHANGED <<task, writer, entry, stop>> => Drained'
  BY DEF Drained, FailedSetupIsClean, Connected, Live
<1>4. ASSUME NEW count, entry \in {"setup", "login", "first"}, entry' = "failing",
             StopBegins("entry", count)
      PROVE  Drained'
  BY <1>4, StopDrains DEF Drained, FailedSetupIsClean
<1>5. ASSUME NEW count, RefreshFails(count) PROVE Drained'
  BY <1>3, <1>4, <1>5 DEF RefreshFails
<1>6. ASSUME NEW t \in Tasks, OpenSucceeds(t) \/ OpenFails(t) \/ WakesUp(t) \/ StreamEnds(t) \/ ReportsLoss(t)
      PROVE  Drained'
  <2>1. owned = t /\ t # None
    BY <1>6, RunningIsOwned DEF OpenSucceeds, OpenFails, WakesUp, StreamEnds, ReportsLoss,
       TransportAssumption
  <2>2. entry' = entry
    BY <1>6 DEF OpenSucceeds, OpenFails, WakesUp, StreamEnds, ReportsLoss
  <2> QED
    BY <1>1, <2>1, <2>2 DEF Phases
<1>7. ASSUME NEW t \in Tasks, CloseWriter(t) \/ EndsCancelled(t) PROVE Drained'
  <2>1. Live(t) /\ entry' = entry /\ stop' = stop
    BY <1>7 DEF CloseWriter, EndsCancelled, Live
  <2> QED
    BY <2>1 DEF Drained, FailedSetupIsClean
<1>8. CASE SetUp \/ LoginSeen \/ PlatformsSetUp \/ SetupAbandoned \/ UnloadBegins \/ RefreshAnswered \/ ForceRestarts
  <2>1. entry' \notin {"failing", "failed"}
    BY <1>8 DEF SetUp, LoginSeen, PlatformsSetUp, SetupAbandoned, UnloadBegins, RefreshAnswered, ForceRestarts, Phases
  <2> QED
    BY <1>1, <2>1
<1>9. CASE SetupGivesUp
  <2>1. entry \in {"setup", "login"} /\ entry' = "failing" /\ StopBegins("entry", silent)
    BY <1>9 DEF SetupGivesUp
  <2> QED
    BY <1>4, <2>1
<1>10. CASE RefreshStarts \/ RefreshTimesOut
  <2>1. \/ \E count : RefreshFails(count)
        \/ UNCHANGED <<task, writer, entry, stop>>
        \/ entry' = entry /\ entry \notin {"failing", "failed"}
    <3>1. CASE RefreshStarts
      BY <3>1, Zenon DEF RefreshStarts
    <3>2. CASE RefreshTimesOut
      BY <3>2, Zenon DEF RefreshTimesOut, Polled, InUse
    <3> QED
      BY <1>10, <3>1, <3>2
  <2> QED
    BY <1>1, <1>3, <1>5, <2>1
<1>11. CASE EntryStopped
  <2>1. CASE entry = "failing"
    <3>1. Gone
      BY <1>11, <2>1 DEF EntryStopped, StopReturns, Drained, Ownership, Phases, Stoppers
    <3> QED
      BY <1>2, <1>11, <3>1 DEF EntryStopped
  <2>2. CASE entry # "failing"
    BY <1>1, <1>11, <2>2 DEF EntryStopped
  <2> QED
    BY <2>1, <2>2
<1>12. ASSUME NEW who \in Stoppers, StopDisconnects(who) PROVE Drained'
  <2>1. writer' = None /\ task' = task /\ entry' = entry
    BY <1>12 DEF StopDisconnects, LeftOvers
  <2>2. CASE entry \in {"failing", "failed"}
    <3>1. \A t \in Tasks : ~Live(t)
      BY <1>12, <2>2 DEF StopDisconnects, Ownership, Phases
    <3> QED
      BY <2>1, <3>1 DEF Drained, FailedSetupIsClean, Connected, Live
  <2> QED
    BY <1>1, <2>1, <2>2
<1>13. ASSUME NEW t \in Tasks, ReceiveVersion(t) PROVE Drained'
  <2>1. CASE entry \in {"failing", "failed"}
    BY <1>3, <1>13, <2>1 DEF ReceiveVersion
  <2>2. CASE entry \notin {"failing", "failed"}
    BY <1>1, <1>13, <2>2 DEF ReceiveVersion
  <2> QED
    BY <2>1, <2>2
<1>14. CASE PanelChanges \/ Push \/ RemoteProgramming \/ InstallerExits \/ UNCHANGED vars
  BY <1>3, <1>14 DEF PanelChanges, Push, RemoteProgramming, InstallerExits, vars
<1> QED
  BY <1>6, <1>7, <1>8, <1>9, <1>10, <1>11, <1>12, <1>13, <1>14, Zenon
  DEF Next, Opens, Closes, Setup, Refreshes, Stops

LEMMA InitDrained == Init => Drained
  BY DEF Init, Drained, FailedSetupIsClean

\* A setup that failed for want of a login or of the first refresh has left no task
\* and no open port, wherever its connect task and the refresh were when it failed.
THEOREM SetupFailsClean == Spec => []FailedSetupIsClean
<1>1. Drained => FailedSetupIsClean
  BY DEF Drained
<1> QED
  BY <1>1, InitTypes, InitOwnership, InitDrained, ControlInvariant, OwnershipInvariant,
     PhasesInvariant, DrainedInvariant, PTL DEF Spec

-----------------------------------------------------------------------------
(***************************************************************************)
(* The backoff.                                                            *)
(***************************************************************************)
\* The delay is doubled only while no port is open.
LEMMA FailureHasNoPort ==
  ASSUME ControlOK, Ownership, Writers, NEW t \in Tasks, OpenFails(t) \/ ReportsLoss(t)
  PROVE  ~Connected
  BY NoPortBetween DEF OpenFails, ReportsLoss

LEMMA LinkInvariant ==
  ControlOK /\ Ownership /\ Writers /\ LinkInv /\ [Next]_vars => LinkInv'
<1> SUFFICES ASSUME ControlOK, Ownership, Writers, LinkInv, [Next]_vars PROVE LinkInv'
  OBVIOUS
<1> USE DEF LinkInv, ReplyResetsBackoff, Connected, linkVars, hubVars, pollVars
<1>1. UNCHANGED <<writer, replied, fresh, loggedIn, retryDelay>> => LinkInv'
  OBVIOUS
<1>2. ASSUME writer' = None, replied' = FALSE PROVE LinkInv'
  BY <1>2
<1>3. ASSUME NEW count, LeftOvers(count), UNCHANGED retryDelay PROVE LinkInv'
  BY <1>1, <1>2, <1>3 DEF LeftOvers
<1>4. ASSUME NEW who \in Stoppers, NEW count, StopBegins(who, count), UNCHANGED retryDelay
      PROVE  LinkInv'
  BY <1>1, <1>3, <1>4 DEF StopBegins
<1>5. ASSUME NEW count, RefreshFails(count) PROVE LinkInv'
  BY <1>1, <1>4, <1>5 DEF RefreshFails, Stoppers
<1>6. ASSUME NEW t \in Tasks, OpenSucceeds(t) PROVE LinkInv'
  BY <1>6 DEF OpenSucceeds
<1>7. ASSUME NEW t \in Tasks, OpenFails(t) \/ ReportsLoss(t) PROVE LinkInv'
  BY <1>7, FailureHasNoPort DEF OpenFails, ReportsLoss
<1>8. ASSUME NEW t \in Tasks, CloseWriter(t) PROVE LinkInv'
  BY <1>2, <1>8 DEF CloseWriter
<1>9. ASSUME NEW t \in Tasks, ReceiveVersion(t) PROVE LinkInv'
  <2>1. writer' = writer /\ writer = t /\ t # None /\ replied' = TRUE /\ fresh' = fresh
    BY <1>9 DEF ReceiveVersion, Writers, TransportAssumption
  <2>2. CASE loggedIn
    <3>1. loggedIn' = loggedIn /\ retryDelay' = retryDelay
      BY <1>9, <2>2 DEF ReceiveVersion
    <3>2. fresh => retryDelay = InitialRetryDelay
      BY <2>1, <2>2, Zenon
    <3> QED
      BY <2>1, <2>2, <3>1, <3>2, Zenon
  <2>3. CASE ~loggedIn
    BY <1>9, <2>1, <2>3, Zenon DEF ReceiveVersion, Login
  <2> QED
    BY <2>2, <2>3
<1>10. CASE SetupGivesUp \/ UnloadBegins \/ RefreshStarts \/ RefreshTimesOut
  <2>1. \/ \E who \in Stoppers : \E count : StopBegins(who, count) /\ UNCHANGED retryDelay
        \/ \E count : RefreshFails(count)
        \/ UNCHANGED <<writer, replied, fresh, loggedIn, retryDelay>>
    BY <1>10, Zenon DEF SetupGivesUp, UnloadBegins, RefreshStarts, RefreshTimesOut, Stoppers
  <2> QED
    BY <1>1, <1>4, <1>5, <2>1
<1>11. ASSUME NEW who \in Stoppers, StopDisconnects(who) PROVE LinkInv'
  BY <1>3, <1>11 DEF StopDisconnects
<1>12. ASSUME \/ \E t \in Tasks : WakesUp(t) \/ StreamEnds(t) \/ EndsCancelled(t)
              \/ SetUp \/ LoginSeen \/ PlatformsSetUp \/ SetupAbandoned \/ RefreshAnswered \/ ForceRestarts \/ EntryStopped
              \/ PanelChanges \/ Push \/ RemoteProgramming \/ InstallerExits
              \/ UNCHANGED vars
       PROVE  LinkInv'
  BY <1>1, <1>12, Zenon DEF WakesUp, StreamEnds, EndsCancelled, SetUp, LoginSeen,
     PlatformsSetUp, SetupAbandoned, RefreshAnswered, ForceRestarts, EntryStopped, PanelChanges, Push, RemoteProgramming,
     InstallerExits, vars
<1> QED
  BY <1>6, <1>7, <1>8, <1>9, <1>10, <1>11, <1>12, Zenon
  DEF Next, Opens, Closes, Setup, Refreshes, Stops

LEMMA InitLink == Init => LinkInv
  BY DEF Init, LinkInv, ReplyResetsBackoff, Connected

\* Once the panel has answered on a transport that opened to a logged-out hub, the
\* delay is the shortest, until that transport is gone.
THEOREM ReplyResets == Spec => []ReplyResetsBackoff
<1>1. LinkInv => ReplyResetsBackoff
  BY DEF LinkInv
<1> QED
  BY <1>1, InitTypes, InitOwnership, InitWriters, InitLink, ControlInvariant,
     OwnershipInvariant, PhasesInvariant, WritersInvariant, LinkInvariant, PTL DEF Spec

LEMMA OnlyLoginShortens ==
  DelayOK /\ [Next]_vars => (retryDelay' < retryDelay => ~loggedIn /\ loggedIn')
<1> SUFFICES ASSUME DelayOK, [Next]_vars, retryDelay' < retryDelay
             PROVE  ~loggedIn /\ loggedIn'
  OBVIOUS
<1> USE DEF hubVars
<1>1. retryDelay' # retryDelay /\ retryDelay' # Doubled
  BY DoubledBounds DEF DelayOK, TransportAssumption
<1>2. ASSUME NEW count, RefreshFails(count) PROVE FALSE
  BY <1>1, <1>2, Zenon DEF RefreshFails
<1>3. ASSUME NEW t \in Tasks, Opens(t) \/ WakesUp(t) \/ StreamEnds(t) \/ Closes(t) PROVE FALSE
  BY <1>1, <1>3, Zenon DEF Opens, OpenSucceeds, OpenFails, WakesUp, StreamEnds, Closes,
     CloseWriter, ReportsLoss, EndsCancelled, Failure
<1>4. CASE SetUp \/ Setup \/ SetupAbandoned \/ UnloadBegins \/ Refreshes \/ ForceRestarts
  BY <1>1, <1>2, <1>4, Zenon DEF SetUp, Setup, LoginSeen, PlatformsSetUp, SetupAbandoned, SetupGivesUp, UnloadBegins,
     Refreshes, RefreshStarts, RefreshAnswered, RefreshTimesOut, ForceRestarts
<1>5. CASE Stops
  BY <1>1, <1>5, Zenon DEF Stops, EntryStopped, StopDisconnects
<1>6. CASE PanelChanges \/ Push \/ RemoteProgramming \/ InstallerExits \/ UNCHANGED vars
  BY <1>1, <1>6, Zenon DEF PanelChanges, Push, RemoteProgramming, InstallerExits, vars
<1>7. ASSUME NEW t \in Tasks, ReceiveVersion(t) PROVE ~loggedIn /\ loggedIn'
  BY <1>1, <1>7, Zenon DEF ReceiveVersion, Login
<1> QED
  BY <1>3, <1>4, <1>5, <1>6, <1>7, Zenon DEF Next

\* Only the login of a hub that was not logged in shortens the delay.
THEOREM OnlyLoginResets == Spec => OnlyLoginResetsBackoff
  BY InitTypes, DelayInvariant, OnlyLoginShortens, PTL DEF Spec, OnlyLoginResetsBackoff

-----------------------------------------------------------------------------
(***************************************************************************)
(* The entities.                                                           *)
(***************************************************************************)
LEMMA AvailableInvariant ==
  ControlOK /\ Ownership /\ Phases /\ Writers /\ AvailableNeedsTransport /\ [Next]_vars
    => AvailableNeedsTransport'
<1> SUFFICES ASSUME ControlOK, Ownership, Phases, Writers, AvailableNeedsTransport, [Next]_vars
             PROVE  AvailableNeedsTransport'
  OBVIOUS
<1> USE DEF AvailableNeedsTransport, InUse, Connected, linkVars, pollVars, hubVars, managerVars
<1>1. ~InUse' \/ available' = FALSE \/ poll' = "stopping" => AvailableNeedsTransport'
  OBVIOUS
<1>2. ASSUME NEW t \in Tasks, task[t] = "stream", writer' = writer PROVE AvailableNeedsTransport'
  BY <1>2 DEF Writers, TransportAssumption
<1>3. UNCHANGED <<task, writer, poll>> /\ available' = available /\ (InUse' => InUse)
        => AvailableNeedsTransport'
  OBVIOUS
<1>4. ASSUME NEW count, RefreshFails(count) PROVE AvailableNeedsTransport'
  BY <1>1, <1>4 DEF RefreshFails
<1>5. ASSUME NEW t \in Tasks, OpenSucceeds(t) PROVE AvailableNeedsTransport'
  BY <1>5 DEF OpenSucceeds, TransportAssumption
<1>6. ASSUME NEW t \in Tasks, OpenFails(t) \/ WakesUp(t) \/ EndsCancelled(t) PROVE AvailableNeedsTransport'
  BY <1>6 DEF OpenFails, WakesUp, EndsCancelled, ControlOK
<1>7. ASSUME NEW t \in Tasks, StreamEnds(t) PROVE AvailableNeedsTransport'
  BY <1>7 DEF StreamEnds, Writers, TransportAssumption
<1>8. ASSUME NEW t \in Tasks, CloseWriter(t) PROVE AvailableNeedsTransport'
  <2>1. CASE task[t] = "closing"
    BY <1>8, <2>1 DEF CloseWriter, ControlOK
  <2>2. CASE task[t] = "stopping"
    <3>1. \E who \in Stoppers : stop[who] = "await"
      BY <2>2 DEF Ownership, Live
    <3> QED
      BY <1>1, <1>8, <3>1 DEF CloseWriter, Phases, Stoppers
  <2> QED
    BY <1>8, <2>1, <2>2 DEF CloseWriter
<1>9. ASSUME NEW t \in Tasks, ReportsLoss(t) PROVE AvailableNeedsTransport'
  BY <1>1, <1>9 DEF ReportsLoss, Disconnected
<1>10. ASSUME NEW t \in Tasks, ReceiveVersion(t) PROVE AvailableNeedsTransport'
  BY <1>2, <1>10 DEF ReceiveVersion
<1>11. CASE SetUp \/ LoginSeen \/ SetupGivesUp \/ UnloadBegins \/ ForceRestarts \/ EntryStopped
  BY <1>1, <1>11 DEF SetUp, LoginSeen, SetupGivesUp, UnloadBegins, ForceRestarts, EntryStopped
<1>12. CASE RefreshStarts
  BY <1>4, <1>12 DEF RefreshStarts
<1>13. CASE RefreshTimesOut
  BY <1>1, <1>4, <1>13 DEF RefreshTimesOut
<1>14. ASSUME NEW who \in Stoppers, StopDisconnects(who) PROVE AvailableNeedsTransport'
  BY <1>1, <1>14 DEF StopDisconnects, LeftOvers, Disconnected
<1>15. CASE RefreshAnswered \/ Push \/ RemoteProgramming
  BY <1>2, <1>15 DEF RefreshAnswered, Push, RemoteProgramming
<1>16. CASE PanelChanges \/ InstallerExits \/ UNCHANGED vars
  BY <1>3, <1>16 DEF PanelChanges, InstallerExits, vars
<1>17. CASE PlatformsSetUp \/ SetupAbandoned
  BY <1>1, <1>3, <1>17 DEF PlatformsSetUp, SetupAbandoned, InUse
<1> QED
  BY <1>5, <1>6, <1>7, <1>8, <1>9, <1>10, <1>11, <1>12, <1>13, <1>14, <1>15, <1>16,
     <1>17, Zenon DEF Next, Opens, Closes, Setup, Refreshes, Stops

LEMMA InitAvailable == Init => AvailableNeedsTransport
  BY DEF Init, AvailableNeedsTransport, InUse

\* Entities of an entry in use are never shown as available over a link that is
\* down, but for the moment of closing or replacing it.
THEOREM AvailableIsHonest == Spec => []AvailableNeedsTransport
  BY InitTypes, InitOwnership, InitWriters, InitAvailable, ControlInvariant, OwnershipInvariant,
     PhasesInvariant, WritersInvariant, AvailableInvariant, PTL DEF Spec
=============================================================================
