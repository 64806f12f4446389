-------------------------- MODULE ProgrammingTracker --------------------------
(***************************************************************************)
(* Who programmed the panel, and when: the one ProgrammingTracker that all *)
(* config entries share.  Programmer apps announce a session by a service  *)
(* call (a claim) and end it by another; the panels report only that some  *)
(* session is open.  The tracker matches the two, keeps a short history,   *)
(* raises and clears repair issues, and saves itself to a file that it     *)
(* reads back at the first service call after a restart.                   *)
(***************************************************************************)
EXTENDS Integers, Sequences, FiniteSets, SequencesExt

CONSTANTS
  Apps,          \* who calls the two services
  Entries,       \* config entries, one per panel
  None,          \* no claim, no session, nothing to write, no file
  Live,          \* to write: the data as it will be when it is written
  HISTORY_LIMIT, \* sessions the history keeps
  MaxSessions,   \* bound on sessions begun
  MaxReports,    \* bound on reports of the panels
  MaxRestarts    \* bound on restarts

ASSUME TrackerAssumption ==
  /\ None # Live /\ None \notin [id : Nat, seen : BOOLEAN]
  /\ HISTORY_LIMIT \in Nat \ {0}
  /\ MaxSessions \in Nat /\ MaxReports \in Nat /\ MaxRestarts \in Nat

VARIABLES
  state,     \* ProgrammingTracker.state
  loaded,    \* ProgrammingTracker._loaded
  issues,    \* repair issues: a kind and an entry
  call,      \* the service call of each app that waits for the file
  slot,      \* what the Store is to write next
  writing,   \* what the Store is writing
  disk,      \* the file
  \* Bookkeeping that the program does not keep.
  sessions,  \* sessions begun so far, which also numbers them
  reports,   \* reports of the panels so far
  restarts   \* restarts so far

memory == <<state, loaded, issues, call, slot, writing>>
counts == <<sessions, reports, restarts>>
vars   == <<memory, disk, counts>>

NewState == [claim |-> None, unattributed |-> None, rp |-> FALSE, history |-> <<>>, count |-> 0]

\* _data: what the file holds of a state.  An unattributed session is not in it.
Data(s) == [claim |-> s.claim, history |-> s.history, count |-> s.count]

Unattributed == {<<"unattributed", entry>> : entry \in Entries}
Unmatched    == {<<"unmatched", entry>> : entry \in Entries}

-----------------------------------------------------------------------------
(***************************************************************************)
(* ProgrammingState                                                        *)
(***************************************************************************)
\* _append: the history keeps the last HISTORY_LIMIT sessions.
Appended(s, session) ==
  LET longer == Append(s.history, session)
      surplus == Len(longer) - HISTORY_LIMIT
  IN [s EXCEPT !.history = IF surplus > 0 THEN SubSeq(longer, surplus + 1, Len(longer)) ELSE longer,
               !.count = @ + 1]

\* Mutant: the claim stays.
ClosedOnly(s) ==
  IF s.claim = None THEN s
  ELSE Appended(s, [id |-> s.claim.id, attributed |-> TRUE, seen |-> s.claim.seen])

\* _close_claim
Closed(s) ==
  IF s.claim = None THEN s
  ELSE Appended([s EXCEPT !.claim = None],
                [id |-> s.claim.id, attributed |-> TRUE, seen |-> s.claim.seen])

\* Mutant: the old claim is not closed.
ClaimedOver(s, id) == [s EXCEPT !.claim = [id |-> id, seen |-> s.rp], !.unattributed = None]

\* async_claim, once the file has been read: an older claim is closed, and a
\* session that nobody had claimed belongs to this one.
Claimed(s, id) == [Closed(s) EXCEPT !.claim = [id |-> id, seen |-> s.rp], !.unattributed = None]

\* async_load: what the file says replaces what was in memory.
Loaded(s, data) ==
  IF data = None THEN s
  ELSE [s EXCEPT !.claim = data.claim, !.history = data.history, !.count = data.count]

\* The file has been read and some call has not gone on yet: it is next in line
\* at the event loop, before a new call, before the end of a write, and minutes
\* before a claim made meanwhile is old.
Resuming == loaded /\ \E app \in Apps : call[app] # "none"

\* The bound on sessions, with room left for the claims that wait for the file.
HasRoom == sessions + Cardinality({app \in Apps : call[app] = "claim"}) < MaxSessions

-----------------------------------------------------------------------------
Init ==
  /\ state = NewState /\ loaded = FALSE /\ issues = {}
  /\ call = [app \in Apps |-> "none"]
  /\ slot = None /\ writing = None /\ disk = None
  /\ sessions = 0 /\ reports = 0 /\ restarts = 0

(***************************************************************************)
(* The services                                                            *)
(***************************************************************************)
\* async_claim from the end of async_load to its save; s is the state by then.
\* The save is asked for at once and done when the Store gets to it.
Claims(app, s) ==
  /\ sessions' = sessions + 1
  /\ state' = Claimed(s, sessions + 1)
  /\ issues' = IF s.unattributed # None THEN issues \ Unattributed ELSE issues
  /\ slot' = Data(state')

\* Mutant: the issue stays.
EndUncleared(app, s) ==
  /\ state' = Closed(s)
  /\ slot' = IF s.claim = None THEN slot ELSE Data(state')
  /\ UNCHANGED <<issues, sessions>>

\* Mutant: nothing is saved.
EndUnsaved(app, s) ==
  /\ state' = Closed(s)
  /\ issues' = IF s.claim = None THEN issues ELSE issues \ Unmatched
  /\ UNCHANGED <<slot, sessions>>

\* async_end, likewise; without a claim it does nothing.
Ends(app, s) ==
  /\ state' = Closed(s)
  /\ IF s.claim = None
       THEN UNCHANGED <<issues, slot>>
       ELSE /\ issues' = issues \ Unmatched
            /\ slot' = Data(state')
  /\ UNCHANGED sessions

Serves(app, service, s) ==
  /\ loaded' = TRUE
  /\ IF service = "claim" THEN Claims(app, s) ELSE Ends(app, s)
  /\ call' = [call EXCEPT ![app] = "none"]
  /\ UNCHANGED <<writing, disk, reports, restarts>>

\* A service is called.  The file is read at the first call only; if something
\* waits to be written the Store returns that, else the call waits for the file.
Calls(app, service) ==
  /\ call[app] = "none" /\ ~Resuming
  /\ service = "claim" => HasRoom
  /\ IF loaded
       THEN Serves(app, service, state)
       ELSE IF slot # None
              THEN Serves(app, service, Loaded(state, IF slot = Live THEN Data(state) ELSE slot))
              ELSE /\ call' = [call EXCEPT ![app] = service]
                   /\ UNCHANGED <<state, loaded, issues, slot, writing, disk, counts>>

\* The file has been read.  Every call that waited for it loads the same data,
\* the second one over what the first has done since.
FileRead(app) ==
  /\ call[app] # "none"
  /\ Serves(app, call[app], Loaded(state, disk))

(***************************************************************************)
(* The panels                                                              *)
(***************************************************************************)
\* async_rp_status with a session open: the claim's, or nobody's.
ReportsConnected(entry) ==
  /\ reports < MaxReports /\ reports' = reports + 1
  /\ IF state.claim # None
       THEN /\ state' = [state EXCEPT !.rp = TRUE, !.claim.seen = TRUE]
            /\ issues' = issues \ Unmatched
            /\ UNCHANGED sessions
       ELSE IF state.unattributed # None
              THEN state' = [state EXCEPT !.rp = TRUE] /\ UNCHANGED <<issues, sessions>>
              ELSE /\ HasRoom
                   /\ sessions' = sessions + 1
                   /\ state' = [state EXCEPT !.rp = TRUE, !.unattributed = sessions + 1]
                   /\ issues' = issues \cup {<<"unattributed", entry>>}
  /\ slot' = Live
  /\ UNCHANGED <<loaded, call, writing, disk, restarts>>

\* async_rp_status with none open, for RP disconnected and for IE, of any entry.
ReportsDisconnected ==
  /\ reports < MaxReports /\ reports' = reports + 1
  /\ state' = IF state.unattributed = None THEN [state EXCEPT !.rp = FALSE]
              ELSE Appended([state EXCEPT !.rp = FALSE, !.unattributed = None],
                            [id |-> state.unattributed, attributed |-> FALSE, seen |-> TRUE])
  /\ slot' = Live
  /\ UNCHANGED <<loaded, issues, call, writing, disk, sessions, restarts>>

\* async_check_claim of a refresh, when the claim is five minutes old.
ChecksClaim(entry) ==
  /\ state.claim # None /\ ~state.claim.seen /\ ~Resuming
  /\ issues' = issues \cup {<<"unmatched", entry>>}
  /\ UNCHANGED <<state, loaded, call, slot, writing, disk, counts>>

(***************************************************************************)
(* Home Assistant: its Store, and its restarts.                            *)
(***************************************************************************)
\* One write at a time, of the latest that was asked for.
WriteStarts ==
  /\ slot # None /\ writing = None
  /\ writing' = IF slot = Live THEN Data(state) ELSE slot
  /\ slot' = None
  /\ UNCHANGED <<state, loaded, issues, call, disk, counts>>

WriteEnds ==
  /\ writing # None /\ ~Resuming
  /\ disk' = writing /\ writing' = None
  /\ UNCHANGED <<state, loaded, issues, call, slot, counts>>

\* A crash, or a stop after which nothing is left to write: the file survives,
\* the state and the issues, which are not persistent, do not.
Restarts ==
  /\ restarts < MaxRestarts /\ restarts' = restarts + 1
  /\ state' = NewState /\ loaded' = FALSE /\ issues' = {}
  /\ call' = [app \in Apps |-> "none"]
  /\ slot' = None /\ writing' = None
  /\ UNCHANGED <<disk, sessions, reports>>

-----------------------------------------------------------------------------
Next ==
  \/ \E app \in Apps : FileRead(app) \/ \E service \in {"claim", "end"} : Calls(app, service)
  \/ \E entry \in Entries : ReportsConnected(entry) \/ ChecksClaim(entry)
  \/ ReportsDisconnected
  \/ WriteStarts \/ WriteEnds
  \/ Restarts

Spec == Init /\ [][Next]_vars

\* The Store's timer and its writes, and the reading of a file, come to an end.
FairSpec == Spec /\ WF_vars(WriteStarts) /\ WF_vars(WriteEnds) /\ \A app \in Apps : WF_vars(FileRead(app))

-----------------------------------------------------------------------------
(***************************************************************************)
(* Properties.                                                             *)
(***************************************************************************)
\* The sessions a state has, running or over.
Ids(s) == {s.history[i].id : i \in DOMAIN s.history}
            \cup (IF s.claim = None THEN {} ELSE {s.claim.id})

\* A session is never in the history twice, nor both running and in it, whatever
\* is loaded over whatever: neither in memory nor in the file.
NeverTwice ==
  \A kept \in {state, disk} \ {None} :
    /\ \A i, j \in DOMAIN kept.history : kept.history[i].id = kept.history[j].id => i = j
    /\ kept.claim # None => \A i \in DOMAIN kept.history : kept.history[i].id # kept.claim.id
    /\ kept = state /\ state.unattributed # None => state.unattributed \notin Ids(state)

\* The repair issues agree with the sessions, whatever order claims, reports,
\* checks and restarts come in: while a session runs that nobody has claimed its
\* issue stands, and the issue of an unconfirmed claim stands for one only
\* (async_claim, async_end, async_rp_status, async_check_claim).
IssuesAgree ==
  /\ state.unattributed # None => issues \cap Unattributed # {}
  /\ issues \cap Unmatched # {} => state.claim # None /\ ~state.claim.seen

\* Once the file has been read, no step forgets a session: one that is running
\* goes on, or ends in the history, or is adopted by a claim that has seen the
\* panel's report; the history loses its oldest only.
NothingForgotten ==
  [][loaded /\ loaded' /\ (\A app \in Apps : call[app] = "none") =>
       /\ \A id \in Ids(state) :
            \/ id \in Ids(state')
            \/ Len(state.history) = HISTORY_LIMIT /\ state.history[1].id = id
       /\ state.unattributed # None /\ state'.unattributed = None =>
            \/ state'.claim # None /\ state'.claim.seen
            \/ \E i \in DOMAIN state'.history : state'.history[i].id = state.unattributed
    ]_vars

\* Once the Store has been asked to write the present state, the file catches up
\* with all that happens from then on, unless a restart comes first.
SavedAtLast ==
  (loaded /\ slot \in {Live, Data(state)} /\ \A app \in Apps : call[app] = "none")
     ~> (~loaded \/ disk = Data(state))

=============================================================================
