----------------------------- MODULE PanelConnect -----------------------------
(***************************************************************************)
(* How the programmer app gets the panel to itself and gives it back.  To   *)
(* connect it claims the session at the integration, disables the           *)
(* integration's config entries, which are noted in a marker file first,    *)
(* opens a transport and logs in; to disconnect, and when it has been idle, *)
(* it closes the session, enables the entries and ends the claim.  A start  *)
(* that finds a marker enables its entries before anything is served.       *)
(*                                                                          *)
(* Every call to Home Assistant or the panel is an await.  A call is        *)
(* answered, or refused by a HomeAssistantError or SessionError, which the  *)
(* code handles, or broken by an exception of a library, which it does not. *)
(***************************************************************************)
EXTENDS FiniteSets, Naturals

CONSTANTS
  Requests,    \* HTTP requests that connect or disconnect
  App,         \* the app's own task: its start, then the idle watch
  Entries,     \* config entries of the integration
  Conns,       \* transports
  None,        \* no session, no transport
  Overlapping, \* may an activity begin while another one is under way?
  MaxFaults,   \* bound on calls that are refused or broken
  MaxLosses,   \* bound on connections that die
  MaxRestarts  \* bound on the app's ends

ASSUME PanelConnectAssumption ==
  /\ App \notin Requests /\ None \notin Conns
  /\ IsFiniteSet(Conns) /\ Overlapping \in BOOLEAN
  /\ MaxFaults \in Nat /\ MaxLosses \in Nat /\ MaxRestarts \in Nat

Activities == Requests \cup {App}

VARIABLES
  enabled,  \* Home Assistant: the entries that are enabled
  claim,    \* Home Assistant: is there a claim of the app?
  marker,   \* session_open.json: the entries in it, none if there is no file
  session,  \* state.session, by its transport
  open,     \* transports that have not been closed
  dead,     \* transports whose other end is gone
  at,       \* where each activity is suspended
  todo,     \* the entries of an activity's loop that are left
  done,     \* those that have been disabled, or could not be enabled
  conn,     \* the transport an activity logs in on or closes
  up,       \* does the app run?
  faults, losses, restarts \* bookkeeping

loop   == <<at, todo, done>>
counts == <<faults, losses, restarts>>
vars   == <<enabled, claim, marker, session, open, dead, loop, conn, up, counts>>

Places == {"idle", "claim", "list", "disable", "undo", "open", "login", "close", "restore", "end",
           "boot", "stop", "over"}

Init ==
  /\ enabled = Entries /\ claim = FALSE /\ marker = {}
  /\ session = None /\ open = {} /\ dead = {}
  /\ at = [a \in Activities |-> "idle"]
  /\ todo = [a \in Activities |-> {}] /\ done = [a \in Activities |-> {}]
  /\ conn = [a \in Activities |-> None]
  /\ up = TRUE /\ faults = 0 /\ losses = 0 /\ restarts = 0

-----------------------------------------------------------------------------
(***************************************************************************)
(* Steps that several activities share.                                    *)
(***************************************************************************)
Loops(a, place, items) ==
  /\ at' = [at EXCEPT ![a] = place]
  /\ todo' = [todo EXCEPT ![a] = items]
  /\ done' = [done EXCEPT ![a] = {}]
Goes(a, place) == Loops(a, place, {})

Fault == faults < MaxFaults /\ faults' = faults + 1

\* An exception that nobody catches: a request is answered by an error, and the
\* idle watch, which nobody restarts, is over.
Breaks(a) ==
  /\ Fault
  /\ Goes(a, IF a = App THEN "over" ELSE "idle")

\* Mutant: the marker goes before the entries are back.
RestoresForgetting(a) ==
  /\ IF marker = {} THEN Goes(a, "end") ELSE Loops(a, "restore", marker)
  /\ marker' = {}

\* _restore_integration up to its first call
Restores(a) ==
  /\ IF marker = {} THEN Goes(a, "end") ELSE Loops(a, "restore", marker)
  /\ UNCHANGED marker

\* Nothing is served before the start is complete.
Ready(a) ==
  /\ up /\ at[a] = "idle" /\ at[App] # "boot"
  /\ ~Overlapping => \A b \in Activities : at[b] \in {"idle", "over"}

-----------------------------------------------------------------------------
(***************************************************************************)
(* panel_connect                                                           *)
(***************************************************************************)
Connects(r) ==
  /\ Ready(r) /\ session = None
  /\ Goes(r, "claim")
  /\ UNCHANGED <<enabled, claim, marker, session, open, dead, conn, up, counts>>

\* _claim_session: a refused claim is no reason not to go on.
ClaimAnswered(r) ==
  /\ at[r] = "claim"
  /\ \/ Goes(r, "list") /\ claim' = TRUE /\ UNCHANGED faults
     \/ Goes(r, "list") /\ Fault /\ UNCHANGED claim
     \/ Breaks(r) /\ claim' \in {claim, TRUE}
  /\ UNCHANGED <<enabled, marker, session, open, dead, conn, up, losses, restarts>>

\* release: the entries that are enabled now go into the marker.
ListAnswered(r) ==
  /\ at[r] = "list"
  /\ \/ /\ IF enabled = {} THEN Goes(r, "open") /\ UNCHANGED marker
           ELSE Loops(r, "disable", enabled) /\ marker' = enabled
        /\ UNCHANGED faults
     \/ Goes(r, "end") /\ Fault /\ UNCHANGED marker
     \/ Breaks(r) /\ UNCHANGED marker
  /\ UNCHANGED <<enabled, claim, session, open, dead, conn, up, losses, restarts>>

Disables(r, e) ==
  /\ at[r] = "disable" /\ e \in todo[r]
  /\ enabled' = enabled \ {e} /\ UNCHANGED faults
  /\ todo' = [todo EXCEPT ![r] = @ \ {e}] /\ done' = [done EXCEPT ![r] = @ \cup {e}]
  /\ at' = [at EXCEPT ![r] = IF todo[r] = {e} THEN "open" ELSE @]
  /\ UNCHANGED <<claim, marker, session, open, dead, conn, up, losses, restarts>>

\* Mutant: a refusal does not undo anything.
RefusalIgnored(r) ==
  /\ at[r] = "disable" /\ Fault
  /\ Goes(r, "open")
  /\ UNCHANGED <<enabled, claim, marker, session, open, dead, conn, up, losses, restarts>>

\* release: what was disabled so far is put back.
DisableRefused(r) ==
  /\ at[r] = "disable" /\ Fault
  /\ IF done[r] = {} THEN Goes(r, "end") /\ marker' = {}
     ELSE Loops(r, "undo", done[r]) /\ UNCHANGED marker
  /\ UNCHANGED <<enabled, claim, session, open, dead, conn, up, losses, restarts>>

DisableBroken(r, e) ==
  /\ at[r] = "disable" /\ e \in todo[r]
  /\ Breaks(r) /\ enabled' \in {enabled, enabled \ {e}}
  /\ UNCHANGED <<claim, marker, session, open, dead, conn, up, losses, restarts>>

\* release: whatever comes of putting back, the marker is removed.
Undoes(r, e) ==
  /\ at[r] = "undo" /\ e \in todo[r]
  /\ \/ enabled' = enabled \cup {e} /\ UNCHANGED faults
     \/ Fault /\ UNCHANGED enabled
  /\ todo' = [todo EXCEPT ![r] = @ \ {e}] /\ UNCHANGED done
  /\ IF todo[r] = {e} THEN at' = [at EXCEPT ![r] = "end"] /\ marker' = {}
     ELSE UNCHANGED <<at, marker>>
  /\ UNCHANGED <<claim, session, open, dead, conn, up, losses, restarts>>

UndoBroken(r) ==
  /\ at[r] = "undo"
  /\ Breaks(r) /\ \E e \in todo[r] : enabled' \in {enabled, enabled \cup {e}}
  /\ UNCHANGED <<claim, marker, session, open, dead, conn, up, losses, restarts>>

Opens(r, c) ==
  /\ at[r] = "open" /\ c \notin open /\ \A a \in Activities : conn[a] # c
  /\ open' = open \cup {c} /\ conn' = [conn EXCEPT ![r] = c]
  /\ Goes(r, "login")
  /\ UNCHANGED <<enabled, claim, marker, session, dead, up, counts>>

\* An OSError, the one exception that is caught here.
OpenFails(r) ==
  /\ at[r] = "open"
  /\ Restores(r)
  /\ UNCHANGED <<enabled, claim, session, open, dead, conn, up, counts>>

LogsIn(r) ==
  /\ at[r] = "login" /\ conn[r] \notin dead
  /\ session' = conn[r] /\ conn' = [conn EXCEPT ![r] = None]
  /\ Goes(r, "idle")
  /\ UNCHANGED <<enabled, claim, marker, open, dead, up, counts>>

\* A SessionError: no answer, or a code that the panel does not take.
LoginRefused(r) ==
  /\ at[r] = "login"
  /\ open' = open \ {conn[r]} /\ dead' = dead \ {conn[r]} /\ conn' = [conn EXCEPT ![r] = None]
  /\ Restores(r)
  /\ UNCHANGED <<enabled, claim, session, up, counts>>

\* A connection that is gone, or a reply too short to be parsed.
LoginBroken(r) ==
  /\ at[r] = "login"
  /\ Breaks(r) /\ conn' = [conn EXCEPT ![r] = None]
  /\ UNCHANGED <<enabled, claim, marker, session, open, dead, up, losses, restarts>>

-----------------------------------------------------------------------------
(***************************************************************************)
(* panel_disconnect, _idle_watch and _lifespan                             *)
(***************************************************************************)
CloseBegins(a) ==
  IF session = None
    THEN Restores(a) /\ UNCHANGED conn
    ELSE Goes(a, "close") /\ conn' = [conn EXCEPT ![a] = session] /\ UNCHANGED marker

\* A disconnect, or the idle watch after half a minute's sleep too many.
Ends(a) ==
  /\ Ready(a)
  /\ CloseBegins(a)
  /\ UNCHANGED <<enabled, claim, session, open, dead, up, counts>>

\* Mutant: nothing is restored.
ClosesOnly(a) ==
  /\ at[a] = "close" /\ conn[a] \in open
  /\ open' = open \ {conn[a]} /\ dead' = dead \ {conn[a]} /\ conn' = [conn EXCEPT ![a] = None]
  /\ session' = None
  /\ Goes(a, "end") /\ UNCHANGED marker
  /\ UNCHANGED <<enabled, claim, up, counts>>

\* Session.close: a panel that does not answer is no obstacle.
Closes(a) ==
  /\ at[a] = "close" /\ conn[a] \in open
  /\ open' = open \ {conn[a]} /\ dead' = dead \ {conn[a]} /\ conn' = [conn EXCEPT ![a] = None]
  /\ session' = None
  /\ Restores(a)
  /\ UNCHANGED <<enabled, claim, up, counts>>

\* A connection that is gone raises an OSError: the session stays.
CloseBroken(a) ==
  /\ at[a] = "close" /\ (conn[a] \notin open \/ conn[a] \in dead)
  /\ Goes(a, IF a = App THEN "over" ELSE "idle") /\ conn' = [conn EXCEPT ![a] = None]
  /\ UNCHANGED <<enabled, claim, marker, session, open, dead, up, counts>>

\* restore: all entries of the marker are tried; those that failed are the new one.
Enables(a, e) ==
  /\ at[a] \in {"restore", "boot"} /\ e \in todo[a]
  /\ \/ enabled' = enabled \cup {e} /\ UNCHANGED <<faults, done>>
     \/ Fault /\ done' = [done EXCEPT ![a] = @ \cup {e}] /\ UNCHANGED enabled
  /\ todo' = [todo EXCEPT ![a] = @ \ {e}]
  /\ IF todo[a] = {e}
       THEN /\ marker' = done'[a]
            /\ at' = [at EXCEPT ![a] = IF at[a] = "boot" THEN "idle" ELSE "end"]
       ELSE UNCHANGED <<marker, at>>
  /\ UNCHANGED <<claim, session, open, dead, conn, up, losses, restarts>>

EnableBroken(a) ==
  /\ at[a] \in {"restore", "boot"}
  /\ \E e \in todo[a] : enabled' \in {enabled, enabled \cup {e}}
  /\ IF at[a] = "restore" THEN Breaks(a) /\ UNCHANGED up
     ELSE Fault /\ Goes(a, "idle") /\ up' = FALSE
  /\ UNCHANGED <<claim, marker, session, open, dead, conn, losses, restarts>>

\* _end_claim; the idle watch then asks the Supervisor to stop the app.
EndAnswered(a) ==
  /\ at[a] = "end"
  /\ \/ claim' = FALSE /\ UNCHANGED faults /\ Goes(a, IF a = App THEN "stop" ELSE "idle")
     \/ UNCHANGED claim /\ Fault /\ Goes(a, IF a = App THEN "stop" ELSE "idle")
     \/ claim' \in {claim, FALSE} /\ Breaks(a)
  /\ UNCHANGED <<enabled, marker, session, open, dead, conn, up, losses, restarts>>

\* The app is stopped by the Supervisor, or dies.
GoesDown ==
  /\ up /\ restarts < MaxRestarts /\ restarts' = restarts + 1
  /\ up' = FALSE /\ session' = None /\ open' = {} /\ dead' = {}
  /\ at' = [a \in Activities |-> "idle"] /\ conn' = [a \in Activities |-> None]
  /\ todo' = [a \in Activities |-> {}] /\ done' = [a \in Activities |-> {}]
  /\ UNCHANGED <<enabled, claim, marker, faults, losses>>

\* _lifespan: what an earlier run has left disabled comes first.
Starts ==
  /\ ~up /\ up' = TRUE
  /\ IF marker = {} THEN UNCHANGED loop ELSE Loops(App, "boot", marker)
  /\ UNCHANGED <<enabled, claim, marker, session, open, dead, conn, counts>>

\* The other end of a connection goes away.
LineDies(c) ==
  /\ c \in open \ dead /\ losses < MaxLosses /\ losses' = losses + 1
  /\ dead' = dead \cup {c}
  /\ UNCHANGED <<enabled, claim, marker, session, open, loop, conn, up, faults, restarts>>

-----------------------------------------------------------------------------
ConnectSteps(r) ==
  \/ ClaimAnswered(r) \/ ListAnswered(r)
  \/ \E e \in Entries : Disables(r, e) \/ DisableBroken(r, e) \/ Undoes(r, e)
  \/ DisableRefused(r) \/ UndoBroken(r)
  \/ \E c \in Conns : Opens(r, c)
  \/ OpenFails(r) \/ LogsIn(r) \/ LoginRefused(r) \/ LoginBroken(r)

EndSteps(a) ==
  \/ Closes(a) \/ CloseBroken(a)
  \/ \E e \in Entries : Enables(a, e)
  \/ EnableBroken(a) \/ EndAnswered(a)

Next ==
  \/ \E r \in Requests : Connects(r) \/ ConnectSteps(r)
  \/ \E a \in Activities : Ends(a) \/ EndSteps(a)
  \/ GoesDown \/ Starts
  \/ \E c \in Conns : LineDies(c)

Spec == Init /\ [][Next]_vars

\* Every call comes back, one way or another; nobody need connect or start the app.
FairSpec ==
  /\ Spec
  /\ \A r \in Requests : WF_vars(ConnectSteps(r))
  /\ \A a \in Activities : WF_vars(EndSteps(a))

-----------------------------------------------------------------------------
(***************************************************************************)
(* Properties.                                                             *)
(***************************************************************************)
\* Every variable keeps its type; a loop under way has something left to do.
TypeOK ==
  /\ enabled \subseteq Entries /\ marker \subseteq Entries /\ claim \in BOOLEAN
  /\ session \in Conns \cup {None} /\ open \subseteq Conns /\ dead \subseteq open
  /\ at \in [Activities -> Places]
  /\ todo \in [Activities -> SUBSET Entries] /\ done \in [Activities -> SUBSET Entries]
  /\ conn \in [Activities -> Conns \cup {None}]
  /\ up \in BOOLEAN
  /\ faults \in 0..MaxFaults /\ losses \in 0..MaxLosses /\ restarts \in 0..MaxRestarts
  /\ \A a \in Activities :
       /\ at[a] \in {"disable", "undo", "restore", "boot"} => todo[a] # {}
       /\ at[a] \in {"login", "close"} <=> conn[a] # None

\* While the app has a session, no entry of the integration is enabled, whatever
\* failed before.
HandedOver == session # None => enabled = {}

\* As long as Home Assistant answers, an entry that is disabled is in the marker: a
\* crash at any moment is repaired by the next start.
CrashIsRepaired == faults = 0 => Entries \ enabled \subseteq marker

\* Whatever overlapped before, a start forgets no entry that the marker names: each is
\* enabled by the time it leaves the marker, though calls fail or the app dies again.
StartRepairs ==
  [][at[App] = "boot" => enabled \subseteq enabled' /\ marker \ marker' \subseteq enabled']_vars

\* Closing a session and starting after a crash get the entries enabled at last,
\* unless Home Assistant fails, the connection dies or the app does.
RestoredAtLast ==
  \A a \in Activities :
    at[a] \in {"close", "restore", "boot"}
      ~> (enabled = Entries \/ faults > 0 \/ losses > 0 \/ ~up)

=============================================================================
