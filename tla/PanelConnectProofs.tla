-------------------------- MODULE PanelConnectProofs --------------------------
(***************************************************************************)
(* What holds of PanelConnect for any entries, transports, requests and     *)
(* numbers of failures, and however activities overlap: types, and what a   *)
(* start repairs.                                                          *)
(***************************************************************************)
EXTENDS PanelConnect, TLAPS

USE PanelConnectAssumption DEF Activities

FlagsOK == claim \in BOOLEAN /\ up \in BOOLEAN

NumbersOK == faults \in 0..MaxFaults /\ losses \in 0..MaxLosses /\ restarts \in 0..MaxRestarts

DataOK ==
  /\ enabled \subseteq Entries /\ marker \subseteq Entries
  /\ session \in Conns \cup {None} /\ open \subseteq Conns /\ dead \subseteq open
  /\ at \in [Activities -> Places]
  /\ todo \in [Activities -> SUBSET Entries] /\ done \in [Activities -> SUBSET Entries]
  /\ conn \in [Activities -> Conns \cup {None}]
  /\ \A a \in Activities :
       /\ at[a] \in {"disable", "undo", "restore", "boot"} => todo[a] # {}
       /\ at[a] \in {"login", "close"} <=> conn[a] # None

\* Nobody else is at work while the app is down or starts.
BootOK ==
  /\ \A r \in Requests : at[r] # "boot"
  /\ ~up => at[App] = "idle"
  /\ ~up \/ at[App] = "boot" => \A r \in Requests : at[r] = "idle"

\* While a start repairs, what the marker names is enabled, or left to do, or has
\* been tried and goes into the new marker.
StartInv == at[App] = "boot" => marker \ enabled \subseteq todo[App] \cup done[App]

-----------------------------------------------------------------------------
(***************************************************************************)
(* Types.                                                                  *)
(***************************************************************************)
LEMMA FlagsInvariant == FlagsOK /\ [Next]_vars => FlagsOK'
<1> SUFFICES ASSUME FlagsOK, [Next]_vars PROVE FlagsOK'
  OBVIOUS
<1> USE DEF FlagsOK
<1>1. ASSUME NEW r \in Requests, Connects(r) PROVE FlagsOK'
  BY <1>1, Zenon DEF Connects, Ready
<1>2. ASSUME NEW r \in Requests, ClaimAnswered(r) PROVE FlagsOK'
  BY <1>2, Zenon DEF ClaimAnswered, Breaks
<1>3. ASSUME NEW r \in Requests, ListAnswered(r) PROVE FlagsOK'
  BY <1>3, Zenon DEF ListAnswered, Breaks
<1>4. ASSUME NEW r \in Requests, NEW e \in Entries, Disables(r, e) PROVE FlagsOK'
  BY <1>4, Zenon DEF Disables
<1>5. ASSUME NEW r \in Requests, NEW e \in Entries, DisableBroken(r, e) PROVE FlagsOK'
  BY <1>5, Zenon DEF DisableBroken, Breaks
<1>6. ASSUME NEW r \in Requests, NEW e \in Entries, Undoes(r, e) PROVE FlagsOK'
  BY <1>6, Zenon DEF Undoes
<1>7. ASSUME NEW r \in Requests, DisableRefused(r) \/ UndoBroken(r) PROVE FlagsOK'
  BY <1>7, Zenon DEF DisableRefused, UndoBroken, Breaks
<1>8. ASSUME NEW r \in Requests, NEW c \in Conns, Opens(r, c) PROVE FlagsOK'
  BY <1>8, Zenon DEF Opens
<1>9. ASSUME NEW r \in Requests, OpenFails(r) \/ LogsIn(r) PROVE FlagsOK'
  BY <1>9, Zenon DEF OpenFails, LogsIn, Restores
<1>10. ASSUME NEW r \in Requests, LoginRefused(r) \/ LoginBroken(r) PROVE FlagsOK'
  BY <1>10, Zenon DEF LoginRefused, LoginBroken, Restores, Breaks
<1>11. ASSUME NEW a \in Activities, Ends(a) PROVE FlagsOK'
  BY <1>11, Zenon DEF Ends, CloseBegins, Ready, Restores
<1>12. ASSUME NEW a \in Activities, Closes(a) \/ CloseBroken(a) PROVE FlagsOK'
  BY <1>12, Zenon DEF Closes, CloseBroken, Restores
<1>13. ASSUME NEW a \in Activities, NEW e \in Entries, Enables(a, e) PROVE FlagsOK'
  BY <1>13, Zenon DEF Enables
<1>14. ASSUME NEW a \in Activities, EnableBroken(a) PROVE FlagsOK'
  BY <1>14, Zenon DEF EnableBroken, Breaks
<1>15. ASSUME NEW a \in Activities, EndAnswered(a) PROVE FlagsOK'
  BY <1>15, Zenon DEF EndAnswered, Breaks
<1>16. CASE GoesDown
  BY <1>16, Zenon DEF GoesDown
<1>17. CASE Starts
  BY <1>17, Zenon DEF Starts
<1>18. ASSUME NEW c \in Conns, LineDies(c) PROVE FlagsOK'
  BY <1>18, Zenon DEF LineDies
<1>19. CASE UNCHANGED vars
  BY <1>19, Zenon DEF vars
<1> QED
  BY <1>1, <1>2, <1>3, <1>4, <1>5, <1>6, <1>7, <1>8, <1>9, <1>10,
     <1>11, <1>12, <1>13, <1>14, <1>15, <1>16, <1>17, <1>18, <1>19
  DEF Next, ConnectSteps, EndSteps

LEMMA NumbersInvariant == NumbersOK /\ [Next]_vars => NumbersOK'
<1> SUFFICES ASSUME NumbersOK, [Next]_vars PROVE NumbersOK'
  OBVIOUS
<1> USE DEF NumbersOK, Fault, counts
<1>1. ASSUME NEW r \in Requests, Connects(r) PROVE NumbersOK'
  BY <1>1 DEF Connects, Ready
<1>2. ASSUME NEW r \in Requests, ClaimAnswered(r) PROVE NumbersOK'
  <2>1. UNCHANGED <<losses, restarts>> /\ (UNCHANGED faults \/ Fault)
    BY <1>2, Zenon DEF ClaimAnswered, Breaks
  <2> QED
    BY <2>1
<1>3. ASSUME NEW r \in Requests, ListAnswered(r) PROVE NumbersOK'
  BY <1>3 DEF ListAnswered, Breaks
<1>4. ASSUME NEW r \in Requests, NEW e \in Entries, Disables(r, e) PROVE NumbersOK'
  BY <1>4 DEF Disables
<1>5. ASSUME NEW r \in Requests, NEW e \in Entries, DisableBroken(r, e) PROVE NumbersOK'
  BY <1>5 DEF DisableBroken, Breaks
<1>6. ASSUME NEW r \in Requests, NEW e \in Entries, Undoes(r, e) PROVE NumbersOK'
  BY <1>6 DEF Undoes
<1>7. ASSUME NEW r \in Requests, DisableRefused(r) \/ UndoBroken(r) PROVE NumbersOK'
  BY <1>7 DEF DisableRefused, UndoBroken, Breaks
<1>8. ASSUME NEW r \in Requests, NEW c \in Conns, Opens(r, c) PROVE NumbersOK'
  BY <1>8 DEF Opens
<1>9. ASSUME NEW r \in Requests, OpenFails(r) \/ LogsIn(r) PROVE NumbersOK'
  BY <1>9 DEF OpenFails, LogsIn, Restores
<1>10. ASSUME NEW r \in Requests, LoginRefused(r) \/ LoginBroken(r) PROVE NumbersOK'
  BY <1>10 DEF LoginRefused, LoginBroken, Restores, Breaks
<1>11. ASSUME NEW a \in Activities, Ends(a) PROVE NumbersOK'
  BY <1>11 DEF Ends, CloseBegins, Ready, Restores
<1>12. ASSUME NEW a \in Activities, Closes(a) \/ CloseBroken(a) PROVE NumbersOK'
  BY <1>12 DEF Closes, CloseBroken, Restores
<1>13. ASSUME NEW a \in Activities, NEW e \in Entries, Enables(a, e) PROVE NumbersOK'
  BY <1>13 DEF Enables
<1>14. ASSUME NEW a \in Activities, EnableBroken(a) PROVE NumbersOK'
  BY <1>14 DEF EnableBroken, Breaks
<1>15. ASSUME NEW a \in Activities, EndAnswered(a) PROVE NumbersOK'
  <2>1. UNCHANGED <<losses, restarts>> /\ (UNCHANGED faults \/ Fault)
    BY <1>15, Zenon DEF EndAnswered, Breaks
  <2> QED
    BY <2>1
<1>16. CASE GoesDown
  BY <1>16 DEF GoesDown
<1>17. CASE Starts
  BY <1>17 DEF Starts
<1>18. ASSUME NEW c \in Conns, LineDies(c) PROVE NumbersOK'
  BY <1>18 DEF LineDies
<1>19. CASE UNCHANGED vars
  BY <1>19 DEF vars
<1> QED
  BY <1>1, <1>2, <1>3, <1>4, <1>5, <1>6, <1>7, <1>8, <1>9, <1>10,
     <1>11, <1>12, <1>13, <1>14, <1>15, <1>16, <1>17, <1>18, <1>19
  DEF Next, ConnectSteps, EndSteps

\* A call to enable an entry that fails is a fault that ends the activity; the
\* app, which makes the calls before it serves, is then down.
LEMMA EnableFault ==
  ASSUME NEW a \in Activities, EnableBroken(a)
  PROVE  /\ Fault
         /\ \E e \in todo[a] : enabled' \in {enabled, enabled \cup {e}}
         /\ \/ at[a] = "restore" /\ Goes(a, IF a = App THEN "over" ELSE "idle") /\ UNCHANGED up
            \/ at[a] = "boot" /\ Goes(a, "idle") /\ up' = FALSE
         /\ UNCHANGED <<claim, marker, session, open, dead, conn, losses, restarts>>
<1> HIDE DEF Fault, Goes
<1>1. CASE at[a] = "restore"
  BY <1>1, Zenon DEF EnableBroken, Breaks
<1>2. CASE at[a] # "restore"
  BY <1>2, Zenon DEF EnableBroken
<1> QED
  BY <1>1, <1>2

LEMMA BootInvariant == DataOK /\ BootOK /\ [Next]_vars => BootOK'
<1> SUFFICES ASSUME DataOK, BootOK, [Next]_vars PROVE BootOK'
  OBVIOUS
<1> USE DEF DataOK, BootOK, Loops, Goes, loop
<1>1. ASSUME NEW r \in Requests, Connects(r) PROVE BootOK'
  BY <1>1 DEF Connects, Ready
<1>2. ASSUME NEW r \in Requests, ClaimAnswered(r) PROVE BootOK'
  BY <1>2, ZenonT(60) DEF ClaimAnswered, Breaks
<1>3. ASSUME NEW r \in Requests, ListAnswered(r) PROVE BootOK'
  BY <1>3 DEF ListAnswered, Breaks
<1>4. ASSUME NEW r \in Requests, NEW e \in Entries, Disables(r, e) PROVE BootOK'
  BY <1>4 DEF Disables
<1>5. ASSUME NEW r \in Requests, NEW e \in Entries, DisableBroken(r, e) PROVE BootOK'
  BY <1>5 DEF DisableBroken, Breaks
<1>6. ASSUME NEW r \in Requests, NEW e \in Entries, Undoes(r, e) PROVE BootOK'
  BY <1>6 DEF Undoes
<1>7. ASSUME NEW r \in Requests, DisableRefused(r) \/ UndoBroken(r) PROVE BootOK'
  BY <1>7 DEF DisableRefused, UndoBroken, Breaks
<1>8. ASSUME NEW r \in Requests, NEW c \in Conns, Opens(r, c) PROVE BootOK'
  BY <1>8 DEF Opens
<1>9. ASSUME NEW r \in Requests, OpenFails(r) \/ LogsIn(r) PROVE BootOK'
  BY <1>9 DEF OpenFails, LogsIn, Restores
<1>10. ASSUME NEW r \in Requests, LoginRefused(r) \/ LoginBroken(r) PROVE BootOK'
  BY <1>10 DEF LoginRefused, LoginBroken, Restores, Breaks
<1>11. ASSUME NEW a \in Activities, Ends(a) PROVE BootOK'
  BY <1>11 DEF Ends, CloseBegins, Ready, Restores
<1>12. ASSUME NEW a \in Activities, Closes(a) \/ CloseBroken(a) PROVE BootOK'
  BY <1>12 DEF Closes, CloseBroken, Restores
<1>13. ASSUME NEW a \in Activities, NEW e \in Entries, Enables(a, e) PROVE BootOK'
  BY <1>13 DEF Enables
<1>14. ASSUME NEW a \in Activities, EnableBroken(a) PROVE BootOK'
  <2>1. CASE at[a] = "restore" /\ Goes(a, IF a = App THEN "over" ELSE "idle") /\ UNCHANGED up
    BY <2>1
  <2>2. CASE at[a] = "boot" /\ Goes(a, "idle")
    <3>1. a = App /\ \A r \in Requests : at[r] = "idle"
      BY <2>2
    <3> QED
      BY <2>2, <3>1
  <2> HIDE DEF Goes, BootOK, DataOK
  <2> QED
    BY <1>14, <2>1, <2>2, EnableFault, Zenon
<1>15. ASSUME NEW a \in Activities, EndAnswered(a) PROVE BootOK'
  <2>1. /\ at[a] = "end" /\ UNCHANGED up
        /\ \E place \in {"stop", "idle", "over"} : Goes(a, place) /\ (a # App => place = "idle")
    <3> HIDE DEF Goes, BootOK, DataOK
    <3> QED
      BY <1>15, Zenon DEF EndAnswered, Breaks
  <2>2. \A b \in Activities : at'[b] = at[b] \/ (b = a /\ at'[b] \in {"stop", "idle", "over"})
    <3>1. PICK place \in {"stop", "idle", "over"} : at' = [at EXCEPT ![a] = place]
      BY <2>1, Zenon
    <3>2. at \in [Activities -> Places]
      BY Zenon
    <3> HIDE DEF BootOK, DataOK, Goes, Loops, Places
    <3>3. at'[a] = place /\ \A b \in Activities : b # a => at'[b] = at[b]
      BY <3>1, <3>2
    <3> QED
      BY <3>3
  <2>3. up /\ at[App] # "boot" => at'[App] # "boot"
    BY <2>2
  <2> QED
    BY <2>1, <2>2, <2>3
<1>16. CASE GoesDown
  BY <1>16 DEF GoesDown
<1>17. CASE Starts
  BY <1>17 DEF Starts
<1>18. ASSUME NEW c \in Conns, LineDies(c) PROVE BootOK'
  BY <1>18 DEF LineDies
<1>19. CASE UNCHANGED vars
  BY <1>19 DEF vars
<1> QED
  BY <1>1, <1>2, <1>3, <1>4, <1>5, <1>6, <1>7, <1>8, <1>9, <1>10,
     <1>11, <1>12, <1>13, <1>14, <1>15, <1>16, <1>17, <1>18, <1>19
  DEF Next, ConnectSteps, EndSteps

LEMMA DataInvariant == DataOK /\ BootOK /\ [Next]_vars => DataOK'
<1> SUFFICES ASSUME DataOK, BootOK, [Next]_vars PROVE DataOK'
  OBVIOUS
<1> USE DEF DataOK, Places, Loops, Goes, loop
<1>1. ASSUME NEW r \in Requests, Connects(r) PROVE DataOK'
  BY <1>1 DEF Connects, Ready
<1>2. ASSUME NEW r \in Requests, ClaimAnswered(r) PROVE DataOK'
  BY <1>2, ZenonT(60) DEF ClaimAnswered, Breaks
<1>3. ASSUME NEW r \in Requests, ListAnswered(r) PROVE DataOK'
  BY <1>3 DEF ListAnswered, Breaks
<1>4. ASSUME NEW r \in Requests, NEW e \in Entries, Disables(r, e) PROVE DataOK'
  BY <1>4 DEF Disables
<1>5. ASSUME NEW r \in Requests, NEW e \in Entries, DisableBroken(r, e) PROVE DataOK'
  BY <1>5 DEF DisableBroken, Breaks
<1>6. ASSUME NEW r \in Requests, NEW e \in Entries, Undoes(r, e) PROVE DataOK'
  BY <1>6 DEF Undoes
<1>7. ASSUME NEW r \in Requests, DisableRefused(r) \/ UndoBroken(r) PROVE DataOK'
  BY <1>7 DEF DisableRefused, UndoBroken, Breaks
<1>8. ASSUME NEW r \in Requests, NEW c \in Conns, Opens(r, c) PROVE DataOK'
  BY <1>8 DEF Opens
<1>9. ASSUME NEW r \in Requests, OpenFails(r) \/ LogsIn(r) PROVE DataOK'
  BY <1>9 DEF OpenFails, LogsIn, Restores
<1>10. ASSUME NEW r \in Requests, LoginRefused(r) \/ LoginBroken(r) PROVE DataOK'
  BY <1>10 DEF LoginRefused, LoginBroken, Restores, Breaks
<1>11. ASSUME NEW a \in Activities, Ends(a) PROVE DataOK'
  BY <1>11 DEF Ends, CloseBegins, Ready, Restores
<1>12. ASSUME NEW a \in Activities, Closes(a) \/ CloseBroken(a) PROVE DataOK'
  BY <1>12 DEF Closes, CloseBroken, Restores
<1>13. ASSUME NEW a \in Activities, NEW e \in Entries, Enables(a, e) PROVE DataOK'
  BY <1>13 DEF Enables
<1>14. ASSUME NEW a \in Activities, EnableBroken(a) PROVE DataOK'
  <2>1. PICK place \in {"idle", "over"} : Goes(a, place)
    <3> HIDE DEF Goes
    <3> QED
      BY <1>14, EnableFault, Zenon
  <2>2. at[a] \in {"restore", "boot"} /\ conn[a] = None
    BY <1>14, EnableFault
  <2>3. at' \in [Activities -> Places] /\ at'[a] = place /\ \A b \in Activities : b # a => at'[b] = at[b]
    BY <2>1
  <2>4. /\ todo' \in [Activities -> SUBSET Entries] /\ done' \in [Activities -> SUBSET Entries]
        /\ \A b \in Activities : b # a => todo'[b] = todo[b]
    BY <2>1
  <2>5. enabled' \subseteq Entries /\ UNCHANGED <<marker, session, open, dead, conn>>
    <3>1. /\ \E e \in todo[a] : enabled' \in {enabled, enabled \cup {e}}
          /\ UNCHANGED <<marker, session, open, dead, conn>>
      BY <1>14, EnableFault, Zenon
    <3>2. todo[a] \subseteq Entries
      OBVIOUS
    <3> HIDE DEF Places, Goes, Loops
    <3> QED
      BY <3>1, <3>2
  <2> QED
    BY <2>2, <2>3, <2>4, <2>5
<1>15. ASSUME NEW a \in Activities, EndAnswered(a) PROVE DataOK'
  BY <1>15, ZenonT(60) DEF EndAnswered, Breaks
<1>16. CASE GoesDown
  BY <1>16 DEF GoesDown
<1>17. CASE Starts
  <2>1. at[App] = "idle"
    BY <1>17, Zenon DEF Starts, BootOK
  <2>2. UNCHANGED <<enabled, marker, session, open, dead, conn>>
    BY <1>17, Zenon DEF Starts
  <2>4. CASE marker = {}
    <3>1. UNCHANGED <<at, todo, done>>
      BY <1>17, <2>4, Zenon DEF Starts
    <3> QED
      BY <2>2, <3>1
  <2>3. CASE marker # {}
    <3>1. Loops(App, "boot", marker)
      BY <1>17, <2>3, Zenon DEF Starts
    <3> QED
      BY <2>1, <2>2, <2>3, <3>1
  <2> QED
    BY <2>3, <2>4
<1>18. ASSUME NEW c \in Conns, LineDies(c) PROVE DataOK'
  BY <1>18 DEF LineDies
<1>19. CASE UNCHANGED vars
  BY <1>19 DEF vars
<1> QED
  BY <1>1, <1>2, <1>3, <1>4, <1>5, <1>6, <1>7, <1>8, <1>9, <1>10,
     <1>11, <1>12, <1>13, <1>14, <1>15, <1>16, <1>17, <1>18, <1>19
  DEF Next, ConnectSteps, EndSteps

LEMMA InitTypes == Init => FlagsOK /\ NumbersOK /\ DataOK /\ BootOK
<1> SUFFICES ASSUME Init PROVE FlagsOK /\ NumbersOK /\ DataOK /\ BootOK
  OBVIOUS
<1>1. FlagsOK
  BY Zenon DEF Init, FlagsOK
<1>2. NumbersOK
  BY DEF Init, NumbersOK
<1>3. DataOK
  BY DEF Init, DataOK, Places
<1>4. BootOK
  BY Zenon DEF Init, BootOK
<1> QED
  BY <1>1, <1>2, <1>3, <1>4

\* Every variable keeps its type (TypeOK): a loop over entries that is under way has
\* some left, and exactly who logs in or closes holds a transport.
THEOREM TypeCorrect == Spec => []TypeOK
<1>1. FlagsOK /\ NumbersOK /\ DataOK => TypeOK
  BY DEF FlagsOK, NumbersOK, DataOK, TypeOK
<1> QED
  BY <1>1, InitTypes, FlagsInvariant, NumbersInvariant, BootInvariant, DataInvariant, PTL DEF Spec

-----------------------------------------------------------------------------
(***************************************************************************)
(* What a start repairs.                                                   *)
(***************************************************************************)
\* While a start repairs nobody else is at work: a step is an answer to one of its
\* calls, or leaves the entries, the marker and the loop as they are, or ends it.
LEMMA BootStep ==
  ASSUME DataOK, BootOK, at[App] = "boot", [Next]_vars
  PROVE  \/ \E e \in Entries : Enables(App, e)
         \/ EnableBroken(App)
         \/ UNCHANGED <<enabled, marker>> /\ (at'[App] # "boot" \/ UNCHANGED <<todo, done>>)
<1> DEFINE Goal == \/ \E e \in Entries : Enables(App, e)
                   \/ EnableBroken(App)
                   \/ UNCHANGED <<enabled, marker>> /\ (at'[App] # "boot" \/ UNCHANGED <<todo, done>>)
<1>1. up /\ \A r \in Requests : at[r] = "idle"
  BY Zenon DEF BootOK
<1>2. \A r \in Requests : ~Connects(r) /\ ~ConnectSteps(r)
  <2> SUFFICES ASSUME NEW r \in Requests, Connects(r) \/ ConnectSteps(r) PROVE FALSE
    OBVIOUS
  <2>1. at[r] = "idle" /\ ~Connects(r)
    BY <1>1, Zenon DEF Connects, Ready
  <2> QED
    BY <2>1, Zenon DEF ConnectSteps, ClaimAnswered, ListAnswered, Disables, DisableBroken, Undoes,
      DisableRefused, UndoBroken, Opens, OpenFails, LogsIn, LoginRefused, LoginBroken
<1>3. ASSUME NEW a \in Activities, Ends(a) \/ EndSteps(a) PROVE Goal
  <2>1. at[a] \in {"idle", "boot"} /\ ~Ends(a) /\ (at[a] = "boot" => a = App)
    BY <1>1, Zenon DEF Ends, Ready
  <2>2. (\E e \in Entries : Enables(a, e)) \/ EnableBroken(a)
    BY <1>3, <2>1, Zenon DEF EndSteps, Closes, CloseBroken, EndAnswered
  <2>3. a = App
    BY <2>1, <2>2, Zenon DEF Enables, EnableBroken
  <2> QED
    BY <2>2, <2>3, Zenon
<1>4. CASE GoesDown
  <2>1. at' = [b \in Activities |-> "idle"] /\ UNCHANGED <<enabled, marker>>
    BY <1>4, Zenon DEF GoesDown
  <2> QED
    BY <2>1
<1>5. ~Starts
  BY <1>1, Zenon DEF Starts
<1>6. ASSUME NEW c \in Conns, LineDies(c) PROVE Goal
  BY <1>6, Zenon DEF LineDies, loop
<1>7. CASE UNCHANGED vars
  BY <1>7, Zenon DEF vars, loop
<1> QED
  BY <1>2, <1>3, <1>4, <1>5, <1>6, <1>7, Zenon DEF Next

\* An answer to a call that enables an entry, as far as the loop of the start goes.
LEMMA BootAnswer ==
  ASSUME DataOK, StartInv, at[App] = "boot", NEW e \in Entries, Enables(App, e)
  PROVE  /\ enabled \subseteq enabled' /\ marker \ marker' \subseteq enabled'
         /\ at'[App] = "boot" => marker' \ enabled' \subseteq todo'[App] \cup done'[App]
<1>1. /\ enabled \subseteq enabled'
      /\ (done' = done /\ e \in enabled') \/ done'[App] = done[App] \cup {e}
      /\ todo'[App] = todo[App] \ {e}
  BY DEF Enables, DataOK
<1>2. marker \ enabled' \subseteq todo'[App] \cup done'[App]
  BY <1>1 DEF StartInv
<1>3. CASE todo[App] = {e}
  <2>1. marker' = done'[App] /\ at'[App] = "idle" /\ todo'[App] = {}
    BY <1>1, <1>3 DEF Enables, DataOK
  <2> QED
    BY <1>1, <1>2, <2>1
<1>4. CASE todo[App] # {e}
  <2>1. marker' = marker
    BY <1>4, Zenon DEF Enables
  <2> QED
    BY <1>1, <1>2, <2>1
<1> QED
  BY <1>3, <1>4

\* Only a start begins to repair.
LEMMA OnlyStartsBoot ==
  ASSUME DataOK, [Next]_vars, at[App] # "boot", ~Starts
  PROVE  at'[App] # "boot"
<1> DEFINE Stays == at'[App] # "boot"
<1> USE DEF DataOK, Loops, Goes, loop
<1>1. ASSUME NEW r \in Requests, Connects(r) PROVE Stays
  BY <1>1 DEF Connects
<1>2. ASSUME NEW r \in Requests, ClaimAnswered(r) \/ ListAnswered(r) PROVE Stays
  <2>1. \E place \in {"list", "disable", "open", "end", "idle"} : at' = [at EXCEPT ![r] = place]
    BY <1>2, Zenon DEF ClaimAnswered, ListAnswered, Breaks
  <2> QED
    BY <2>1
<1>3. ASSUME NEW r \in Requests, NEW e \in Entries, Disables(r, e) \/ Undoes(r, e) PROVE Stays
  BY <1>3 DEF Disables, Undoes
<1>4. ASSUME NEW r \in Requests, NEW e \in Entries, DisableBroken(r, e) PROVE Stays
  BY <1>4 DEF DisableBroken, Breaks
<1>5. ASSUME NEW r \in Requests, DisableRefused(r) \/ UndoBroken(r) PROVE Stays
  BY <1>5 DEF DisableRefused, UndoBroken, Breaks
<1>6. ASSUME NEW r \in Requests, NEW c \in Conns, Opens(r, c) PROVE Stays
  BY <1>6 DEF Opens
<1>7. ASSUME NEW r \in Requests, OpenFails(r) \/ LogsIn(r) PROVE Stays
  BY <1>7 DEF OpenFails, LogsIn, Restores
<1>8. ASSUME NEW r \in Requests, LoginRefused(r) \/ LoginBroken(r) PROVE Stays
  BY <1>8 DEF LoginRefused, LoginBroken, Restores, Breaks
<1>9. ASSUME NEW a \in Activities, Ends(a) PROVE Stays
  BY <1>9 DEF Ends, CloseBegins, Restores
<1>10. ASSUME NEW a \in Activities, Closes(a) \/ CloseBroken(a) PROVE Stays
  BY <1>10 DEF Closes, CloseBroken, Restores
<1>11. ASSUME NEW a \in Activities, NEW e \in Entries, Enables(a, e) PROVE Stays
  BY <1>11 DEF Enables
<1>12. ASSUME NEW a \in Activities, EnableBroken(a) PROVE Stays
  <2>1. \E place \in {"idle", "over"} : Goes(a, place)
    <3> HIDE DEF Goes
    <3> QED
      BY <1>12, EnableFault, Zenon
  <2> QED
    BY <2>1
<1>13. ASSUME NEW a \in Activities, EndAnswered(a) PROVE Stays
  <2>1. \E place \in {"stop", "idle", "over"} : at' = [at EXCEPT ![a] = place]
    BY <1>13, Zenon DEF EndAnswered, Breaks
  <2> QED
    BY <2>1
<1>14. CASE GoesDown
  BY <1>14 DEF GoesDown
<1>15. ASSUME NEW c \in Conns, LineDies(c) PROVE Stays
  BY <1>15, Zenon DEF LineDies
<1>16. CASE UNCHANGED vars
  BY <1>16, Zenon DEF vars
<1> HIDE DEF Stays
<1> QED
  BY <1>1, <1>2, <1>3, <1>4, <1>5, <1>6, <1>7, <1>8, <1>9, <1>10, <1>11, <1>12, <1>13, <1>14,
     <1>15, <1>16
  DEF Next, ConnectSteps, EndSteps, Stays

LEMMA StartInvariant == DataOK /\ BootOK /\ StartInv /\ [Next]_vars => StartInv'
<1> SUFFICES ASSUME DataOK, BootOK, StartInv, [Next]_vars, at'[App] = "boot" PROVE StartInv'
  BY DEF StartInv
<1>1. CASE at[App] = "boot"
  <2>1. ~EnableBroken(App)
    BY <1>1 DEF EnableBroken, Goes, Loops, DataOK
  <2> QED
    BY <1>1, <2>1, BootStep, BootAnswer DEF StartInv
<1>2. CASE at[App] # "boot"
  <2>1. Starts
    BY <1>2, OnlyStartsBoot
  <2>2. marker # {} /\ UNCHANGED <<enabled, marker>> /\ Loops(App, "boot", marker)
    BY <1>2, <2>1, Zenon DEF Starts, loop
  <2> QED
    BY <2>2 DEF Loops, StartInv, DataOK
<1> QED
  BY <1>1, <1>2

\* Whatever overlapped before, and whichever of its calls fail or end it, a start takes
\* no entry out of the marker that is not enabled, and disables none (StartRepairs).
THEOREM StartsRepair == Spec => StartRepairs
<1>1. Init => StartInv
  BY DEF Init, StartInv
<1>2. DataOK /\ BootOK /\ StartInv /\ [Next]_vars
        => [at[App] = "boot" => enabled \subseteq enabled' /\ marker \ marker' \subseteq enabled']_vars
  <2> SUFFICES ASSUME DataOK, BootOK, StartInv, [Next]_vars, at[App] = "boot"
               PROVE  enabled \subseteq enabled' /\ marker \ marker' \subseteq enabled'
    OBVIOUS
  <2>1. CASE EnableBroken(App)
    <3>1. UNCHANGED marker /\ \E e \in todo[App] : enabled' \in {enabled, enabled \cup {e}}
      BY <2>1, EnableFault, Zenon
    <3> QED
      BY <3>1
  <2> QED
    BY <2>1, BootStep, BootAnswer
<1> QED
  BY <1>1, <1>2, InitTypes, DataInvariant, BootInvariant, StartInvariant, PTL
  DEF Spec, StartRepairs

=============================================================================
