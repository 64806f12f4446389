----------------------------- MODULE ElkElements -----------------------------
(***************************************************************************)
(* The element collections of the hub as a mirror of the panel: the resync  *)
(* and its queue of requests, the chain of SD requests that fetches names,  *)
(* every collection's handlers with the requests they add, the snapshot the *)
(* coordinator derives, and the entities that the platforms create.         *)
(*                                                                         *)
(* A value is the number of times the panel changed it: 0 is what the       *)
(* element's constructor or an unprogrammed name shows.  One write waits    *)
(* for its reply at a time; late replies and the ElkRP pause are the        *)
(* subject of ElkConnection.                                                *)
(***************************************************************************)
EXTENDS Integers, Sequences, SequencesExt, FiniteSets

CONSTANTS
  Kinds,       \* the collections of this instance, names of Collections
  Size,        \* the elements of each
  Named,       \* the elements with a name in the panel
  Analog,      \* the zones of definition 34
  Renaming,    \* {0}, or {0, 1} when installer mode may also rename
  MaxChanges,  \* the panel's changes after the start
  MaxPolls,    \* refreshes of the coordinator
  MaxFaults    \* frames lost, and transports lost and opened again

\* Elk.element_list
Collections == {"panel", "zones", "lights", "areas", "tasks", "keypads", "outputs",
                "thermostats", "counters", "settings", "users"}
Element == UNION {{k} \X (0..Size[k] - 1) : k \in Kinds}
None == -1

ASSUME ElementAssumption ==
  /\ Kinds \subseteq Collections /\ Size \in [Kinds -> Nat]
  /\ Named \subseteq Element
  /\ Analog \subseteq {e \in Element : e[1] = "zones"} /\ IsFiniteSet(Analog)

-----------------------------------------------------------------------------
\* Each collection by its file: what sync() requests, named by the reply; the
\* attributes that each message's handler sets (the four banks of lights are
\* one PS); what _configured_was_set requests; and the broadcast by which the
\* panel reports one element's change.
Areas == [
  sync |-> <<"AS", "SD">>,
  sets |-> [AM |-> {"alarm_memory"},
            AS |-> {"armed_status", "arm_up_state", "alarm_state"},
            EE |-> {"armed_status", "timers"},
            LD |-> {"last_log"},
            KF |-> {"chime_mode"}],
  configured |-> <<>>,
  report |-> {"EE"}]

Zones == [
  sync |-> <<"AZ", "ZD", "ZP", "ZS", "SD">>,
  sets |-> [AZ |-> {"triggered_alarm"},
            LW |-> {"temperature"},
            ST |-> {"temperature"},
            ZB |-> {},
            ZC |-> {"logical_status", "physical_status"},
            ZD |-> {"definition"},
            ZP |-> {"area"},
            ZS |-> {"logical_status", "physical_status"},
            ZV |-> {"voltage"}],
  configured |-> <<>>,
  report |-> {"ZC"}]

Outputs == [
  sync |-> <<"CS", "SD">>,
  sets |-> [CC |-> {"output_on"}, CS |-> {"output_on"}],
  configured |-> <<>>,
  report |-> {"CC"}]

Tasks == [
  sync |-> <<"SD">>,
  sets |-> [TC |-> {"last_change"}],
  configured |-> <<>>,
  report |-> {"TC"}]

Counters == [
  sync |-> <<"SD">>,
  sets |-> [CV |-> {"value"}],
  configured |-> <<"CV">>,
  report |-> {}]

Settings == [
  sync |-> <<"CR", "SD">>,
  sets |-> [CR |-> {"value_format", "value"}],
  configured |-> <<>>,
  report |-> {}]

Lights == [
  sync |-> <<"PS", "SD">>,
  sets |-> [PC |-> {"status"}, PS |-> {"status"}],
  configured |-> <<>>,
  report |-> {"PC"}]

Thermostats == [
  sync |-> <<"SD">>,
  sets |-> [ST |-> {"current_temp"}, TR |-> {"mode", "current_temp", "setpoints"}],
  configured |-> <<"TR">>,
  report |-> {"TR"}]

Keypads == [
  sync |-> <<"KA", "SD", "KF">>,
  sets |-> [IC |-> {"last_user"},
            KA |-> {"area"},
            KC |-> {"last_keypress"},
            KF |-> {"last_function_key"},
            LW |-> {"temperature"},
            ST |-> {"temperature"}],
  configured |-> <<>>,
  report |-> {"KC"}]

Users == [
  sync |-> <<"SD">>,
  sets |-> <<>>,
  configured |-> <<>>,
  report |-> {}]

Panel == [
  sync |-> <<"VN", "LW", "SS">>,
  sets |-> [VN |-> {"elkm1_version"},
            RR |-> {"real_time_clock"},
            XK |-> {"real_time_clock"},
            SS |-> {"system_trouble_status"},
            UA |-> {"user_code_length", "temperature_units"}],
  configured |-> <<>>,
  report |-> {}]

Collection == [panel |-> Panel, zones |-> Zones, lights |-> Lights, areas |-> Areas,
               tasks |-> Tasks, keypads |-> Keypads, outputs |-> Outputs,
               thermostats |-> Thermostats, counters |-> Counters,
               settings |-> Settings, users |-> Users]

Sync(k) == Collection[k].sync
OnConfigured(e) == Collection[e[1]].configured

\* The attributes that a message sets, over all collections.
MessageTypes == {"IE", "SD"} \cup UNION {DOMAIN Collection[k].sets : k \in Collections}
Hearing(type) == {k \in Collections : type \in DOMAIN Collection[k].sets}
Carries == [type \in MessageTypes |->
              UNION {{k} \X Collection[k].sets[type] : k \in Hearing(type)}]

Attribute == UNION {Carries[t] : t \in DOMAIN Carries}
Pair == {p \in Element \X ({x[2] : x \in Attribute} \cup {"name"}) :
           p[2] = "name" \/ <<p[1][1], p[2]>> \in Attribute}
\* What a full resync asks for.
Synced == UNION {Carries[t] : t \in UNION {ToSet(Sync(k)) : k \in Kinds}}
\* And what a follow-up asks for: values of named elements, voltages.
Fetched(e) == UNION {Carries[t] : t \in ToSet(OnConfigured(e)) \cup (IF e \in Analog THEN {"ZV"} ELSE {})}

VARIABLES
  panel,       \* the panel's own values
  mirror,      \* the elements' attributes
  configured,  \* Element._configured
  textDesc,    \* Elements._text_desc is set, of each collection
  queue,       \* Connection._write_queue
  line,        \* messages of the panel not yet read
  tracked,     \* _register_push_callbacks has run
  snapshot,    \* what ElkPanelData derives
  setup,       \* "connecting", "ready" once the platforms are set up, or "failed"
  missing,     \* the replies a refresh still waits for, or {"idle"}
  entities,    \* what the platforms have decided about each element, in order
  \* Bookkeeping that the program does not keep.
  lost,        \* a frame was lost since the last resync
  changes, opened, polls, faults

hubVars    == <<mirror, configured, textDesc>>
haVars     == <<tracked, setup, missing>>
viewVars   == <<snapshot, entities>>
countVars  == <<changes, opened, polls, faults>>
vars == <<panel, hubVars, queue, line, haVars, viewVars, lost, countVars>>

Ask(type, kind, unit) == [type |-> type, kind |-> kind, unit |-> unit]

\* Elk._call_sync_handlers: each collection in its turn.
SyncOf(k) ==
  IF k \in Kinds THEN [j \in DOMAIN Sync(k) |-> Ask(Sync(k)[j], k, 0)] ELSE <<>>
SyncRequests ==
  SyncOf("panel") \o SyncOf("zones") \o SyncOf("lights") \o SyncOf("areas") \o SyncOf("tasks")
  \o SyncOf("keypads") \o SyncOf("outputs") \o SyncOf("thermostats") \o SyncOf("counters")
  \o SyncOf("settings") \o SyncOf("users")

Resync == SyncRequests \o <<Ask("UA", "panel", 0)>>

StartsResync ==
  /\ queue' = queue \o Resync
  /\ textDesc' = [k \in Kinds |-> "SD" \in ToSet(Sync(k))]
  /\ lost' = FALSE

Values(type, es) ==
  [p \in {q \in Pair : q[1] \in es /\ <<q[1][1], q[2]>> \in Carries[type]} |-> panel[p]]
Message(type, kind, unit, values, reply) ==
  [type |-> type, kind |-> kind, unit |-> unit, values |-> values, reply |-> reply]
Broadcasts(type, kind, unit, es) ==
  line' = Append(line, Message(type, kind, unit, Values(type, es)', FALSE))

\* _build_normalized_data: it looks at configured elements only; users and the
\* panel element have no callback of the coordinator.
Derived(values, elements) ==
  [known |-> elements,
   values |-> [p \in {q \in Pair : q[1][1] \notin {"users", "panel"}} |-> values[p]]]

Init ==
  /\ panel = [p \in Pair |->
       IF p[2] = "name" THEN IF p[1] \in Named THEN 1 ELSE 0
       ELSE IF <<p[1][1], p[2]>> \in Synced \cup Fetched(p[1]) THEN 1 ELSE 0]
  /\ mirror = [p \in Pair |-> 0]
  /\ configured = {e \in Element : e[1] = "panel"}
  /\ textDesc = [k \in Kinds |-> FALSE]
  /\ queue = <<>> /\ line = <<>>
  /\ tracked = FALSE /\ snapshot = Derived(mirror, {}) /\ setup = "connecting" /\ missing = {"idle"}
  /\ entities = [e \in Element |-> <<>>]
  /\ lost = FALSE /\ changes = 0 /\ opened = FALSE /\ polls = 0 /\ faults = 0

-----------------------------------------------------------------------------
\* The panel and the line.

\* The panel names the first element from unit on that has a name; a user has
\* always one, if only "USER 001".
NextNamed(kind, unit) ==
  LET found == {e \in Element : e[1] = kind /\ e[2] >= unit
                                /\ (kind = "users" \/ panel[<<e, "name">>] > 0)}
  IN IF found = {} THEN None ELSE CHOOSE u \in 0..Size[kind] - 1 :
       <<kind, u>> \in found /\ \A e \in found : u <= e[2]

Answer(ask) ==
  IF ask.type = "SD"
    THEN LET u == NextNamed(ask.kind, ask.unit)
             p == <<<<ask.kind, u>>, "name">>
         IN Message("SD", ask.kind, u, [q \in IF u = None THEN {} ELSE {p} |-> panel[q]], TRUE)
    ELSE Message(ask.type, ask.kind, ask.unit,
           Values(ask.type, IF ask.type \in {"CV", "TR", "ZV"}
                              THEN {<<ask.kind, ask.unit>>} ELSE Element), TRUE)

Serve ==
  /\ queue # <<>> /\ ~\E j \in DOMAIN line : line[j].reply
  /\ line' = Append(line, Answer(Head(queue))) /\ queue' = Tail(queue)
  /\ UNCHANGED <<panel, hubVars, haVars, viewVars, lost, countVars>>

\* A corrupted frame; if it was a reply the write stream gives up waiting.
Lose ==
  /\ faults < MaxFaults /\ faults' = faults + 1
  /\ line # <<>> /\ line' = Tail(line) /\ lost' = TRUE
  /\ UNCHANGED <<panel, hubVars, queue, haVars, viewVars, changes, opened, polls>>

Changes(pairs) ==
  /\ changes < MaxChanges /\ opened /\ changes' = changes + 1
  /\ panel' = [p \in Pair |-> IF p \in pairs THEN panel[p] + 1 ELSE panel[p]]
  /\ UNCHANGED <<hubVars, queue, haVars, viewVars, lost, opened, polls, faults>>

PanelReports(e) ==
  /\ \E type \in Collection[e[1]].report :
       /\ Changes({p \in Pair : p[1] = e /\ <<e[1], p[2]>> \in Carries[type]})
       /\ Broadcasts(type, e[1], e[2], {e})

\* An area's alarm is reported, the zone that caused it is not.
PanelAlarms(area, zone) ==
  /\ area[1] = "areas" /\ zone[1] = "zones"
  /\ Changes({<<area, "alarm_state">>, <<zone, "triggered_alarm">>})
  /\ Broadcasts("AS", "areas", 0, Element)

\* One ZB for all zones, and no ZC.
PanelBypassesAll ==
  /\ Changes({p \in Pair : p[2] = "logical_status"})
  /\ Broadcasts("ZB", "zones", None, {})

\* Installer mode at a keypad: what was changed is in no broadcast but the IE.
PanelProgrammed(e) ==
  /\ e \in Named
  /\ \E r \in Renaming :
       Changes({<<e, "area">>} \cup (IF r = 1 THEN {<<e, "name">>} ELSE {}))
  /\ Broadcasts("IE", "panel", 0, {})

-----------------------------------------------------------------------------
\* What listeners and observers do.

Current == Derived(mirror, configured)

\* The elements' attributes after those that a message sets.
Updated(values) == [p \in Pair |-> IF p \in DOMAIN values THEN values[p] ELSE mirror[p]]

Basis(e, values) == IF e[1] = "zones" /\ values[<<e, "definition">>] = 0 THEN "unknown" ELSE "known"

\* Mutant of Scan: no added_indices.
ScanForgets(known, values) ==
  entities' = [e \in Element |->
    IF setup' = "ready" /\ e \in known THEN Append(entities[e], Basis(e, values)) ELSE entities[e]]

\* _scan_for_new_entities with the zone factories, which look at the definition.
Scan(known, values) ==
  entities' = [e \in Element |->
    IF setup' = "ready" /\ e \in known /\ entities[e] = <<>>
      THEN <<Basis(e, values)>>
      ELSE entities[e]]

\* Mutant of Notifies: the area collection only.
NotifiesOfAreas(type, values, known) ==
  IF \/ type \in {"SS", "IC"}
     \/ tracked /\ \E p \in Pair : p[1][1] = "areas" /\ values[p] # mirror[p]
    THEN snapshot' = Derived(values, known)
    ELSE UNCHANGED snapshot

\* Element.setattr over the elements of one message, each of which pushes a
\* snapshot when it changed; the last one shows them all.  A trouble status
\* (_handle_trouble_status) and a user's code push one in any case.
Notifies(type, values, known) ==
  IF \/ type \in {"SS", "IC"}
     \/ tracked /\ \E p \in Pair : p[1][1] \notin {"users", "panel"} /\ values[p] # mirror[p]
    THEN snapshot' = Derived(values, known)
    ELSE UNCHANGED snapshot

Read(type) == line # <<>> /\ Head(line).type = type /\ line' = Tail(line)

Received(type) == missing' = missing \ {type}

\* The zones of definition 34 report no voltage by themselves.
Voltages == SetToSeq({Ask("ZV", "zones", e[2]) : e \in Analog})

\* Mutant of FollowUps: nothing after a bypass of all.
FollowUpsWithoutBypass(m) ==
  CASE m.type = "AS" -> <<Ask("AZ", "zones", 0)>>
    [] m.type = "ZD" -> Voltages
    [] OTHER -> <<>>

\* Requests that handlers add to the queue: alarms to look up, zones after a
\* bypass of all, voltages of analog zones.
FollowUps(m) ==
  CASE m.type = "AS" /\ (\E p \in DOMAIN m.values : p[2] = "alarm_state"
                           /\ (m.values[p] # mirror[p] \/ m.values[p] % 2 = 0))
         -> <<Ask("AZ", "zones", 0)>>
    [] m.type = "ZB" /\ m.unit = None -> <<Ask("ZS", "zones", 0)>>
    [] m.type = "ZD" -> Voltages
    [] OTHER -> <<>>

ReadStatus ==
  /\ \E type \in DOMAIN Carries \ {"SD", "IE"} : Read(type) /\ Received(type)
  /\ LET m == Head(line) values == Updated(m.values) IN
       /\ mirror' = values
       /\ queue' = queue \o FollowUps(m)
       /\ Notifies(m.type, values, configured)
       /\ UNCHANGED setup /\ Scan(configured, values)
  /\ UNCHANGED <<panel, configured, textDesc, tracked, lost, countVars>>

\* Mutant of NextName: off by one.
NextNameSkips(m) == <<Ask("SD", m.kind, m.unit + 2)>>

NextName(m) == <<Ask("SD", m.kind, m.unit + 1)>>

\* Elements._sd_handler, then _handle_description_sync.  The observers see the
\* name before the element is configured.
ReadName ==
  /\ Read("SD") /\ textDesc[Head(line).kind] /\ Head(line).unit # None
  /\ LET m == Head(line) e == <<m.kind, m.unit>>
         values == Updated(m.values)
         named == m.kind # "users" \/ m.values[<<e, "name">>] > 0
         more == [j \in DOMAIN OnConfigured(e) |-> Ask(OnConfigured(e)[j], m.kind, m.unit)]
     IN /\ mirror' = IF named THEN values ELSE mirror
        /\ configured' = IF named THEN configured \cup {e} ELSE configured
        /\ queue' = NextName(m) \o (IF named THEN more ELSE <<>>) \o queue
        /\ Notifies("SD", mirror', configured)
        /\ UNCHANGED setup /\ Scan(configured', mirror')
  /\ UNCHANGED <<panel, textDesc, tracked, missing, lost, countVars>>

\* The chain has ended, or belongs to a resync that another one has ended.
ReadNoName ==
  /\ Read("SD") /\ (textDesc[Head(line).kind] => Head(line).unit = None)
  /\ textDesc' = [textDesc EXCEPT ![Head(line).kind] = FALSE]
  /\ UNCHANGED setup /\ Scan(configured, mirror)
  /\ UNCHANGED <<panel, mirror, configured, queue, tracked, missing, snapshot, lost, countVars>>

ReadInstallerExit ==
  /\ Read("IE") /\ StartsResync
  /\ UNCHANGED <<panel, mirror, configured, haVars, viewVars, countVars>>

-----------------------------------------------------------------------------
\* The transport opens, for the first time or again: what was on the line is
\* gone, what was queued is not.
Connected ==
  /\ setup # "failed" /\ opened' = TRUE
  /\ IF opened THEN faults < MaxFaults /\ faults' = faults + 1 ELSE UNCHANGED faults
  /\ line' = <<>> /\ StartsResync
  /\ UNCHANGED <<panel, mirror, configured, haVars, viewVars, changes, polls>>

\* _async_update_data; of the five replies those of this instance's collections.
Expected == {t \in {"AS", "AZ", "CS", "SS", "LW"} :
               \E k \in Kinds : \E x \in Carries[t] : x[1] = k}
Polled(type, kind) == IF type \in Expected THEN <<Ask(type, kind, 0)>> ELSE <<>>
PollRequests == Polled("AS", "areas") \o Polled("AZ", "zones") \o Polled("CS", "outputs")
                \o Polled("SS", "panel") \o Polled("LW", "panel")
\* The first refresh follows the login, which needs a VN, and the callbacks.
PollBegins ==
  /\ missing = {"idle"} /\ setup # "failed" /\ polls < MaxPolls /\ polls' = polls + 1
  /\ mirror[<<<<"panel", 0>>, "elkm1_version">>] > 0 /\ tracked' = TRUE
  /\ missing' = Expected
  /\ queue' = queue \o PollRequests
  /\ UNCHANGED <<panel, hubVars, line, setup, viewVars, lost, changes, opened, faults>>

\* The first one ends the entry's setup, and the platforms scan what there is.
PollEnds ==
  /\ missing = {} /\ missing' = {"idle"} /\ setup' = "ready"
  /\ snapshot' = Current /\ Scan(configured, mirror)
  /\ UNCHANGED <<panel, hubVars, queue, line, tracked, lost, countVars>>

PollTimesOut ==
  /\ missing # {"idle"} /\ missing # {} /\ missing' = {"idle"}
  /\ setup' = IF setup = "connecting" THEN "failed" ELSE setup
  /\ UNCHANGED <<panel, hubVars, queue, line, tracked, viewVars, lost, countVars>>

Next ==
  \/ Serve \/ Lose
  \/ \E e \in Element : PanelReports(e) \/ PanelProgrammed(e)
  \/ \E area, zone \in Element : PanelAlarms(area, zone)
  \/ PanelBypassesAll
  \/ ReadStatus \/ ReadName \/ ReadNoName \/ ReadInstallerExit
  \/ Connected \/ PollBegins \/ PollEnds \/ PollTimesOut

Spec == Init /\ [][Next]_vars
-----------------------------------------------------------------------------
Settled == queue = <<>> /\ line = <<>> /\ opened

Tracked == {e \in Element : e[1] \notin {"users", "panel"}}

\* When a chain of SD replies has come to its end, every element of the
\* collection that the panel names is configured: whatever chains overlapped,
\* whatever was lost and however often the transport reopened, the last chain
\* that ended has walked the whole collection (Elements._sd_handler).
NamesComplete ==
  opened => \A e \in Named : textDesc[e[1]] \/ e \in configured

\* When nothing is asked or on its way, and nothing was lost since the last
\* resync, every attribute that the hub asks for is the panel's: also those
\* that a broadcast only hints at (AS, ZB 000) and those whose request depends
\* on an earlier reply (Counter._configured_was_set, zv of analog zones).
MirrorIsTrue ==
  Settled /\ ~lost =>
    \A p \in Pair :
      \/ <<p[1][1], p[2]>> \in Synced
      \/ <<p[1][1], p[2]>> \in Fetched(p[1]) /\ p[1] \in configured \cup Analog
      => mirror[p] = panel[p]

\* The platforms have decided about each configured element once, and about
\* no other, after every message (async_add_dynamic_entities).
EntitiesFollow ==
  setup = "ready" =>
    \A e \in Tracked : Len(entities[e]) = IF e \in configured THEN 1 ELSE 0

\* The snapshot shows every value the elements have, and misses at most the
\* one element whose name came last: _on_change runs before _configured is set
\* and async_update_listeners does not build it again.
SnapshotLagsOneName ==
  setup = "ready" =>
    /\ snapshot.values = Current.values
    /\ Cardinality((configured \cap Tracked) \ snapshot.known) <= 1

=============================================================================
