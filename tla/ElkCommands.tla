----------------------------- MODULE ElkCommands -----------------------------
(***************************************************************************)
(* Commands of the coordinator and of the entities, services and actions    *)
(* that wrap them: the check that the panel can be reached, the write, the  *)
(* wait of six seconds for a message that confirms it, the shortcut of an   *)
(* area that is armed as asked, and the toggling bypass of zones.           *)
(*                                                                         *)
(* Callers run interleaved on one event loop; keypads change the panel at   *)
(* the same time, the transport comes and goes, ElkRP pauses the hub and    *)
(* the entry may be unloaded.  The queue is the one of ElkConnection.       *)
(***************************************************************************)
EXTENDS Integers, Sequences, FiniteSets

CONSTANTS
  Callers,    \* tasks that issue commands: entities, services, automations
  Commands,   \* the commands of this instance, records with a field kind
  Areas, Zones, Registers,  \* elements; registers are pairs <<kind, index>>
  MaxCalls,   \* commands issued in all
  MaxEvents   \* changes at keypads, losses, pauses and the unload

\* ArmLevel, the force arm levels among them, as they appear in an AS report.
Disarmed == 0
ForceAway == 9
ForceStay == 10
Confirms(level) == CASE level = ForceAway -> 1 [] level = ForceStay -> 2 [] OTHER -> level

\* What each source of commands asks for: the alarm panel of an area, a zone,
\* a counter, a custom value or time, a thermostat with its emergency heat, and
\* the services of the hub.  What the protocol never confirms (outputs, lights,
\* tasks, zone triggers, texts, speech) is one kind, "queued".
AreaCommands(a) ==
  {[kind |-> "arm", area |-> a, level |-> l] : l \in Disarmed..6 \cup {ForceAway, ForceStay}}
  \cup {[kind |-> "bypass_area"], [kind |-> "clear_bypass"]}
ZoneCommands(z) == {[kind |-> "bypass", zone |-> z], [kind |-> "queued"]}
MaxValue == 65535
Sets(r) == [kind : {"set"}, register : {r}, value : 0..MaxValue]
CounterCommands(i) == Sets(<<"counter", i>>) \cup {[kind |-> "refresh", register |-> <<"counter", i>>]}
SettingCommands(i) == Sets(<<"setting", i>>)
ThermostatCommands(i) == Sets(<<"thermostat", i>>)
OutputCommands == {[kind |-> "queued"]}
LightCommands == {[kind |-> "queued"]}
HubCommands == {[kind |-> "clock"], [kind |-> "queued"]}

RegisterCommands(i) == CounterCommands(i) \cup SettingCommands(i) \cup ThermostatCommands(i)

ASSUME CommandsAssumption ==
  /\ MaxCalls \in Nat /\ MaxEvents \in Nat
  /\ \A cmd \in Commands :
       \/ \E a \in Areas : cmd \in AreaCommands(a)
       \/ \E z \in Zones : cmd \in ZoneCommands(z)
       \/ \E i \in 0..63 : cmd \in RegisterCommands(i) /\ cmd.register \in Registers
       \/ cmd \in OutputCommands \cup LightCommands \cup HubCommands

\* Where the platform serialises its entities' calls (PARALLEL_UPDATES = 1);
\* binary sensors and the services of the hub are not limited.
Platform(cmd) ==
  CASE cmd.kind \in {"arm", "bypass_area", "clear_bypass"} -> "alarm_control_panel"
    [] cmd.kind \in {"set", "refresh"} /\ cmd.register[1] # "thermostat" -> "number"
    [] OTHER -> "unlimited"

\* The message that confirms a command, or "" when the protocol has none:
\* outputs, lights, tasks, zone triggers, texts and speech.
Awaited(cmd) ==
  CASE cmd.kind = "arm" -> "AS"
    [] cmd.kind \in {"bypass", "bypass_area", "clear_bypass"} -> "ZB"
    [] cmd.kind = "clock" -> "RR"
    [] cmd.kind = "queued" -> ""
    [] cmd.kind \in {"set", "refresh"} ->
         CASE cmd.register[1] = "thermostat" -> "TR"
           [] cmd.register[1] = "counter" -> "CV"
           [] OTHER -> "CR"

VARIABLES
  panel,     \* the panel's areas, bypassed zones and registers
  mirror,    \* what the hub has read of them
  queue,     \* Connection._write_queue: the call and its command
  line,      \* messages of the panel not yet read
  up, paused,  \* Elk.is_connected, Elk.is_paused
  elk,       \* coordinator._elk is not None
  stage,     \* where each caller is suspended
  call,      \* its command, and the expected value that its closure holds
  handlers,  \* callers whose _response_handler is attached
  outcome,   \* how each caller's last command ended
  \* Bookkeeping that the program does not keep.
  clean,     \* nobody interfered since the caller began
  executed,  \* how often the panel executed the command of each call
  calls, events

hubVars  == <<panel, mirror, queue, line>>
linkVars == <<up, paused, elk>>
callVars == <<stage, call, handlers, outcome>>
vars == <<hubVars, linkVars, callVars, clean, executed, calls, events>>

Active(c) == stage[c] # "idle"

Init ==
  /\ panel = [armed |-> [a \in Areas |-> Disarmed], bypassed |-> {},
              register |-> [r \in Registers |-> 0]]
  /\ mirror = panel /\ queue = <<>> /\ line = <<>>
  /\ up = TRUE /\ paused = FALSE /\ elk = TRUE
  /\ stage = [c \in Callers |-> "idle"] /\ handlers = {}
  /\ call = [c \in Callers |-> [id |-> 0, cmd |-> [kind |-> "queued"], expected |-> 0]]
  /\ outcome = [c \in Callers |-> "none"]
  /\ clean = [c \in Callers |-> FALSE] /\ executed = [n \in 1..MaxCalls |-> 0]
  /\ calls = 0 /\ events = 0

-----------------------------------------------------------------------------
\* The panel.

\* The zone that a ZB names when a bypass of all zones was asked for or cleared.
AllZones == 998
NoZone   == -1

Status(a, armed)     == [type |-> "AS", armed |-> armed]
Bypass(z, on)        == [type |-> "ZB", zone |-> z, on |-> on]
Change(z, on)        == [type |-> "ZC", zone |-> z, on |-> on]
Value(r, v)          == [type |-> CASE r[1] = "thermostat" -> "TR" [] r[1] = "counter" -> "CV"
                                    [] OTHER -> "CR", register |-> r, value |-> v]

\* What an accepted command does and reports.  A zone's ZB is followed by its
\* ZC; the ZB of an area is not, and a thermostat answers with what it has.
Done(cmd, p) ==
  CASE cmd.kind = "arm" -> [p EXCEPT !.armed[cmd.area] = Confirms(cmd.level)]
    [] cmd.kind = "bypass" ->
         [p EXCEPT !.bypassed = (@ \ {cmd.zone}) \cup ({cmd.zone} \ @)]
    [] cmd.kind = "bypass_area" -> [p EXCEPT !.bypassed = Zones]
    [] cmd.kind = "clear_bypass" -> [p EXCEPT !.bypassed = {}]
    [] cmd.kind = "set" -> [p EXCEPT !.register[cmd.register] = cmd.value]
    [] OTHER -> p
Says(cmd, p) ==
  CASE cmd.kind = "arm" -> <<Status(cmd.area, p.armed)>>
    [] cmd.kind = "bypass" -> LET on == cmd.zone \in p.bypassed
                              IN <<Bypass(cmd.zone, on), Change(cmd.zone, on)>>
    [] cmd.kind = "bypass_area" -> <<Bypass(AllZones, TRUE)>>
    [] cmd.kind = "clear_bypass" -> <<Bypass(NoZone, FALSE)>>
    [] cmd.kind \in {"set", "refresh"} -> <<Value(cmd.register, p.register[cmd.register])>>
    [] cmd.kind = "clock" -> <<[type |-> "RR"]>>
    [] OTHER -> <<>>

\* The write stream hands the next write to the panel, which executes it or,
\* for a code it does not accept, a value out of range or an area that is not
\* ready, does not.
Serve ==
  /\ queue # <<>> /\ up /\ queue' = Tail(queue)
  /\ LET cmd == Head(queue).cmd IN
       \/ /\ panel' = Done(cmd, panel) /\ line' = line \o Says(cmd, panel')
          /\ executed' = [executed EXCEPT ![Head(queue).id] = @ + 1]
       \/ /\ UNCHANGED <<panel, executed>>
          /\ line' = IF cmd.kind \in {"set", "refresh"}
                       THEN line \o Says(cmd, panel) ELSE line
  /\ UNCHANGED <<mirror, linkVars, callVars, clean, calls, events>>

Event ==
  /\ events < MaxEvents /\ events' = events + 1 /\ calls' = calls
  /\ clean' = [c \in Callers |-> FALSE]
  /\ UNCHANGED <<mirror, callVars, executed>>

\* Somebody at a keypad does what a command could do.
Keypad(cmd) ==
  /\ Event /\ cmd.kind \in {"arm", "bypass", "set"} /\ panel' = Done(cmd, panel)
  /\ line' = IF up THEN line \o Says(cmd, panel') ELSE line
  /\ UNCHANGED <<queue, linkVars>>

TransportLost == Event /\ up /\ up' = FALSE /\ line' = <<>> /\ UNCHANGED <<panel, queue, paused, elk>>
TransportBack == Event /\ ~up /\ elk /\ up' = TRUE /\ UNCHANGED <<panel, queue, line, paused, elk>>
ElkRP ==
  /\ Event /\ up /\ paused' = ~paused /\ queue' = IF paused' THEN <<>> ELSE queue
  /\ UNCHANGED <<panel, line, up, elk>>
\* async_disconnect: the manager closes the transport, then _elk is None.
Unload == Event /\ elk /\ elk' = FALSE /\ up' = FALSE /\ line' = <<>> /\ UNCHANGED <<panel, queue, paused>>

-----------------------------------------------------------------------------
\* The hub and the handlers that wait for a message.

\* Mutant: a command is confirmed by any message of the awaited type.
MatchesByType(cmd, expected, m) == m.type = Awaited(cmd)

\* What each operation compares a message with.
ArmConfirms(cmd, expected, m)    == m.armed[cmd.area] = expected
BypassConfirms(cmd, expected, m) == m.zone = cmd.zone /\ m.on = expected
AreaBypassConfirms(m)            == m.zone = AllZones
ClearBypassConfirms(m)           == m.zone = NoZone
\* A thermostat's values are not compared.
ThermostatConfirms(cmd, m)       == m.register = cmd.register
CounterConfirms(cmd, expected, m) ==
  m.register = cmd.register /\ (cmd.kind = "refresh" \/ m.value = expected)
SettingConfirms(cmd, expected, m) == m.register = cmd.register /\ m.value = expected

Matches(cmd, expected, m) ==
  /\ m.type = Awaited(cmd)
  /\ CASE cmd.kind = "arm" -> ArmConfirms(cmd, expected, m)
       [] cmd.kind = "bypass" -> BypassConfirms(cmd, expected, m)
       [] cmd.kind = "bypass_area" -> AreaBypassConfirms(m)
       [] cmd.kind = "clear_bypass" -> ClearBypassConfirms(m)
       [] cmd.kind \in {"refresh", "set"} ->
            CASE m.type = "TR" -> ThermostatConfirms(cmd, m)
              [] m.type = "CV" -> CounterConfirms(cmd, expected, m)
              [] OTHER -> SettingConfirms(cmd, expected, m)
       [] OTHER -> TRUE

\* The elements' handlers run first, then those of the waiting commands.  A ZB
\* of all zones makes the hub ask for the zones; its answer is not modelled.
Read ==
  /\ line # <<>> /\ line' = Tail(line)
  /\ LET m == Head(line) IN
       /\ mirror' = CASE m.type = "AS" -> [mirror EXCEPT !.armed = m.armed]
                      [] m.type = "ZC" -> [mirror EXCEPT !.bypassed =
                                             IF m.on THEN @ \cup {m.zone} ELSE @ \ {m.zone}]
                      [] m.type \in {"TR", "CV", "CR"} ->
                           [mirror EXCEPT !.register[m.register] = m.value]
                      [] OTHER -> mirror
       /\ stage' = [c \in Callers |->
            IF c \in handlers /\ stage[c] = "waiting"
                 /\ Matches(call[c].cmd, call[c].expected, m)
              THEN "answered" ELSE stage[c]]
  /\ UNCHANGED <<panel, queue, linkVars, call, handlers, outcome, clean, executed, calls, events>>

-----------------------------------------------------------------------------
\* Commands.

\* What the caller's closure compares with, taken when the command begins.
Expected(cmd) ==
  CASE cmd.kind = "arm" -> Confirms(cmd.level)
    [] cmd.kind = "bypass" -> cmd.zone \notin mirror.bypassed
    [] cmd.kind = "set" -> cmd.value
    [] OTHER -> 0

\* Area.arm sends nothing for an area that the hub believes armed.
Sends(cmd) ==
  ~(cmd.kind = "arm" /\ mirror.armed[cmd.area] # Disarmed /\ cmd.level # Disarmed)

AlreadyThere(cmd) == cmd.kind = "arm" /\ mirror.armed[cmd.area] = Confirms(cmd.level)

Reachable == elk /\ up /\ ~paused

Begins(c, cmd) ==
  /\ ~Active(c) /\ calls < MaxCalls /\ calls' = calls + 1
  /\ Platform(cmd) # "unlimited" =>
       ~\E d \in Callers : Active(d) /\ Platform(call[d].cmd) = Platform(cmd)
  /\ call' = [call EXCEPT ![c] = [id |-> calls', cmd |-> cmd, expected |-> Expected(cmd)]]
  /\ clean' = [d \in Callers |->
       IF d = c THEN ~(\E x \in Callers : Active(x)) /\ queue = <<>> /\ line = <<>>
                     /\ mirror = panel
       ELSE FALSE]
  /\ UNCHANGED <<panel, mirror, line, linkVars, executed, events>>

\* _execute_arm_cmd: no command is sent, or _ensure_command_ready refuses it.
Shortcut(c, cmd) ==
  /\ elk /\ AlreadyThere(cmd) /\ Begins(c, cmd)
  /\ outcome' = [outcome EXCEPT ![c] = "ok"] /\ UNCHANGED <<queue, stage, handlers>>

Write(cmd) ==
  queue' = IF Sends(cmd) THEN Append(queue, [id |-> calls + 1, cmd |-> cmd]) ELSE queue

\* Mutant: the command is queued before the connection is checked.
RefusedLate(c, cmd) ==
  /\ ~Reachable /\ ~(elk /\ AlreadyThere(cmd)) /\ Begins(c, cmd) /\ Write(cmd)
  /\ outcome' = [outcome EXCEPT ![c] = "refused"] /\ UNCHANGED <<stage, handlers>>

Refused(c, cmd) ==
  /\ ~Reachable /\ ~(elk /\ AlreadyThere(cmd)) /\ Begins(c, cmd)
  /\ outcome' = [outcome EXCEPT ![c] = "refused"] /\ UNCHANGED <<queue, stage, handlers>>

\* async_confirm_command up to its wait, async_queue_command up to its sleep.
Issues(c, cmd) ==
  /\ Reachable /\ ~AlreadyThere(cmd) /\ Begins(c, cmd) /\ Write(cmd)
  /\ stage' = [stage EXCEPT ![c] = IF Awaited(cmd) = "" THEN "answered" ELSE "waiting"]
  /\ handlers' = IF Awaited(cmd) = "" THEN handlers ELSE handlers \cup {c}
  /\ UNCHANGED outcome

\* The finally clause calls remove_handler of an _elk that an unload has set to
\* None: that is the error the caller gets then.
Ends(c, result) ==
  /\ stage' = [stage EXCEPT ![c] = "idle"]
  /\ handlers' = IF elk THEN handlers \ {c} ELSE handlers
  /\ outcome' = [outcome EXCEPT ![c] = IF elk \/ Awaited(call[c].cmd) = "" THEN result ELSE "crashed"]
  /\ UNCHANGED <<hubVars, linkVars, call, clean, executed, calls, events>>

Confirmed(c) == stage[c] = "answered" /\ Ends(c, "ok")

\* COMMAND_RESPONSE_TIMEOUT, which counts from the write to the queue.  It also
\* wins over an answer that the caller has not been resumed for.
TimesOut(c) == Active(c) /\ Awaited(call[c].cmd) # "" /\ Ends(c, "timeout")

Next ==
  \/ Serve \/ Read
  \/ \E cmd \in Commands : Keypad(cmd)
  \/ TransportLost \/ TransportBack \/ ElkRP \/ Unload
  \/ \E c \in Callers, cmd \in Commands : Shortcut(c, cmd) \/ Refused(c, cmd) \/ Issues(c, cmd)
  \/ \E c \in Callers : Confirmed(c) \/ TimesOut(c)

Spec == Init /\ [][Next]_vars

-----------------------------------------------------------------------------
Achieved(cmd, expected) ==
  CASE cmd.kind = "arm" -> panel.armed[cmd.area] = expected
    [] cmd.kind = "bypass" -> (cmd.zone \in panel.bypassed) = expected
    [] cmd.kind = "bypass_area" -> panel.bypassed = Zones
    [] cmd.kind = "clear_bypass" -> panel.bypassed = {}
    [] cmd.kind = "set" /\ cmd.register[1] # "thermostat" -> panel.register[cmd.register] = expected
    [] OTHER -> TRUE

\* A command that nobody interfered with, from a hub in step with the panel,
\* is reported as done only when the panel has done it: no earlier message, no
\* default and no echo of a refusal confirms it.
UndisturbedSuccess ==
  \A c \in Callers : ~Active(c) /\ outcome[c] = "ok" /\ clean[c] =>
    Achieved(call[c].cmd, call[c].expected)

\* The panel executes a call at most once, and not at all when the caller was
\* refused: a zb toggles, so a second execution, or one behind the back of a
\* caller that was told it failed, undoes the first.
AtMostOnce ==
  LET pending(n) == Cardinality({i \in DOMAIN queue : queue[i].id = n}) IN
    /\ \A n \in 1..MaxCalls : executed[n] + pending(n) <= 1
    /\ \A c \in Callers : ~Active(c) /\ outcome[c] = "refused" =>
         executed[call[c].id] + pending(call[c].id) = 0

=============================================================================
