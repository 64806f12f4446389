-------------------------- MODULE IntegrationProofs --------------------------
(***************************************************************************)
(* What holds of the integration's two components that Home Assistant and  *)
(* its users drive: ElkCommands, for any callers, commands and elements and *)
(* any number of calls and events; and, in the second part, ElkEntry, for   *)
(* any sweep of rates and any bounds.  The two share no variable.          *)
(***************************************************************************)
EXTENDS ElkCommands, ElkEntry, SequenceTheorems, FiniteSetTheorems, TLAPS

-----------------------------------------------------------------------------
(***************************************************************************)
(* Types.                                                                  *)
(***************************************************************************)
Unused == [kind |-> "queued"]

\* What is known of a command by its kind.
CommandOK(cmd) ==
  /\ cmd.kind \in {"arm", "bypass", "bypass_area", "clear_bypass", "set", "refresh", "clock", "queued"}
  /\ cmd.kind = "arm" => cmd.area \in Areas /\ Confirms(cmd.level) \in Int
  /\ cmd.kind = "bypass" => cmd.zone \in Zones
  /\ cmd.kind \in {"set", "refresh"} =>
       cmd.register \in Registers /\ cmd.register[1] \in {"counter", "setting", "thermostat"}
  /\ cmd.kind = "set" => cmd.value \in Int

\* The commands of a register, whatever the range of their values.
LEMMA SetsFields ==
  ASSUME NEW r, NEW cmd, cmd \in Sets(r)
  PROVE  cmd.kind = "set" /\ cmd.register = r /\ cmd.value \in Int
<1>1. MaxValue \in Int
  BY DEF MaxValue
<1> QED
  BY <1>1 DEF Sets

LEMMA CommandIs ==
  ASSUME NEW cmd \in Commands \cup {Unused}
  PROVE  CommandOK(cmd)
<1>1. CASE cmd = Unused
  BY <1>1 DEF Unused, CommandOK
<1>2. ASSUME NEW a \in Areas, cmd \in AreaCommands(a) PROVE CommandOK(cmd)
  BY <1>2 DEF AreaCommands, CommandOK, Confirms, Disarmed, ForceAway, ForceStay
<1>3. ASSUME NEW z \in Zones, cmd \in ZoneCommands(z) PROVE CommandOK(cmd)
  BY <1>3 DEF ZoneCommands, CommandOK
<1>4. ASSUME NEW i \in 0..63, cmd \in RegisterCommands(i), cmd.register \in Registers PROVE CommandOK(cmd)
  <2>1. ASSUME NEW r, r[1] \in {"counter", "setting", "thermostat"}, cmd \in Sets(r) PROVE CommandOK(cmd)
    BY <1>4, <2>1, SetsFields DEF CommandOK
  <2>2. CASE cmd = [kind |-> "refresh", register |-> <<"counter", i>>]
    BY <1>4, <2>2 DEF CommandOK
  <2>3. CASE cmd \in Sets(<<"counter", i>>) \/ cmd \in Sets(<<"setting", i>>) \/ cmd \in Sets(<<"thermostat", i>>)
    BY <2>1, <2>3
  <2> QED
    BY <1>4, <2>2, <2>3 DEF RegisterCommands, CounterCommands, SettingCommands, ThermostatCommands
<1>5. CASE cmd \in OutputCommands \cup LightCommands \cup HubCommands
  BY <1>5 DEF OutputCommands, LightCommands, HubCommands, CommandOK
<1> QED
  BY <1>1, <1>2, <1>3, <1>4, <1>5, CommandsAssumption DEF CommandsAssumption

Writes == [id : Nat, cmd : Commands]
Panels == [armed : [Areas -> Int], bypassed : SUBSET Zones, register : [Registers -> Int]]

\* What the panel can say.
Messages ==
  [type : {"AS"}, armed : [Areas -> Int]]
  \cup [type : {"ZB", "ZC"}, zone : Zones \cup {AllZones, NoZone}, on : BOOLEAN]
  \cup [type : {"TR", "CV", "CR"}, register : Registers, value : Int]
  \cup [type : {"RR"}]

TypeInv ==
  /\ panel \in Panels
  /\ queue \in Seq(Writes) /\ line \in Seq(Messages) /\ calls \in Nat /\ calls <= MaxCalls
  /\ call = [c \in Callers |-> call[c]]
  /\ \A c \in Callers : call[c].id \in Nat /\ call[c].id <= calls /\ call[c].cmd \in Commands \cup {Unused}
  /\ stage \in [Callers -> {"idle", "waiting", "answered"}]
  /\ outcome \in [Callers -> {"none", "ok", "refused", "timeout", "crashed"}]
  /\ clean \in [Callers -> BOOLEAN]
  /\ executed \in [1..MaxCalls -> Nat]

LEMMA DoneType ==
  ASSUME NEW p \in Panels, NEW cmd \in Commands
  PROVE  Done(cmd, p) \in Panels
<1>1. CommandOK(cmd)
  BY CommandIs
<1>2. CASE cmd.kind = "arm"
  BY <1>1, <1>2 DEF CommandOK, Done, Panels
<1>3. CASE cmd.kind = "bypass"
  BY <1>1, <1>3 DEF CommandOK, Done, Panels
<1>4. CASE cmd.kind = "bypass_area"
  BY <1>4 DEF Done, Panels
<1>5. CASE cmd.kind = "clear_bypass"
  BY <1>5 DEF Done, Panels
<1>6. CASE cmd.kind = "set"
  BY <1>1, <1>6 DEF CommandOK, Done, Panels
<1>7. CASE cmd.kind \notin {"arm", "bypass", "bypass_area", "clear_bypass", "set"}
  BY <1>7 DEF Done
<1> QED
  BY <1>2, <1>3, <1>4, <1>5, <1>6, <1>7

LEMMA MessagesJoin ==
  ASSUME NEW s \in Seq(Messages), NEW t \in Seq(Messages)
  PROVE  s \o t \in Seq(Messages)
BY ConcatProperties

LEMMA SaysType ==
  ASSUME NEW p \in Panels, NEW cmd \in Commands
  PROVE  Says(cmd, p) \in Seq(Messages)
<1>a. ASSUME NEW z, z \in Zones \/ z = AllZones \/ z = NoZone, NEW on \in BOOLEAN
      PROVE  Bypass(z, on) \in Messages /\ Change(z, on) \in Messages
  BY <1>a DEF Messages, Bypass, Change
<1>1. CommandOK(cmd)
  BY CommandIs
<1>2. CASE cmd.kind = "arm"
  <2>1. Status(cmd.area, p.armed) \in Messages
    BY DEF Status, Messages, Panels
  <2> QED
    BY <1>2, <2>1 DEF Says
<1>3. CASE cmd.kind = "bypass"
  <2>2. cmd.zone \in Zones /\ (cmd.zone \in p.bypassed) \in BOOLEAN
    BY <1>1, <1>3 DEF CommandOK
  <2> DEFINE on == cmd.zone \in p.bypassed
  <2>4. Says(cmd, p) = <<Bypass(cmd.zone, on), Change(cmd.zone, on)>>
    BY <1>3, Zenon DEF Says
  <2> HIDE DEF on
  <2>3. Bypass(cmd.zone, on) \in Messages /\ Change(cmd.zone, on) \in Messages
    BY <1>a, <2>2, Zenon DEF on
  <2> QED
    BY <2>3, <2>4
<1>4. CASE cmd.kind \in {"bypass_area", "clear_bypass"}
  <2>1. ASSUME NEW m \in Messages, Says(cmd, p) = <<m>> PROVE Says(cmd, p) \in Seq(Messages)
    BY <2>1
  <2>2. CASE cmd.kind = "bypass_area"
    <3>1. Says(cmd, p) = <<Bypass(AllZones, TRUE)>>
      BY <2>2, ZenonT(60) DEF Says
    <3>2. TRUE \in BOOLEAN /\ FALSE \in BOOLEAN
      OBVIOUS
    <3> QED
      BY <1>a, <2>1, <3>1, <3>2, Zenon
  <2>3. CASE cmd.kind = "clear_bypass"
    <3>1. Says(cmd, p) = <<Bypass(NoZone, FALSE)>>
      <4>1. /\ cmd.kind # "arm" /\ cmd.kind # "bypass" /\ cmd.kind # "bypass_area"
            /\ cmd.kind \notin {"set", "refresh"} /\ cmd.kind # "clock"
        BY <2>3
      <4> QED
        BY <2>3, <4>1, Zenon DEF Says
    <3>2. TRUE \in BOOLEAN /\ FALSE \in BOOLEAN
      OBVIOUS
    <3> QED
      BY <1>a, <2>1, <3>1, <3>2, Zenon
  <2> QED
    BY <1>4, <2>2, <2>3
<1>5. CASE cmd.kind \in {"set", "refresh"}
  <2>1. Value(cmd.register, p.register[cmd.register]) \in Messages
    BY <1>1, <1>5 DEF Value, Messages, CommandOK, Panels
  <2> QED
    BY <1>5, <2>1 DEF Says
<1>6. CASE cmd.kind = "clock"
  <2>1. [type |-> "RR"] \in Messages
    BY DEF Messages
  <2> QED
    BY <1>6, <2>1 DEF Says
<1>7. CASE cmd.kind = "queued"
  BY <1>7 DEF Says
<1> QED
  BY <1>1, <1>2, <1>3, <1>4, <1>5, <1>6, <1>7 DEF CommandOK

LEMMA BeginsType ==
  ASSUME TypeInv, NEW c \in Callers, NEW cmd \in Commands, Begins(c, cmd)
  PROVE  /\ calls' = calls + 1 /\ calls' \in Nat /\ calls' <= MaxCalls
         /\ call' = [call EXCEPT ![c] = [id |-> calls + 1, cmd |-> cmd, expected |-> Expected(cmd)]]
         /\ call' = [d \in Callers |-> call'[d]]
         /\ \A d \in Callers : call'[d].id \in Nat /\ call'[d].id <= calls' /\ call'[d].cmd \in Commands \cup {Unused}
         /\ clean' \in [Callers -> BOOLEAN]
<1> DEFINE new == [id |-> calls + 1, cmd |-> cmd, expected |-> Expected(cmd)]
<1>1. calls \in Nat /\ calls < MaxCalls /\ calls' = calls + 1 /\ MaxCalls \in Nat
  BY CommandsAssumption DEF Begins, TypeInv, CommandsAssumption
<1>2. call' = [call EXCEPT ![c] = new]
  BY <1>1 DEF Begins
<1>3. new.id = calls + 1 /\ new.cmd = cmd
  OBVIOUS
<1> HIDE DEF new
<1>4. ASSUME NEW d \in Callers
      PROVE  call'[d].id \in Nat /\ call'[d].id <= calls' /\ call'[d].cmd \in Commands \cup {Unused}
  BY <1>1, <1>2, <1>3 DEF TypeInv
<1>5. call' = [d \in Callers |-> call'[d]]
  BY <1>2 DEF TypeInv
<1>6. clean' \in [Callers -> BOOLEAN]
  BY DEF Begins
<1> QED
  BY <1>1, <1>2, <1>4, <1>5, <1>6 DEF new

LEMMA TypeStep == TypeInv /\ [Next]_vars => TypeInv'
<1> SUFFICES ASSUME TypeInv, [Next]_vars PROVE TypeInv'
  OBVIOUS
<1>1. CASE Serve
  <2>1. Head(queue) \in Writes /\ Tail(queue) \in Seq(Writes)
    BY <1>1, HeadTailProperties DEF TypeInv, Serve
  <2>2. panel' = Done(Head(queue).cmd, panel) \/ panel' = panel
    BY <1>1 DEF Serve
  <2>3. panel' \in Panels
    BY <2>1, <2>2, DoneType DEF Writes, TypeInv
  <2>4. executed' \in [1..MaxCalls -> Nat]
    BY <1>1, <2>1 DEF Serve, TypeInv, Writes
  <2>5. line' \in Seq(Messages)
    <3>1. line' = line \/ line' = line \o Says(Head(queue).cmd, panel')
      BY <1>1, Zenon DEF Serve
    <3>2. Says(Head(queue).cmd, panel') \in Seq(Messages)
      BY <2>1, <2>3, SaysType DEF Writes
    <3> QED
      BY <3>1, <3>2, MessagesJoin, Zenon DEF TypeInv
  <2> QED
    BY <1>1, <2>1, <2>3, <2>4, <2>5 DEF Serve, TypeInv, callVars
<1>2. CASE Read
  <2>1. line' \in Seq(Messages)
    BY <1>2, HeadTailProperties DEF Read, TypeInv
  <2>2. stage' \in [Callers -> {"idle", "waiting", "answered"}]
    BY <1>2 DEF Read, TypeInv
  <2> QED
    BY <1>2, <2>1, <2>2 DEF Read, TypeInv, linkVars
<1>3. CASE \E cmd \in Commands : Keypad(cmd)
  <2>1. panel' \in Panels
    BY <1>3, DoneType DEF Keypad, TypeInv
  <2>2. line' \in Seq(Messages)
    <3>1. PICK cmd \in Commands : line' = line \/ line' = line \o Says(cmd, panel')
      BY <1>3, Zenon DEF Keypad
    <3> QED
      BY <2>1, <3>1, SaysType, MessagesJoin, Zenon DEF TypeInv
  <2> QED
    BY <1>3, <2>1, <2>2 DEF Keypad, Event, TypeInv, callVars
<1>4. CASE TransportLost \/ TransportBack \/ ElkRP \/ Unload
  <2>1. queue' \in Seq(Writes)
    <3>1. CASE TransportLost \/ TransportBack \/ Unload
      BY <3>1 DEF TransportLost, TransportBack, Unload, TypeInv
    <3>2. CASE ElkRP
      BY <3>2 DEF ElkRP, TypeInv
    <3> QED
      BY <1>4, <3>1, <3>2
  <2>2. line' \in Seq(Messages)
    <3>1. CASE TransportBack \/ ElkRP
      BY <3>1 DEF TransportBack, ElkRP, TypeInv
    <3>2. CASE TransportLost \/ Unload
      <4>1. line' = <<>>
        BY <3>2, Zenon DEF TransportLost, Unload
      <4> QED
        BY <4>1
    <3> QED
      BY <1>4, <3>1, <3>2
  <2> QED
    BY <1>4, <2>1, <2>2 DEF TransportLost, TransportBack, ElkRP, Unload, Event, TypeInv, callVars
<1>5. ASSUME NEW c \in Callers, NEW cmd \in Commands, Shortcut(c, cmd) \/ Refused(c, cmd) PROVE TypeInv'
  <2>1. Begins(c, cmd)
    BY <1>5 DEF Shortcut, Refused
  <2>2. UNCHANGED <<queue, line, stage, panel, executed>>
    BY <1>5 DEF Shortcut, Refused, Begins
  <2>3. outcome' \in [Callers -> {"none", "ok", "refused", "timeout", "crashed"}]
    BY <1>5 DEF Shortcut, Refused, TypeInv
  <2> QED
    BY <2>1, <2>2, <2>3, BeginsType DEF TypeInv
<1>6. ASSUME NEW c \in Callers, NEW cmd \in Commands, Issues(c, cmd) PROVE TypeInv'
  <2>1. Begins(c, cmd) /\ Write(cmd) /\ UNCHANGED <<outcome, line, panel, executed>>
    BY <1>6 DEF Issues, Begins
  <2>2. stage' \in [Callers -> {"idle", "waiting", "answered"}]
    BY <1>6 DEF Issues, TypeInv
  <2>3. queue' \in Seq(Writes)
    <3>1. [id |-> calls + 1, cmd |-> cmd] \in Writes
      BY DEF Writes, TypeInv
    <3> QED
      BY <2>1, <3>1, AppendProperties DEF Write, TypeInv
  <2> QED
    BY <2>1, <2>2, <2>3, BeginsType DEF TypeInv
<1>7. ASSUME NEW c \in Callers, NEW result \in {"ok", "timeout"}, Ends(c, result) PROVE TypeInv'
  BY <1>7 DEF Ends, TypeInv, hubVars
<1>8. CASE UNCHANGED vars
  BY <1>8 DEF vars, hubVars, callVars, TypeInv
<1> QED
  BY <1>1, <1>2, <1>3, <1>4, <1>5, <1>6, <1>7, <1>8 DEF Next, Confirmed, TimesOut

LEMMA TypeInit == Init => TypeInv
<1> SUFFICES ASSUME Init PROVE TypeInv
  OBVIOUS
<1>1. panel \in Panels
  BY DEF Init, Panels, Disarmed
<1>2. queue \in Seq(Writes) /\ line \in Seq(Messages) /\ calls \in Nat /\ calls <= MaxCalls
  <2>1. queue = <<>> /\ line = <<>> /\ calls = 0
    BY DEF Init
  <2> QED
    BY <2>1, CommandsAssumption DEF CommandsAssumption
<1>3. /\ call = [c \in Callers |-> call[c]]
      /\ \A c \in Callers : call[c].id \in Nat /\ call[c].id <= calls /\ call[c].cmd \in Commands \cup {Unused}
  BY DEF Init, Unused
<1>4. /\ stage \in [Callers -> {"idle", "waiting", "answered"}]
      /\ outcome \in [Callers -> {"none", "ok", "refused", "timeout", "crashed"}]
      /\ clean \in [Callers -> BOOLEAN]
      /\ executed \in [1..MaxCalls -> Nat]
  BY DEF Init
<1> QED
  BY <1>1, <1>2, <1>3, <1>4 DEF TypeInv

-----------------------------------------------------------------------------
(***************************************************************************)
(* A write is queued under the number of its call and leaves the queue      *)
(* when it is executed; nothing of a refused call was ever queued.          *)
(***************************************************************************)
Ids(q) == {q[i].id : i \in DOMAIN q}

Once ==
  /\ \A i \in DOMAIN queue : queue[i].id \in 1..calls
  /\ \A i, j \in DOMAIN queue : queue[i].id = queue[j].id => i = j
  /\ \A n \in 1..MaxCalls : executed[n] = 0 \/ (executed[n] = 1 /\ n <= calls /\ n \notin Ids(queue))
  /\ \A c \in Callers : ~Active(c) /\ outcome[c] = "refused" =>
       call[c].id \in 1..calls /\ executed[call[c].id] = 0 /\ call[c].id \notin Ids(queue)

LEMMA OnceInit == Init => Once
<1> SUFFICES ASSUME Init PROVE Once
  OBVIOUS
<1>1. queue = <<>> /\ \A c \in Callers : outcome[c] = "none"
  BY DEF Init
<1>2. \A n \in 1..MaxCalls : executed[n] = 0
  BY DEF Init
<1> QED
  BY <1>1, <1>2 DEF Once

\* What a step that only removes writes, executing none, leaves alone.
LEMMA OnceOfFewer ==
  ASSUME TypeInv, Once, UNCHANGED <<executed, calls, call, outcome>>,
         \A c \in Callers : Active(c)' \/ ~Active(c),
         queue' = queue \/ queue' = <<>>
  PROVE  Once'
<1>1. \A n : n \in Ids(queue') => n \in Ids(queue)
  BY DEF Ids
<1> QED
  BY <1>1 DEF Once

LEMMA OnceServed == ASSUME TypeInv, Once, Serve PROVE Once'
<1> DEFINE head == Head(queue)
<1>1. /\ head = queue[1] /\ head.id \in 1..calls /\ head.id \in 1..MaxCalls
      /\ Len(queue) \in Nat \ {0} /\ DOMAIN queue = 1..Len(queue)
  <2>1. head = queue[1] /\ Len(queue) \in Nat \ {0} /\ DOMAIN queue = 1..Len(queue)
    BY HeadTailProperties DEF Serve, TypeInv
  <2>2. head.id \in 1..calls
    BY <2>1 DEF Once
  <2> QED
    BY <2>1, <2>2, CommandsAssumption DEF TypeInv, CommandsAssumption
<1>2. /\ DOMAIN queue' = 1..(Len(queue) - 1)
      /\ \A i \in DOMAIN queue' : i + 1 \in DOMAIN queue /\ queue'[i] = queue[i + 1]
  BY HeadTailProperties DEF Serve, TypeInv
<1>3. \A n : n \in Ids(queue') => n \in Ids(queue) /\ n # head.id
  <2> SUFFICES ASSUME NEW n, NEW i \in DOMAIN queue', queue'[i].id = n PROVE n \in Ids(queue) /\ n # head.id
    BY DEF Ids
  <2>1. i + 1 \in DOMAIN queue /\ queue[i + 1].id = n /\ i + 1 # 1 /\ 1 \in DOMAIN queue
    BY <1>1, <1>2
  <2> QED
    BY <1>1, <2>1 DEF Ids, Once
<1>4. head.id \in Ids(queue)
  BY <1>1 DEF Ids
<1>5. UNCHANGED <<calls, call, outcome, stage>>
  BY DEF Serve, callVars
<1>6. executed[head.id] = 0
  BY <1>1, <1>4 DEF Once
<1>7. \/ executed' = executed
      \/ executed' = [executed EXCEPT ![head.id] = 1]
  BY <1>1, <1>6, TypeInv DEF Serve, TypeInv
<1>8. \A i \in DOMAIN queue' : queue'[i].id \in 1..calls'
  BY <1>2, <1>5 DEF Once
<1>9. \A i, j \in DOMAIN queue' : queue'[i].id = queue'[j].id => i = j
  <2> SUFFICES ASSUME NEW i \in DOMAIN queue', NEW j \in DOMAIN queue', queue'[i].id = queue'[j].id PROVE i = j
    OBVIOUS
  <2>1. i + 1 = j + 1
    BY <1>2 DEF Once
  <2> QED
    BY <1>1, <1>2, <2>1
<1>10. ASSUME NEW n \in 1..MaxCalls
       PROVE  executed'[n] = 0 \/ (executed'[n] = 1 /\ n <= calls' /\ n \notin Ids(queue'))
  <2>1. executed'[n] = executed[n] \/ (n = head.id /\ executed'[n] = 1)
    BY <1>1, <1>7 DEF TypeInv
  <2> QED
    BY <1>1, <1>3, <1>5, <2>1 DEF Once
<1>11. ASSUME NEW c \in Callers, ~Active(c)', outcome'[c] = "refused"
       PROVE  call'[c].id \in 1..calls' /\ executed'[call'[c].id] = 0 /\ call'[c].id \notin Ids(queue')
  <2>1. /\ call[c].id \in 1..calls /\ executed[call[c].id] = 0 /\ call[c].id \notin Ids(queue)
        /\ call'[c].id = call[c].id
    BY <1>5, <1>11 DEF Once, Active
  <2>2. call[c].id # head.id
    BY <1>4, <2>1
  <2>3. executed'[call[c].id] = 0
    BY <1>1, <1>7, <2>1, <2>2, CommandsAssumption, SMTT(60) DEF TypeInv, CommandsAssumption
  <2> QED
    BY <1>3, <1>5, <2>1, <2>3
<1> QED
  BY <1>8, <1>9, <1>10, <1>11 DEF Once

\* A call that begins has a number of its own.
LEMMA OnceBegun ==
  ASSUME TypeInv, Once, NEW c \in Callers, NEW cmd \in Commands, Begins(c, cmd),
         queue' = queue \/ (queue' = Append(queue, [id |-> calls + 1, cmd |-> cmd]) /\ Active(c)'),
         \A d \in Callers \ {c} : outcome'[d] = outcome[d] /\ stage'[d] = stage[d]
  PROVE  Once'
<1>1. /\ calls \in Nat /\ calls' = calls + 1 /\ calls' \in 1..MaxCalls /\ executed' = executed
      /\ call'[c].id = calls + 1 /\ \A d \in Callers \ {c} : call'[d] = call[d]
  <2> DEFINE new == [id |-> calls + 1, cmd |-> cmd, expected |-> Expected(cmd)]
  <2>1. calls \in Nat /\ calls' = calls + 1 /\ calls' <= MaxCalls /\ call' = [call EXCEPT ![c] = new]
    BY BeginsType DEF TypeInv
  <2>2. executed' = executed
    BY DEF Begins
  <2>3. new.id = calls + 1
    OBVIOUS
  <2> HIDE DEF new
  <2>4. call'[c] = new /\ \A d \in Callers \ {c} : call'[d] = call[d]
    BY <2>1 DEF TypeInv
  <2> QED
    BY <2>1, <2>2, <2>3, <2>4, CommandsAssumption DEF CommandsAssumption
<1>2. Len(queue) \in Nat /\ DOMAIN queue = 1..Len(queue)
  BY DEF TypeInv
<1>3. calls + 1 \notin Ids(queue) /\ executed[calls + 1] = 0
  BY <1>1 DEF Ids, Once
<1>4. /\ \A i \in DOMAIN queue' : queue'[i].id \in 1..calls'
      /\ \A i, j \in DOMAIN queue' : queue'[i].id = queue'[j].id => i = j
      /\ \A n : n \in Ids(queue') => n \in Ids(queue) \/ (n = calls + 1 /\ Active(c)')
  <2>1. CASE queue' = queue
    BY <1>1, <2>1 DEF Once, Ids
  <2>2. CASE queue' = Append(queue, [id |-> calls + 1, cmd |-> cmd]) /\ Active(c)'
    <3>1. /\ DOMAIN queue' = 1..(Len(queue) + 1)
          /\ \A i \in DOMAIN queue : queue'[i] = queue[i]
          /\ queue'[Len(queue) + 1].id = calls + 1
      BY <1>2, <2>2 DEF TypeInv
    <3>2. \A i \in DOMAIN queue' : i \in DOMAIN queue \/ i = Len(queue) + 1
      BY <1>2, <3>1
    <3> QED
      BY <1>1, <1>3, <2>2, <3>1, <3>2 DEF Once, Ids
  <2> QED
    BY <2>1, <2>2
<1>5. ASSUME NEW n \in 1..MaxCalls
      PROVE  executed'[n] = 0 \/ (executed'[n] = 1 /\ n <= calls' /\ n \notin Ids(queue'))
  BY <1>1, <1>4, <1>5 DEF Once
<1>6. ASSUME NEW d \in Callers, ~Active(d)', outcome'[d] = "refused"
      PROVE  call'[d].id \in 1..calls' /\ executed'[call'[d].id] = 0 /\ call'[d].id \notin Ids(queue')
  <2>1. CASE d = c
    BY <1>1, <1>3, <1>4, <1>6, <2>1
  <2>2. CASE d # c
    <3>1. call[d].id \in 1..calls /\ executed[call[d].id] = 0 /\ call[d].id \notin Ids(queue) /\ call'[d] = call[d]
      BY <1>1, <1>6, <2>2 DEF Once, Active
    <3> QED
      BY <1>1, <1>4, <3>1
  <2> QED
    BY <2>1, <2>2
<1> QED
  BY <1>4, <1>5, <1>6 DEF Once

LEMMA OnceStep == TypeInv /\ Once /\ [Next]_vars => Once'
<1> SUFFICES ASSUME TypeInv, Once, [Next]_vars PROVE Once'
  OBVIOUS
<1>1. CASE Serve
  BY <1>1, OnceServed
<1>2. CASE Read
  <2>1. \A c \in Callers : Active(c)' <=> Active(c)
    BY <1>2 DEF Read, Active, TypeInv
  <2> QED
    BY <1>2, <2>1, OnceOfFewer DEF Read
<1>3. ASSUME NEW cmd \in Commands, Keypad(cmd) PROVE Once'
  BY <1>3, OnceOfFewer DEF Keypad, Event, callVars, Active
<1>4. CASE TransportLost \/ TransportBack \/ Unload
  <2>1. Event /\ queue' = queue
    BY <1>4 DEF TransportLost, TransportBack, Unload
  <2> QED
    BY <2>1, OnceOfFewer DEF Event, callVars, Active
<1>5. CASE ElkRP
  <2>1. Event /\ (queue' = queue \/ queue' = <<>>)
    BY <1>5 DEF ElkRP
  <2> QED
    BY <2>1, OnceOfFewer DEF Event, callVars, Active
<1>6. ASSUME NEW c \in Callers, NEW cmd \in Commands, Shortcut(c, cmd) \/ Refused(c, cmd) PROVE Once'
  <2>1. Begins(c, cmd) /\ queue' = queue /\ \A d \in Callers \ {c} : outcome'[d] = outcome[d] /\ stage'[d] = stage[d]
    BY <1>6 DEF Shortcut, Refused, TypeInv
  <2> QED
    BY <2>1, OnceBegun
<1>7. ASSUME NEW c \in Callers, NEW cmd \in Commands, Issues(c, cmd) PROVE Once'
  <2>1. Begins(c, cmd) /\ Write(cmd) /\ \A d \in Callers \ {c} : outcome'[d] = outcome[d] /\ stage'[d] = stage[d]
    BY <1>7 DEF Issues, TypeInv
  <2>2. Active(c)'
    BY <1>7 DEF Issues, Active, TypeInv
  <2>3. queue' = queue \/ queue' = Append(queue, [id |-> calls + 1, cmd |-> cmd])
    BY <2>1, Zenon DEF Write
  <2> QED
    BY <2>1, <2>2, <2>3, OnceBegun
<1>8. ASSUME NEW c \in Callers, Active(c), NEW result \in {"ok", "timeout"}, Ends(c, result) PROVE Once'
  <2>1. outcome'[c] # "refused" /\ \A d \in Callers \ {c} : outcome'[d] = outcome[d] /\ stage'[d] = stage[d]
    BY <1>8 DEF Ends, TypeInv
  <2>2. UNCHANGED <<executed, calls, call, queue>>
    BY <1>8 DEF Ends, hubVars
  <2> QED
    BY <2>1, <2>2 DEF Once, Ids, Active
<1>9. CASE UNCHANGED vars
  BY <1>9, OnceOfFewer DEF vars, hubVars, callVars, Active
<1> QED
  BY <1>1, <1>2, <1>3, <1>4, <1>5, <1>6, <1>7, <1>8, <1>9 DEF Next, Confirmed, TimesOut, Active

LEMMA OnceMeans == TypeInv /\ Once => AtMostOnce
<1> SUFFICES ASSUME TypeInv, Once PROVE AtMostOnce
  OBVIOUS
<1> DEFINE at(n) == {i \in DOMAIN queue : queue[i].id = n}
           left(n) == Cardinality(at(n))
<1>1. ASSUME NEW n, n \notin Ids(queue) PROVE left(n) = 0
  BY <1>1, FS_EmptySet DEF Ids
<1>2. ASSUME NEW n, n \in Ids(queue) PROVE left(n) = 1
  <2>1. PICK i \in DOMAIN queue : queue[i].id = n
    BY <1>2 DEF Ids
  <2>2. at(n) = {i}
    BY <2>1 DEF Once
  <2> QED
    BY <2>2, FS_Singleton
<1>3. \A n \in 1..MaxCalls : executed[n] + left(n) <= 1
  BY <1>1, <1>2 DEF Once
<1>4. \A c \in Callers : ~Active(c) /\ outcome[c] = "refused" => executed[call[c].id] + left(call[c].id) = 0
  BY <1>1 DEF Once
<1> QED
  BY <1>3, <1>4 DEF AtMostOnce

-----------------------------------------------------------------------------
(***************************************************************************)
(* What an undisturbed call can be confirmed by.  Its write finds the panel *)
(* as the call found it; from then on whatever confirms it, an answer under *)
(* way included, is true of the panel.                                      *)
(***************************************************************************)
\* The value a call waits for is the one its command asks for.
ExpectsIts(c) ==
  /\ call[c].cmd.kind = "arm" => call[c].expected = Confirms(call[c].cmd.level)
  /\ call[c].cmd.kind = "set" => call[c].expected = call[c].cmd.value

\* Achieved, of any state of the panel.
Meets(p, cmd, expected) ==
  /\ cmd.kind = "arm" => p.armed[cmd.area] = expected
  /\ cmd.kind = "bypass" => (cmd.zone \in p.bypassed) = expected
  /\ cmd.kind = "bypass_area" => p.bypassed = Zones
  /\ cmd.kind = "clear_bypass" => p.bypassed = {}
  /\ cmd.kind = "set" /\ cmd.register[1] # "thermostat" => p.register[cmd.register] = expected

\* The write is still to be served, by a panel that nothing has changed.
Untouched(c) ==
  /\ Len(queue) = 1 /\ queue[1].cmd = call[c].cmd /\ line = <<>>
  /\ call[c].cmd.kind = "bypass" =>
       call[c].expected = (call[c].cmd.zone \notin panel.bypassed)

\* The caller has been told that its command is done, or is about to be.
Claims(c) == stage[c] = "answered" \/ (stage[c] = "idle" /\ outcome[c] = "ok")

Truthful(c) ==
  /\ queue = <<>> \/ Untouched(c)
  /\ \A i \in DOMAIN line : Matches(call[c].cmd, call[c].expected, line[i]) =>
       Meets(panel, call[c].cmd, call[c].expected)
  /\ Claims(c) => Meets(panel, call[c].cmd, call[c].expected)

Undisturbed ==
  /\ \A c \in Callers : ExpectsIts(c)
  /\ \A c \in Callers : clean[c] => Truthful(c)

LEMMA AchievedMeets ==
  ASSUME NEW cmd, NEW expected
  PROVE  Meets(panel, cmd, expected) => Achieved(cmd, expected)
<1>1. CASE cmd.kind = "arm"
  BY <1>1, Zenon DEF Meets, Achieved
<1>2. CASE cmd.kind = "bypass"
  BY <1>2 DEF Meets, Achieved
<1>3. CASE cmd.kind \in {"bypass_area", "clear_bypass", "set"}
  BY <1>3 DEF Meets, Achieved
<1>4. CASE cmd.kind \notin {"arm", "bypass", "bypass_area", "clear_bypass", "set"}
  BY <1>4 DEF Meets, Achieved
<1> QED
  BY <1>1, <1>2, <1>3, <1>4

\* A command that the panel executes is achieved.
LEMMA MeetsDone ==
  ASSUME NEW p \in Panels, NEW cmd \in Commands, NEW expected,
         cmd.kind = "arm" => expected = Confirms(cmd.level),
         cmd.kind = "set" => expected = cmd.value,
         cmd.kind = "bypass" => expected = (cmd.zone \notin p.bypassed)
  PROVE  Meets(Done(cmd, p), cmd, expected)
<1>1. CommandOK(cmd)
  BY CommandIs
<1>2. CASE cmd.kind = "arm"
  BY <1>1, <1>2 DEF CommandOK, Meets, Done, Panels
<1>3. CASE cmd.kind = "bypass"
  <2>1. Done(cmd, p).bypassed = (p.bypassed \ {cmd.zone}) \cup ({cmd.zone} \ p.bypassed)
    BY <1>3 DEF Done, Panels
  <2>2. (cmd.zone \in Done(cmd, p).bypassed) <=> (cmd.zone \notin p.bypassed)
    BY <2>1
  <2>3. (cmd.zone \in Done(cmd, p).bypassed) = expected
    BY <1>3, <2>2
  <2> QED
    BY <1>3, <2>3 DEF Meets
<1>4. CASE cmd.kind \in {"bypass_area", "clear_bypass"}
  BY <1>4 DEF Meets, Done, Panels
<1>5. CASE cmd.kind = "set"
  BY <1>1, <1>5 DEF CommandOK, Meets, Done, Panels
<1>6. CASE cmd.kind \notin {"arm", "bypass", "bypass_area", "clear_bypass", "set"}
  BY <1>6 DEF Meets
<1> QED
  BY <1>2, <1>3, <1>4, <1>5, <1>6

\* A panel that refuses a value reports the one it has, which confirms only itself.
LEMMA RefusalIsTrue ==
  ASSUME NEW p \in Panels, NEW cmd \in Commands, NEW expected,
         cmd.kind \in {"set", "refresh"},
         NEW i \in DOMAIN Says(cmd, p), Matches(cmd, expected, Says(cmd, p)[i])
  PROVE  Meets(p, cmd, expected)
<1> DEFINE m == Value(cmd.register, p.register[cmd.register])
<1>1. CASE cmd.kind = "refresh"
  BY <1>1 DEF Meets
<1>2. CASE cmd.kind = "set" /\ cmd.register[1] # "thermostat"
  <2>1. Says(cmd, p) = <<m>>
    BY <1>2 DEF Says
  <2>2. Matches(cmd, expected, m)
    BY <2>1
  <2>3. m.value = p.register[cmd.register] /\ m.type # "TR"
    BY <1>2 DEF Value
  <2>4. m.value = expected
    BY <1>2, <2>2, <2>3 DEF Matches, CounterConfirms, SettingConfirms
  <2> QED
    BY <1>2, <2>3, <2>4 DEF Meets
<1>3. CASE cmd.kind = "set" /\ cmd.register[1] = "thermostat"
  BY <1>3 DEF Meets
<1> QED
  BY <1>1, <1>2, <1>3

\* What changes nothing at the panel and reads no more than its messages.
LEMMA TruthfulOfLess ==
  ASSUME TypeInv, NEW c \in Callers, Truthful(c), UNCHANGED <<panel, call>>,
         queue' = queue,
         line' = line \/ (line # <<>> /\ line' = Tail(line)),
         Claims(c)' => Claims(c) \/ \E i \in DOMAIN line : Matches(call[c].cmd, call[c].expected, line[i])
  PROVE  Truthful(c)'
<1>1. ASSUME NEW i \in DOMAIN line' PROVE \E j \in DOMAIN line : line'[i] = line[j]
  <2>1. CASE line' = line
    BY <2>1
  <2>2. CASE line # <<>> /\ line' = Tail(line)
    <3>1. DOMAIN line = 1..Len(line) /\ Len(line) \in Nat /\ DOMAIN line' = 1..(Len(line) - 1) /\ line'[i] = line[i + 1]
      BY <1>1, <2>2, HeadTailProperties DEF TypeInv
    <3> QED
      BY <3>1
  <2> QED
    BY <2>1, <2>2
<1>2. \A i \in DOMAIN line' : Matches(call'[c].cmd, call'[c].expected, line'[i]) =>
        Meets(panel', call'[c].cmd, call'[c].expected)
  BY <1>1 DEF Truthful
<1>3. queue' = <<>> \/ Untouched(c)'
  BY DEF Truthful, Untouched
<1>4. Claims(c)' => Meets(panel', call'[c].cmd, call'[c].expected)
  BY DEF Truthful
<1> QED
  BY <1>2, <1>3, <1>4 DEF Truthful

LEMMA TruthfulServed ==
  ASSUME TypeInv, NEW c \in Callers, ExpectsIts(c), Truthful(c), Serve
  PROVE  Truthful(c)'
<1> DEFINE cmd == call[c].cmd
           e == call[c].expected
<1>1. UNCHANGED <<call, stage, outcome>>
  BY DEF Serve, callVars
<1>2. Untouched(c)
  BY DEF Serve, Truthful
<1>3. Head(queue).cmd = cmd /\ cmd \in Commands /\ queue' = <<>>
  <2>1. Head(queue) = queue[1] /\ queue[1] \in Writes /\ Tail(queue) = <<>>
    <3>1. queue \in Seq(Writes) /\ Len(queue) = 1
      BY <1>2 DEF TypeInv, Untouched
    <3>2. queue # <<>> /\ queue[1] \in Writes
      BY <3>1
    <3>3. Head(queue) = queue[1] /\ Tail(queue) \in Seq(Writes) /\ Len(Tail(queue)) = 0
      BY <3>1, <3>2, HeadTailProperties
    <3> QED
      BY <3>2, <3>3, EmptySeq
  <2> QED
    BY <1>2, <2>1 DEF Untouched, Writes, Serve
<1>4. \/ panel' = Done(cmd, panel)
      \/ panel' = panel /\ line' = (IF cmd.kind \in {"set", "refresh"} THEN line \o Says(cmd, panel) ELSE line)
  BY <1>3 DEF Serve
<1>5. CASE panel' = Done(cmd, panel)
  <2>1. Meets(panel', cmd, e)
    BY <1>2, <1>3, <1>5, MeetsDone DEF ExpectsIts, Untouched, TypeInv
  <2> QED
    BY <1>1, <1>3, <2>1 DEF Truthful
<1>6. CASE panel' = panel /\ line' = (IF cmd.kind \in {"set", "refresh"} THEN line \o Says(cmd, panel) ELSE line)
  <2>1. CASE cmd.kind \in {"set", "refresh"}
    <3>1. line = <<>> /\ Says(cmd, panel) \in Seq(Messages) /\ panel \in Panels
      BY <1>2, <1>3, SaysType DEF Untouched, TypeInv
    <3>2. line' = Says(cmd, panel)
      BY <1>6, <2>1, <3>1, ConcatEmptySeq
    <3>3. \A i \in DOMAIN line' : Matches(cmd, e, line'[i]) => Meets(panel, cmd, e)
      BY <1>3, <2>1, <3>1, <3>2, RefusalIsTrue
    <3> QED
      BY <1>1, <1>3, <1>6, <3>3 DEF Truthful, Claims
  <2>2. CASE cmd.kind \notin {"set", "refresh"}
    <3>1. line' = line
      BY <1>6, <2>2
    <3> QED
      BY <1>1, <1>3, <1>6, <3>1 DEF Truthful, Claims
  <2> QED
    BY <2>1, <2>2
<1> QED
  BY <1>4, <1>5, <1>6

\* A call that finds everything quiet and the hub in step with the panel.
LEMMA TruthfulBegun ==
  ASSUME TypeInv, NEW c \in Callers, NEW cmd \in Commands, Begins(c, cmd), clean'[c],
         \/ Shortcut(c, cmd) \/ Refused(c, cmd) \/ Issues(c, cmd)
  PROVE  Truthful(c)'
<1> DEFINE new == [id |-> calls + 1, cmd |-> cmd, expected |-> Expected(cmd)]
<1>1. queue = <<>> /\ line = <<>> /\ mirror = panel /\ panel' = panel /\ line' = line
  BY DEF Begins
<1>2. call'[c] = new
  BY DEF Begins, TypeInv
<1>3. call'[c].cmd = cmd /\ call'[c].expected = Expected(cmd)
  BY <1>2
<1>4. queue' = <<>> \/ queue' = <<[id |-> calls + 1, cmd |-> cmd]>>
  <2>1. queue' = queue \/ queue' = Append(queue, [id |-> calls + 1, cmd |-> cmd])
    <3>1. CASE Shortcut(c, cmd) \/ Refused(c, cmd)
      BY <3>1 DEF Shortcut, Refused
    <3>2. CASE Issues(c, cmd)
      BY <3>2, Zenon DEF Issues, Write
    <3> QED
      BY <3>1, <3>2
  <2> QED
    BY <1>1, <2>1
<1>5. queue' = <<>> \/ Untouched(c)'
  <2>1. cmd.kind = "bypass" => call'[c].expected = (cmd.zone \notin panel'.bypassed)
    BY <1>1, <1>3 DEF Expected
  <2> QED
    BY <1>1, <1>3, <1>4, <2>1 DEF Untouched
<1>6. Claims(c)' => Meets(panel', cmd, Expected(cmd))
  <2>1. CASE Shortcut(c, cmd)
    BY <1>1, <2>1 DEF Shortcut, AlreadyThere, Expected, Meets
  <2>2. CASE Refused(c, cmd)
    BY <2>2 DEF Refused, Begins, Active, Claims, TypeInv
  <2>3. CASE Issues(c, cmd)
    <3>1. CASE Awaited(cmd) = ""
      <4>1. CommandOK(cmd)
        BY CommandIs
      <4>2. cmd.kind = "queued"
        BY <3>1, <4>1 DEF CommandOK, Awaited
      <4> QED
        BY <4>2 DEF Meets
    <3>2. CASE Awaited(cmd) # ""
      BY <2>3, <3>2 DEF Issues, Claims, TypeInv
    <3> QED
      BY <3>1, <3>2
  <2> QED
    BY <2>1, <2>2, <2>3
<1> QED
  BY <1>1, <1>3, <1>5, <1>6 DEF Truthful

LEMMA UndisturbedInit == Init => Undisturbed
BY DEF Init, Undisturbed, ExpectsIts

LEMMA UndisturbedStep == TypeInv /\ Undisturbed /\ [Next]_vars => Undisturbed'
<1> SUFFICES ASSUME TypeInv, Undisturbed, [Next]_vars PROVE Undisturbed'
  OBVIOUS
<1>1. CASE Serve
  <2>1. UNCHANGED <<call, clean>>
    BY <1>1 DEF Serve, callVars
  <2>2. ASSUME NEW c \in Callers, clean[c] PROVE Truthful(c)'
    BY <1>1, <2>2, TruthfulServed DEF Undisturbed
  <2> QED
    BY <2>1, <2>2 DEF Undisturbed, ExpectsIts
<1>2. CASE Read
  <2>1. UNCHANGED <<panel, queue, call, outcome, clean>> /\ line # <<>> /\ line' = Tail(line)
    BY <1>2 DEF Read
  <2>2. ASSUME NEW c \in Callers
        PROVE  Claims(c)' => Claims(c) \/ \E i \in DOMAIN line : Matches(call[c].cmd, call[c].expected, line[i])
    <3>1. 1 \in DOMAIN line /\ Head(line) = line[1]
      BY <2>1 DEF TypeInv
    <3>2. stage'[c] = stage[c] \/ Matches(call[c].cmd, call[c].expected, Head(line))
      BY <1>2 DEF Read
    <3> QED
      BY <2>1, <3>1, <3>2 DEF Claims
  <2>3. ASSUME NEW c \in Callers, clean[c] PROVE Truthful(c)'
    BY <2>1, <2>2, <2>3, TruthfulOfLess DEF Undisturbed
  <2> QED
    BY <2>1, <2>3 DEF Undisturbed, ExpectsIts
<1>3. CASE Event
  BY <1>3 DEF Event, callVars, Undisturbed, ExpectsIts
<1>4. ASSUME NEW c \in Callers, NEW cmd \in Commands, Shortcut(c, cmd) \/ Refused(c, cmd) \/ Issues(c, cmd)
      PROVE  Undisturbed'
  <2> DEFINE new == [id |-> calls + 1, cmd |-> cmd, expected |-> Expected(cmd)]
  <2>1. Begins(c, cmd)
    BY <1>4 DEF Shortcut, Refused, Issues
  <2>2. call' = [call EXCEPT ![c] = new] /\ \A d \in Callers \ {c} : ~clean'[d]
    BY <2>1, BeginsType DEF Begins
  <2>3. new.cmd = cmd /\ new.expected = Expected(cmd)
    OBVIOUS
  <2> HIDE DEF new
  <2>4. call'[c] = new /\ \A d \in Callers \ {c} : call'[d] = call[d]
    BY <2>2 DEF TypeInv
  <2>5. ExpectsIts(c)'
    BY <2>3, <2>4 DEF ExpectsIts, Expected
  <2>6. \A d \in Callers : ExpectsIts(d)'
    BY <2>4, <2>5 DEF Undisturbed, ExpectsIts
  <2>7. \A d \in Callers : clean'[d] => Truthful(d)'
    BY <1>4, <2>1, <2>2, TruthfulBegun
  <2> QED
    BY <2>6, <2>7 DEF Undisturbed
<1>5. ASSUME NEW c \in Callers, NEW result \in {"ok", "timeout"}, Ends(c, result),
             Active(c), result = "ok" => stage[c] = "answered"
      PROVE  Undisturbed'
  <2>1. UNCHANGED <<panel, queue, line, call, clean>>
    BY <1>5 DEF Ends, hubVars
  <2>2. ASSUME NEW d \in Callers PROVE Claims(d)' => Claims(d)
    <3>1. CASE d = c
      BY <1>5, <3>1 DEF Ends, Claims, TypeInv
    <3>2. CASE d # c
      BY <1>5, <3>2 DEF Ends, Claims, TypeInv
    <3> QED
      BY <3>1, <3>2
  <2>3. ASSUME NEW d \in Callers, clean[d] PROVE Truthful(d)'
    BY <2>1, <2>2, <2>3, TruthfulOfLess DEF Undisturbed
  <2> QED
    BY <2>1, <2>3 DEF Undisturbed, ExpectsIts
<1>6. CASE UNCHANGED vars
  <2>1. UNCHANGED <<panel, queue, line, call, clean, stage, outcome>>
    BY <1>6 DEF vars, hubVars, callVars
  <2>2. ASSUME NEW d \in Callers, clean[d] PROVE Truthful(d)'
    BY <2>1, <2>2, TruthfulOfLess DEF Undisturbed, Claims
  <2> QED
    BY <2>1, <2>2 DEF Undisturbed, ExpectsIts
<1>7. CASE (\E cmd \in Commands : Keypad(cmd)) \/ TransportLost \/ TransportBack \/ ElkRP \/ Unload
  BY <1>3, <1>7 DEF Keypad, TransportLost, TransportBack, ElkRP, Unload
<1> QED
  BY <1>1, <1>2, <1>4, <1>5, <1>6, <1>7 DEF Next, Confirmed, TimesOut, Active

LEMMA UndisturbedMeans == Undisturbed => UndisturbedSuccess
BY AchievedMeets DEF Undisturbed, UndisturbedSuccess, Truthful, Claims, Active

-----------------------------------------------------------------------------
\* The panel, the queue, the line and the callers are what the actions take them for.
THEOREM TypeCorrect == Spec => []TypeInv
BY TypeInit, TypeStep, PTL DEF Spec

\* Whoever else sends commands, whatever happens to the transport: the panel
\* executes a call at most once, and none that was refused.
THEOREM ExecutedAtMostOnce == Spec => []AtMostOnce
<1>1. Spec => []Once
  BY TypeCorrect, OnceInit, OnceStep, PTL DEF Spec
<1> QED
  BY <1>1, TypeCorrect, OnceMeans, PTL

\* A caller that nobody interfered with is told of success by the panel's own
\* state only.
THEOREM SuccessIsTrue == Spec => []UndisturbedSuccess
<1>1. Spec => []Undisturbed
  BY TypeCorrect, UndisturbedInit, UndisturbedStep, PTL DEF Spec
<1> QED
  BY <1>1, UndisturbedMeans, PTL

-----------------------------------------------------------------------------
(***************************************************************************)
(* ElkEntry, for any sweep of rates and any bounds.                        *)
(*                                                                         *)
(* One invariant says who may have the port open and, with that, carries    *)
(* the rate of an open link and the copy of the data that a setup runs on. *)
(***************************************************************************)
\* What the other conjuncts take from the types.
Shapes ==
  /\ DOMAIN sweep = {"link", "flow"}
  /\ entry \in [baud : RateSet \cup {None}, edits : Nat]
  /\ panelRate \in RateSet \cup {None} /\ pending \in RateSet \cup {None}
  /\ reloads \in Nat /\ missed \in BOOLEAN

\* A link lives exactly as long as the setup it belongs to, and a probe that has
\* run out of rates has closed its port.
Owners ==
  /\ PortHasAnOwner
  /\ link = "down" <=> phase \in {"absent", "unloaded", "retry"}
  /\ phase \in Phases
  /\ \A who \in {"link", "flow"} : Probes(who) /\ port = who => sweep[who] # <<>>

\* A setup runs on the user's last settings until these change, and there are no
\* settings before there is an entry, which only a first flow creates.
Copies ==
  /\ phase = "setup" \/ (phase = "loaded" /\ reloads = 0) =>
       missed \/ running.edits = entry.edits
  /\ flow = "options" => phase = "absent"
  /\ flow = "reconfigure" => phase # "absent"
  /\ phase = "absent" => entry.edits = 0

EntryInv == Shapes /\ Owners /\ BaudIsRemembered /\ Copies

\* The configured rates and the link's own are what the initial states say.
LEMMA InitHolds == EntryInit => EntryInv
<1> SUFFICES ASSUME EntryInit PROVE EntryInv OBVIOUS
<1>1. Shapes BY DEF EntryInit, Shapes, NoEntry
<1>2. Owners BY DEF EntryInit, Owners, PortHasAnOwner, Probes, Phases
<1>3. BaudIsRemembered /\ Copies BY DEF EntryInit, BaudIsRemembered, Copies, NoEntry
<1> QED BY <1>1, <1>2, <1>3 DEF EntryInv

\* Every probe of a rate: the port opens, is refused, or closes without an answer.
LEMMA ProbingKeeps == ASSUME EntryInv, Probing PROVE EntryInv'
<1>1. ASSUME NEW who \in {"link", "flow"}, Opens(who) PROVE EntryInv'
  BY <1>1 DEF EntryInv, Shapes, Owners, PortHasAnOwner, BaudIsRemembered, Copies, Probes, Phases,
    Opens, GivesUp, panelVars, probeVars, entryVars, setupVars, flowVars
<1>2. ASSUME NEW who \in {"link", "flow"}, NoAnswer(who) PROVE EntryInv'
  BY <1>2 DEF EntryInv, Shapes, Owners, PortHasAnOwner, BaudIsRemembered, Copies, Probes, Phases,
    NoAnswer, GivesUp, ClosesPort, probeVars, entryVars, setupVars, flowVars
<1> QED BY <1>1, <1>2 DEF Probing

\* The connect task's own steps.
LEMMA LinkingKeeps == ASSUME EntryInv, Linking PROVE EntryInv'
<1> USE DEF EntryInv, Shapes, Owners, PortHasAnOwner, BaudIsRemembered, Copies, Probes, Phases,
  panelVars, entryVars, setupVars, flowVars
<1>1. CASE LinkOpens
  <2>1. /\ entry' \in [baud : RateSet \cup {None}, edits : Nat]
        /\ entry'.baud = panelRate /\ entry'.edits = entry.edits
    BY <1>1 DEF LinkOpens, Detected, Update
  <2>2. /\ missed' = missed /\ reloads' \in Nat
        /\ phase = "loaded" /\ reloads' = 0 => reloads = 0
    BY <1>1, <2>1 DEF LinkOpens, Detected, Update
  <2>3. /\ link = "probing" /\ link' = "open" /\ port = "link"
        /\ cached' = panelRate /\ UNCHANGED <<port, panelVars, setupVars, flowVars>>
        /\ sweep' = [sweep EXCEPT !["link"] = <<>>]
    BY <1>1 DEF LinkOpens, Answers, Found
  <2> QED BY <2>1, <2>2, <2>3
<1>2. CASE LinkFails BY <1>2 DEF LinkFails
<1>3. CASE LinkTimesOut BY <1>3 DEF LinkTimesOut
<1>4. CASE LinkEnds BY <1>4 DEF LinkEnds
<1>5. CASE LinkWakes BY <1>5 DEF LinkWakes, Searches
<1> QED BY <1>1, <1>2, <1>3, <1>4, <1>5 DEF Linking

\* Setups, reloads and unloads.
LEMMA EnteringKeeps == ASSUME EntryInv, Entering PROVE EntryInv'
<1> USE DEF EntryInv, Shapes, Owners, PortHasAnOwner, BaudIsRemembered, Copies, Probes, Phases,
  panelVars, probeVars, entryVars, flowVars
<1>1. CASE SetupSucceeds BY <1>1 DEF SetupSucceeds
<1>2. CASE SetupFails BY <1>2 DEF SetupFails, Disconnect
<1>3. CASE SetupAgain BY <1>3 DEF SetupAgain, SetUp, Searches
<1>4. CASE ReloadBegins BY <1>4 DEF ReloadBegins
<1>5. CASE Unloads BY <1>5 DEF Unloads, Disconnect
<1>6. CASE Migrates BY <1>6 DEF Migrates, SetUp, Searches
<1> QED BY <1>1, <1>2, <1>3, <1>4, <1>5, <1>6 DEF Entering

\* What the user sets is heard by the listener, or missed by the setup under way.
LEMMA UserUpdate ==
  ASSUME Shapes, NEW data, data.edits # entry.edits, Update(data)
  PROVE  /\ entry' = data
         /\ reloads' \in Nat /\ missed' \in BOOLEAN
         /\ phase = "loaded" => reloads' # 0
         /\ phase = "setup" => missed'
<1>1. entry' = data /\ data # entry BY DEF Update
<1>2. reloads' = IF phase \in {"loaded", "unloading"} THEN reloads + 1 ELSE reloads
  BY <1>1 DEF Update
<1>3. reloads' \in Nat /\ (phase = "loaded" => reloads' # 0) BY <1>2 DEF Shapes
<1>4. missed' = IF phase = "setup" THEN TRUE ELSE missed BY DEF Update
<1>5. missed' \in BOOLEAN /\ (phase = "setup" => missed') BY <1>4 DEF Shapes
<1> QED BY <1>1, <1>3, <1>5

\* The flows.
LEMMA FlowingKeeps == ASSUME EntryInv, Flowing PROVE EntryInv'
<1> USE DEF EntryInv, Shapes, Owners, PortHasAnOwner, BaudIsRemembered, Copies, Probes, Phases,
  panelVars, probeVars, entryVars, setupVars, flowVars
<1>1. CASE UserSubmits BY <1>1 DEF UserSubmits, FlowProbes, Spend
<1>2. CASE ReconfigureSubmits BY <1>2 DEF ReconfigureSubmits, FlowProbes, Spend
<1>3. CASE UserFinds BY <1>3 DEF UserFinds, Answers, Found
<1>4. CASE EntryCreated
  <2>1. entry' \in [baud : RateSet \cup {None}, edits : Nat] BY <1>4 DEF EntryCreated
  <2> QED BY <1>4, <2>1 DEF EntryCreated, SetUp, Searches
<1>5. CASE ReconfigureFinds
  <2>1. /\ entry' \in [baud : RateSet \cup {None}, edits : Nat]
        /\ entry'.edits # entry.edits
    BY <1>5 DEF ReconfigureFinds, Update
  <2>2. /\ reloads' \in Nat /\ missed' \in BOOLEAN
        /\ phase = "loaded" => reloads' # 0
        /\ phase = "setup" => missed'
    BY <1>5, UserUpdate DEF ReconfigureFinds
  <2>3. Shapes' BY <1>5, <2>1, <2>2 DEF ReconfigureFinds, Found
  <2>4. Owners' BY <1>5 DEF ReconfigureFinds, Answers, Found
  <2>5. BaudIsRemembered' BY <1>5 DEF ReconfigureFinds, Answers
  <2>6. Copies' BY <1>5, <2>1, <2>2 DEF ReconfigureFinds, Answers
  <2> QED BY <2>3, <2>4, <2>5, <2>6
<1>6. CASE FlowFails BY <1>6 DEF FlowFails
<1>7. CASE OptionsSubmitted
  <2>1. /\ entry' \in [baud : RateSet \cup {None}, edits : Nat]
        /\ entry'.baud = entry.baud /\ entry'.edits # entry.edits
    BY <1>7 DEF OptionsSubmitted, Update
  <2>2. /\ reloads' \in Nat /\ missed' \in BOOLEAN
        /\ phase = "loaded" => reloads' # 0
        /\ phase = "setup" => missed'
    BY <1>7, UserUpdate DEF OptionsSubmitted
  <2>3. Shapes' BY <1>7, <2>1, <2>2 DEF OptionsSubmitted
  <2>4. Owners' BY <1>7 DEF OptionsSubmitted
  <2>5. BaudIsRemembered' BY <1>7, <2>1 DEF OptionsSubmitted
  <2>6. Copies' BY <1>7, <2>1, <2>2 DEF OptionsSubmitted, Spend
  <2> QED BY <2>3, <2>4, <2>5, <2>6
<1> QED BY <1>1, <1>2, <1>3, <1>4, <1>5, <1>6, <1>7 DEF Flowing

\* What the world does: a lost port is closed, the panel changes.
LEMMA WorldKeeps == ASSUME EntryInv, Collected \/ PanelChanges PROVE EntryInv'
BY DEF EntryInv, Shapes, Owners, PortHasAnOwner, BaudIsRemembered, Copies, Probes, Phases,
  Collected, PanelChanges, Spend, panelVars, probeVars, entryVars, setupVars, flowVars

LEMMA StutterKeeps == ASSUME EntryInv, UNCHANGED allVars PROVE EntryInv'
BY DEF EntryInv, Shapes, Owners, PortHasAnOwner, BaudIsRemembered, Copies, Probes, allVars,
  panelVars, probeVars, entryVars, setupVars, flowVars

\* Every behaviour keeps the invariant.
THEOREM EntryInvariant == EntrySpec => []EntryInv
<1>1. EntryInv /\ [EntryNext]_allVars => EntryInv'
  BY ProbingKeeps, LinkingKeeps, EnteringKeeps, FlowingKeeps, WorldKeeps, StutterKeeps DEF EntryNext
<1> QED BY InitHolds, <1>1, PTL DEF EntrySpec

\* The port is never left open by one who is done with it.
THEOREM PortAlwaysHasAnOwner == EntrySpec => []PortHasAnOwner
<1>1. EntryInv => PortHasAnOwner BY DEF EntryInv, Owners
<1> QED BY EntryInvariant, <1>1, PTL

\* The rate of an open link is the entry's.
THEOREM BaudIsAlwaysRemembered == EntrySpec => []BaudIsRemembered
<1>1. EntryInv => BaudIsRemembered BY DEF EntryInv
<1> QED BY EntryInvariant, <1>1, PTL

\* A loaded entry runs on the user's last settings.
THEOREM AlwaysRunsOnItsData == EntrySpec => []RunsOnItsData
<1>1. EntryInv => RunsOnItsData BY DEF EntryInv, Copies, RunsOnItsData
<1> QED BY EntryInvariant, <1>1, PTL

\* No step takes back what the user has set.
THEOREM EditsAlwaysSurvive == EntrySpec => EditsSurvive
<1>1. ASSUME EntryInv, [EntryNext]_allVars PROVE [entry'.edits >= entry.edits]_allVars
  <2> entry \in [baud : RateSet \cup {None}, edits : Nat] BY <1>1 DEF EntryInv, Shapes
  <2>1. CASE Probing BY <2>1 DEF Probing, Opens, NoAnswer, entryVars
  <2>2. CASE Linking
    BY <2>2 DEF Linking, LinkOpens, LinkFails, LinkTimesOut, LinkEnds, LinkWakes, Detected, Update,
      entryVars
  <2>3. CASE Entering
    BY <2>3 DEF Entering, Migrates, SetupSucceeds, SetupFails, SetupAgain, ReloadBegins, Unloads,
      entryVars
  <2>4. CASE Flowing
    <3>1. CASE EntryCreated
      BY <3>1, <1>1 DEF EntryCreated, EntryInv, Copies
    <3>2. CASE ReconfigureFinds BY <3>2 DEF ReconfigureFinds, Update
    <3>3. CASE OptionsSubmitted BY <3>3 DEF OptionsSubmitted, Update
    <3>4. CASE UserSubmits \/ ReconfigureSubmits \/ UserFinds \/ FlowFails
      BY <3>4 DEF UserSubmits, ReconfigureSubmits, UserFinds, FlowFails, FlowProbes, entryVars
    <3> QED BY <2>4, <3>1, <3>2, <3>3, <3>4 DEF Flowing
  <2>5. CASE Collected \/ PanelChanges BY <2>5 DEF Collected, PanelChanges, entryVars
  <2>6. CASE UNCHANGED allVars BY <2>6
  <2> QED BY <1>1, <2>1, <2>2, <2>3, <2>4, <2>5, <2>6 DEF EntryNext
<1> QED BY EntryInvariant, <1>1, PTL DEF EntrySpec, EditsSurvive
=============================================================================
