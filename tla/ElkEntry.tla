------------------------------- MODULE ElkEntry -------------------------------
(***************************************************************************)
(* The life of the config entry around the serial port: the flows that add *)
(* and change the entry, its setup, reload and unload by Home Assistant,   *)
(* and the search for the panel's baud rate, which the link and the flows  *)
(* both make over the one exclusive port.                                  *)
(*                                                                         *)
(* ElkTransport has the same link in detail for one setup at one rate; here *)
(* a link is only searching, open or asleep, and what counts is who has the *)
(* port, at which rate, and on which copy of the entry's data it all runs. *)
(***************************************************************************)
EXTENDS Integers, Sequences

CONSTANTS
  Rates,       \* STANDARD_BAUD_RATES, in the order of the sweep
  None,        \* no rate; also the rate of a panel that does not answer
  MaxChanges,  \* how often the panel's rate may change
  MaxEdits,    \* how often the user submits a flow for an existing entry
  MaxFaults    \* how many answers, lines and setups may fail for no other reason

RateSet == {Rates[i] : i \in 1..Len(Rates)}

ASSUME EntryAssumption ==
  /\ None \notin RateSet
  /\ MaxChanges \in Nat /\ MaxEdits \in Nat /\ MaxFaults \in Nat

VARIABLES
  panelRate, \* the rate the panel talks at
  port,     \* who has the port open
  sweep,    \* the rates each probe has still to try, the one it is at first
  link,     \* where the connect task is
  cached,   \* Connection.cached_baud; the rate of an open link
  entry,    \* the entry's data; its edits stand for all that the user sets
  phase,    \* how far the entry's setup, reload or unload has come
  running,  \* the copy of the data the running setup was made with
  reloads,  \* reloads the update listener has asked for
  flow,     \* the step a config flow is at
  pending,  \* the rate in its _pending_data
  shown,    \* the error its form shows
  spent,    \* how much of each bound is used up
  missed    \* bookkeeping: the user changed the entry while it was being set up

panelVars == <<panelRate, spent>>
probeVars == <<link, cached>>
entryVars == <<entry, reloads, missed>>
setupVars == <<phase, running>>
flowVars  == <<flow, pending, shown>>
allVars == <<panelVars, port, sweep, probeVars, entryVars, setupVars, flowVars>>

Spend(what, max) == spent[what] < max /\ spent' = [spent EXCEPT ![what] = @ + 1]

NoEntry == [baud |-> None, edits |-> 0]

\* absent:    no entry, or none yet
\* setup:     async_setup_entry waits for the first refresh
\* unloading: async_unload_entry waits for the platforms
\* unloaded:  between the unload and the setup of a reload
\* retry:     a setup failed, Home Assistant tries again later
Phases == {"absent", "setup", "loaded", "unloading", "unloaded", "retry"}

EntryInit ==
  /\ panelRate \in RateSet \cup {None}
  /\ port = "free" /\ sweep = [who \in {"link", "flow"} |-> <<>>]
  /\ link = "down" /\ cached = None
  /\ entry = NoEntry /\ phase = "absent" /\ running = NoEntry
  /\ reloads = 0 /\ missed = FALSE
  /\ flow = "none" /\ pending = None /\ shown = "none"
  /\ spent = [changes |-> 0, edits |-> 0, faults |-> 0]

-----------------------------------------------------------------------------
(***************************************************************************)
(* open_probed_serial and _try_baud                                        *)
(***************************************************************************)
\* Mutant: a known rate is the only one tried.
OnlyTheCached(baud) == IF baud = None THEN Rates ELSE <<baud>>

\* The rate the panel had last, then every other one.
Sweep(baud) ==
  IF baud = None
    THEN Rates
    ELSE <<baud>> \o SelectSeq(Rates, LAMBDA rate : rate # baud)

Probes(who)  == IF who = "link" THEN link = "probing" ELSE flow \in {"user", "reconfigure"}
GivesUp(who) == sweep' = [sweep EXCEPT ![who] = Tail(@)]

\* Mutant: the port stays open when the panel does not answer.
KeepsPort(who) == UNCHANGED port

\* writer.close() on the way out of a failed probe
ClosesPort(who) == port' = "free"

\* The port opens, or somebody else has it and the rate is given up with OSError.
Opens(who) ==
  /\ Probes(who) /\ sweep[who] # <<>> /\ port # who
  /\ IF port = "free"
       THEN port' = who /\ UNCHANGED sweep
       ELSE GivesUp(who) /\ UNCHANGED port
  /\ UNCHANGED <<panelVars, probeVars, entryVars, setupVars, flowVars>>

\* No VN frame in time, of a panel at another rate or of one that is still
\* settling after the port was opened.
NoAnswer(who) ==
  /\ Probes(who) /\ port = who /\ sweep[who] # <<>>
  /\ IF Head(sweep[who]) = panelRate THEN Spend("faults", MaxFaults) ELSE UNCHANGED spent
  /\ ClosesPort(who) /\ GivesUp(who)
  /\ UNCHANGED <<panelRate, probeVars, entryVars, setupVars, flowVars>>

Answers(who) == Probes(who) /\ port = who /\ sweep[who] # <<>> /\ Head(sweep[who]) = panelRate
Found(who)   == sweep' = [sweep EXCEPT ![who] = <<>>]

-----------------------------------------------------------------------------
(***************************************************************************)
(* The entry's data.                                                       *)
(***************************************************************************)
\* Mutant: no update listener.
UpdateUnheard(data) == entry' = data /\ UNCHANGED <<reloads, missed>>

\* async_update_entry: a change is heard by the listener, which is there from
\* the end of a setup to the end of an unload.
Update(data) ==
  /\ entry' = data
  /\ reloads' = IF data # entry /\ phase \in {"loaded", "unloading"} THEN reloads + 1 ELSE reloads
  /\ missed'  = IF data.edits # entry.edits /\ phase = "setup" THEN TRUE ELSE missed

\* _on_baud_detected
Detected(baud) == Update(IF entry.baud # baud THEN [entry EXCEPT !.baud = baud] ELSE entry)

-----------------------------------------------------------------------------
(***************************************************************************)
(* The connect task.                                                       *)
(***************************************************************************)
Searches(baud) == link' = "probing" /\ sweep' = [sweep EXCEPT !["link"] = Sweep(baud)]

LinkOpens ==
  /\ Answers("link")
  /\ link' = "open" /\ cached' = panelRate /\ Found("link")
  /\ Detected(panelRate)
  /\ UNCHANGED <<panelVars, port, setupVars, flowVars>>

\* BaudProbeError, after the last rate
LinkFails ==
  /\ link = "probing" /\ sweep["link"] = <<>>
  /\ link' = "asleep"
  /\ UNCHANGED <<panelVars, port, sweep, cached, entryVars, setupVars, flowVars>>

\* asyncio.timeout(30): the cancelled probe leaves its port to the collector.
LinkTimesOut ==
  /\ link = "probing" /\ port = "link" /\ Spend("faults", MaxFaults)
  /\ link' = "asleep" /\ port' = "lost"
  /\ sweep' = [sweep EXCEPT !["link"] = <<>>]
  /\ UNCHANGED <<panelRate, cached, entryVars, setupVars, flowVars>>

\* The line breaks, or a panel that talks at another rate by now lets the polls
\* time out; the task closes the port and waits.
LinkEnds ==
  /\ link = "open"
  /\ IF panelRate = cached THEN Spend("faults", MaxFaults) ELSE UNCHANGED spent
  /\ link' = "asleep" /\ port' = "free"
  /\ UNCHANGED <<panelRate, sweep, cached, entryVars, setupVars, flowVars>>

LinkWakes ==
  /\ link = "asleep"
  /\ Searches(cached)
  /\ UNCHANGED <<panelVars, port, cached, entryVars, setupVars, flowVars>>

-----------------------------------------------------------------------------
(***************************************************************************)
(* __init__.py, and the reloads of Home Assistant.                         *)
(***************************************************************************)
\* async_setup_entry up to its wait: a coordinator of its own on a copy of the
\* data, and a connect task.
SetUp ==
  /\ phase' = "setup" /\ running' = entry' /\ missed' = FALSE
  /\ cached' = entry'.baud /\ Searches(entry'.baud)

\* async_disconnect: an open link is closed, a probe is only cancelled.
Disconnect ==
  /\ link' = "down"
  /\ port' = IF port # "link" THEN port ELSE IF link = "open" THEN "free" ELSE "lost"
  /\ sweep' = [sweep EXCEPT !["link"] = <<>>]
  /\ UNCHANGED cached

\* async_migrate_entry: an entry of an older version for a serial port is set up
\* without a rate; one for a network stays as it is, with an error.
Migrates ==
  /\ phase = "absent" /\ flow = "none"
  /\ UNCHANGED <<entry, reloads>> /\ SetUp
  /\ UNCHANGED <<panelVars, port, flowVars>>

\* The first refresh is answered; the listener is added last.
SetupSucceeds ==
  /\ phase = "setup" /\ link = "open" /\ panelRate = cached
  /\ phase' = "loaded"
  /\ UNCHANGED <<panelVars, port, sweep, probeVars, entryVars, running, flowVars>>

\* No login within CONNECT_TIMEOUT, which outlasts a whole sweep, or no answer to
\* the first refresh.
SetupFails ==
  /\ phase = "setup"
  /\ IF link = "asleep" \/ (link = "open" /\ panelRate # cached)
       THEN UNCHANGED spent
       ELSE Spend("faults", MaxFaults)
  /\ Disconnect
  /\ phase' = "retry"
  /\ UNCHANGED <<panelRate, entryVars, running, flowVars>>

\* Home Assistant's timer, or the second half of a reload
SetupAgain ==
  /\ phase \in {"retry", "unloaded"}
  /\ UNCHANGED <<entry, reloads>> /\ SetUp
  /\ UNCHANGED <<panelVars, port, flowVars>>

\* _async_update_listener: async_reload waits for a setup that is on its way; it
\* replaces a retry, and it unloads a loaded entry.
ReloadBegins ==
  /\ reloads > 0 /\ phase \in {"loaded", "retry"}
  /\ reloads' = reloads - 1
  /\ phase' = IF phase = "loaded" THEN "unloading" ELSE "unloaded"
  /\ UNCHANGED <<panelVars, port, sweep, probeVars, entry, missed, running, flowVars>>

\* async_unload_entry once the platforms are unloaded
Unloads ==
  /\ phase = "unloading"
  /\ phase' = "unloaded"
  /\ Disconnect
  /\ UNCHANGED <<panelVars, entryVars, running, flowVars>>

-----------------------------------------------------------------------------
(***************************************************************************)
(* config_flow.py.  One flow at a time.  A reconfigure that names another  *)
(* adapter aborts with nothing changed and is left out.                    *)
(***************************************************************************)
FlowProbes(step, baud) ==
  /\ flow = "none" /\ flow' = step /\ shown' = "none"
  /\ sweep' = [sweep EXCEPT !["flow"] = Sweep(baud)]
  /\ UNCHANGED <<panelRate, port, probeVars, entryVars, setupVars, pending>>

\* async_step_user, submitted; also by a user who has an entry already
UserSubmits ==
  /\ IF phase = "absent" THEN UNCHANGED spent ELSE Spend("edits", MaxEdits)
  /\ FlowProbes("user", None)

\* async_step_reconfigure, submitted
ReconfigureSubmits ==
  phase # "absent" /\ Spend("edits", MaxEdits) /\ FlowProbes("reconfigure", entry.baud)

\* probe_baud closes the port it found the panel on.  A port that is configured
\* already ends the flow; a new one goes on to the options, with the rate at hand.
UserFinds ==
  /\ flow = "user" /\ Answers("flow") /\ Found("flow")
  /\ port' = "free"
  /\ IF phase = "absent"
       THEN flow' = "options" /\ pending' = panelRate
       ELSE flow' = "none" /\ UNCHANGED pending
  /\ UNCHANGED <<panelVars, probeVars, entryVars, setupVars, shown>>

\* async_step_elkm1_options: the entry is created and set up.
EntryCreated ==
  /\ flow = "options" /\ flow' = "none"
  /\ entry' = [baud |-> pending, edits |-> 0] /\ UNCHANGED reloads
  /\ SetUp
  /\ UNCHANGED <<panelVars, port, pending, shown>>

\* async_update_and_abort
ReconfigureFinds ==
  /\ flow = "reconfigure" /\ Answers("flow") /\ Found("flow")
  /\ port' = "free" /\ flow' = "none"
  /\ Update([baud |-> panelRate, edits |-> entry.edits + 1])
  /\ UNCHANGED <<panelVars, probeVars, setupVars, pending, shown>>

\* BaudProbeError is none of the errors that read "cannot_connect".
FlowFails ==
  /\ Probes("flow") /\ sweep["flow"] = <<>>
  /\ flow' = "none" /\ shown' = "unknown"
  /\ UNCHANGED <<panelVars, port, sweep, probeVars, entryVars, setupVars, pending>>

\* ElkOptionsFlowHandler.async_step_init: the poll interval
OptionsSubmitted ==
  /\ phase # "absent" /\ Spend("edits", MaxEdits)
  /\ Update([entry EXCEPT !.edits = @ + 1])
  /\ UNCHANGED <<panelRate, port, sweep, probeVars, setupVars, flowVars>>

-----------------------------------------------------------------------------
\* The port of a cancelled probe is closed when its writer is collected.
Collected ==
  /\ port = "lost" /\ port' = "free"
  /\ UNCHANGED <<panelVars, sweep, probeVars, entryVars, setupVars, flowVars>>

\* The installer sets another rate, or the panel goes off or comes on.
PanelChanges ==
  /\ Spend("changes", MaxChanges)
  /\ panelRate' \in (RateSet \cup {None}) \ {panelRate}
  /\ UNCHANGED <<port, sweep, probeVars, entryVars, setupVars, flowVars>>

Probing == \E who \in {"link", "flow"} : Opens(who) \/ NoAnswer(who)
Linking == LinkOpens \/ LinkFails \/ LinkTimesOut \/ LinkEnds \/ LinkWakes
Entering == Migrates \/ SetupSucceeds \/ SetupFails \/ SetupAgain \/ ReloadBegins \/ Unloads
Flowing == UserSubmits \/ ReconfigureSubmits \/ UserFinds \/ EntryCreated \/ ReconfigureFinds
           \/ FlowFails \/ OptionsSubmitted

EntryNext == Probing \/ Linking \/ Entering \/ Flowing \/ Collected \/ PanelChanges

EntrySpec == EntryInit /\ [][EntryNext]_allVars

\* Every probe, sleep, setup and reload goes on: each waits for a timer or for a
\* reply that a timeout stands in for.  The user owes nothing but the end of a
\* flow whose probe is running.
Fairness ==
  /\ WF_allVars(Opens("link") \/ NoAnswer("link") \/ LinkOpens)
  /\ WF_allVars(Opens("flow") \/ NoAnswer("flow") \/ UserFinds \/ ReconfigureFinds \/ FlowFails)
  /\ WF_allVars(LinkFails) /\ WF_allVars(LinkEnds) /\ WF_allVars(LinkWakes)
  /\ WF_allVars(SetupSucceeds \/ SetupFails) /\ WF_allVars(SetupAgain)
  /\ WF_allVars(ReloadBegins) /\ WF_allVars(Unloads) /\ WF_allVars(Collected)

FairSpec == EntrySpec /\ Fairness

-----------------------------------------------------------------------------
(***************************************************************************)
(* Properties.                                                             *)
(***************************************************************************)
\* Every variable keeps its type.
TypeOK ==
  /\ panelRate \in RateSet \cup {None} /\ cached \in RateSet \cup {None}
  /\ pending \in RateSet \cup {None}
  /\ port \in {"free", "link", "flow", "lost"}
  /\ sweep \in [{"link", "flow"} -> Seq(RateSet)]
  /\ link \in {"down", "probing", "open", "asleep"}
  /\ phase \in Phases /\ flow \in {"none", "user", "reconfigure", "options"}
  /\ entry \in [baud : RateSet \cup {None}, edits : Nat]
  /\ running \in [baud : RateSet \cup {None}, edits : Nat]
  /\ reloads \in Nat /\ missed \in BOOLEAN
  /\ shown \in {"none", "unknown", "cannot_connect"}
  /\ spent \in [{"changes", "edits", "faults"} -> Nat]

\* The exclusive port is never left open by one who is done with it: through
\* every failed rate, lost line, aborted setup, reload and flow, who has it open
\* is still probing or streaming over it, or was cancelled in a probe.
PortHasAnOwner ==
  /\ port = "link" => link \in {"probing", "open"} /\ phase \in {"setup", "loaded", "unloading"}
  /\ port = "flow" => Probes("flow")
  /\ link = "open" => port = "link"

\* "Persist a newly detected baud rate so reconnects try it first": the rate of
\* an open link is the entry's, whatever flows and reloads came between.
BaudIsRemembered == link = "open" => entry.baud = cached

\* A loaded entry with no reload ahead runs on what the user has set last, unless
\* that came in the middle of the setup, before there was a listener.
RunsOnItsData ==
  phase = "loaded" /\ reloads = 0 /\ ~missed => running.edits = entry.edits

\* The link's own writes to the entry, between a setup and its reload, never undo
\* what the user has set.
EditsSurvive == [][entry'.edits >= entry.edits]_allVars

\* A panel that settles at a rate of the sweep is found and its entry loaded, over
\* that rate, with every reload behind it: detections and reloads do not chase one
\* another, and no probe, flow or lost port stands in the way for ever.
PanelIsFound ==
  <>[](\/ phase = "absent" \/ panelRate = None
       \/ phase = "loaded" /\ reloads = 0 /\ link = "open" /\ cached = panelRate)
=============================================================================
