----------------------------- MODULE Discovery -----------------------------
(***************************************************************************)
(* Finding cameras and keeping what is known of them: r_agent polls the    *)
(* network (ONVIF, external) and posts new and changed configurations to   *)
(* r_devices, whose thread alone reads and writes the database; the window *)
(* of revere lists, records, edits, removes and forgets cameras.           *)
(*                                                                         *)
(* The agent remembers a hash of what it posted, and posts a camera again  *)
(* only when its hash changes.  The hashes live in memory, under a mutex   *)
(* the agent keeps during a whole poll; the database survives a crash.     *)
(***************************************************************************)
EXTENDS Integers, Sequences, FiniteSets

CONSTANTS
  NumCams,     \* cameras on the network
  Recorded,    \* cameras that are assigned already when the program starts
  MaxMoves,    \* bound: changes of a camera's address
  MaxFails,    \* bound: commands whose transaction throws
  MaxCrashes,  \* bound: restarts
  MaxFlows,    \* bound: what the user begins
  MaxUpdates   \* bound: updates in the queue

Cams == 1 .. NumCams      \* ordered by their ids, as a std::map of them is
None == -1

ASSUME DiscoveryConstants ==
  /\ NumCams \in Nat \ {0} /\ Recorded \subseteq Cams
  /\ {MaxMoves, MaxFails, MaxCrashes, MaxFlows, MaxUpdates} \subseteq Nat

VARIABLES
  net,      \* the address each camera has
  hashes,   \* _device_config_hashes: the address last posted, or None
  agent,    \* the agent's thread; the mutex is its own unless it is asleep
  probed,   \* _cache of the provider: the address a camera was interrogated at
  rows,     \* the table of cameras
  queue,    \* _db_work_q
  worker,   \* the thread of r_devices
  cached,   \* the state of the cameras in _all_cameras_cache
  items,    \* recording_items of the window
  listed,   \* discovered_items of the window
  ui,       \* the main thread
  wizard,   \* assignment_state: the wizard's camera, and threads that probe cameras
  count     \* moves, fails, crashes, flows; whether an update of this process failed

shown == <<cached, items, listed>>
vars == <<net, hashes, agent, probed, rows, queue, worker, shown, ui, wizard, count>>

\* A row: its address, the address in its rtsp_url, its state, and whether its
\* stream_config_hash is of a full configuration, which the agent never has.
NoRow == [addr |-> None, url |-> None, state |-> "none", full |-> FALSE]
AssignedRow(a) == [addr |-> a, url |-> a, state |-> "assigned", full |-> TRUE]

Idle == [at |-> "idle", cam |-> None, sel |-> None, named |-> None,
         snap |-> NoRow, forced |-> FALSE]

NoCamera == [cam |-> None, snap |-> NoRow, probes |-> 0, late |-> FALSE]

Asleep == [at |-> "asleep", found |-> [c \in {} |-> None], todo |-> {}]

Init ==
  /\ net = [c \in Cams |-> 0]
  /\ hashes = [c \in Cams |-> None] /\ agent = Asleep
  /\ probed = [c \in Cams |-> None]
  /\ rows = [c \in Cams |-> IF c \in Recorded THEN AssignedRow(0) ELSE NoRow]
  /\ queue = << >> /\ worker = "caching"
  /\ cached = [c \in Cams |-> "none"] /\ items = << >> /\ listed = {}
  /\ ui = Idle /\ wizard = NoCamera
  /\ count = [moves |-> 0, fails |-> 0, crashes |-> 0, flows |-> 0, lost |-> FALSE]

Running == ui.at \notin {"stopping", "closing", "ended"}
DevicesRun == ui.at \notin {"closing", "ended"}

\* Commands of the queue.
Update(configs) == [op |-> "update", by |-> "nobody", cam |-> None, configs |-> configs]
Get(c, by) == [op |-> "get", by |-> by, cam |-> c]
Save(c, row) == [op |-> "save", by |-> "ui", cam |-> c, row |-> row]
Delete(c) == [op |-> "remove", by |-> "ui", cam |-> c]

Updates == {i \in DOMAIN queue : queue[i].op = "update"}
Underway(c) ==
  \E i \in Updates : c \in DOMAIN queue[i].configs /\ ~queue[i].configs[c].full

-----------------------------------------------------------------------------
(* r_agent                                                                 *)

\* A poll takes the mutex and hears of some of the cameras.
PollBegin(D) ==
  /\ agent.at = "asleep" /\ Running /\ Cardinality(Updates) < MaxUpdates
  /\ agent' = [at |-> "polling", found |-> [c \in D |-> net[c]], todo |-> D]
  /\ UNCHANGED <<net, hashes, probed, rows, queue, worker, shown, ui, wizard, count>>

\* _fetch_configs asks for the credentials of every camera, and waits.
AskCredentials(c) ==
  /\ agent.at = "polling" /\ c \in agent.todo
  /\ agent' = [agent EXCEPT !.at = "asking", !.todo = @ \ {c}]
  /\ queue' = Append(queue, Get(c, "agent"))
  /\ UNCHANGED <<net, hashes, probed, rows, worker, shown, ui, wizard, count>>

\* A camera that is not known is not posted.
MutantNewOrChanged ==
  {c \in DOMAIN agent.found : hashes[c] # None /\ hashes[c] # agent.found[c]}

NewOrChanged == {c \in DOMAIN agent.found : hashes[c] # agent.found[c]}

\* The hashes are recorded, and what is new or changed is posted.
PollEnd ==
  /\ agent.at = "polling" /\ agent.todo = {}
  /\ hashes' = [c \in Cams |-> IF c \in NewOrChanged THEN agent.found[c] ELSE hashes[c]]
  /\ queue' =
       IF DOMAIN agent.found = {} THEN queue
       ELSE Append(queue, Update([c \in NewOrChanged |->
                    [addr |-> agent.found[c], url |-> None, full |-> FALSE]]))
  /\ agent' = Asleep
  /\ UNCHANGED <<net, probed, rows, worker, shown, ui, wizard, count>>

AgentEnds ==
  /\ agent.at = "asleep" /\ ~Running /\ agent' = [agent EXCEPT !.at = "ended"]
  /\ UNCHANGED <<net, hashes, probed, rows, queue, worker, shown, ui, wizard, count>>

-----------------------------------------------------------------------------
(* r_devices                                                               *)

\* Columns the configuration lacks are overwritten too.
MutantUpserted(row, config) ==
  [addr |-> config.addr, url |-> config.url,
   state |-> IF row = NoRow THEN "discovered" ELSE row.state, full |-> config.full]

\* A new row is not given a state.
MutantInserted(row, config) ==
  [addr |-> config.addr, url |-> config.url, state |-> row.state, full |-> config.full]

\* _create_insert_or_update_query: only the columns the configuration has.
Upserted(row, config) ==
  [addr |-> config.addr,
   url |-> IF config.url = None THEN row.url ELSE config.url,
   state |-> IF row = NoRow THEN "discovered" ELSE row.state,
   full |-> config.full]

\* The table after a command.
Applied(cmd) ==
  CASE cmd.op = "update" ->
         [c \in Cams |-> IF c \in DOMAIN cmd.configs
                         THEN Upserted(rows[c], cmd.configs[c]) ELSE rows[c]]
    [] cmd.op = "save" -> [rows EXCEPT ![cmd.cam] = cmd.row]
    [] cmd.op = "remove" -> [rows EXCEPT ![cmd.cam] = NoRow]
    [] cmd.op = "get" -> rows

\* What the main thread does next, once it has its answer.  After an interrogation
\* the wizard shows "please wait" and a detached thread probes the camera, which
\* fails at once when it has no url.
After == [reading   |-> "credentials", probing |-> "waiting",
          opening   |-> "dialog",      picking |-> "picked",
          finding   |-> "found",       saving  |-> "idle",
          removing  |-> "forgetting"]

\* The promise of the command is set: with a row, with nothing, or with an
\* exception, which the functions of r_devices catch and log.
Answer(cmd, row) ==
  /\ agent' = IF cmd.by = "agent" THEN [agent EXCEPT !.at = "polling"] ELSE agent
  /\ ui' = IF cmd.by # "ui" THEN ui
           ELSE IF cmd.op = "save" THEN [Idle EXCEPT !.forced = ui.forced]
           ELSE IF ui.at = "probing" /\ row.url = None THEN [ui EXCEPT !.at = "error"]
           ELSE [ui EXCEPT !.at = After[@],
                           !.snap = IF ui.at \in {"opening", "picking", "finding"}
                                    THEN row ELSE NoRow]
  /\ wizard' = IF cmd.by = "ui" /\ ui.at \in {"reading", "probing"}
           THEN [wizard EXCEPT !.snap = row, !.probes = IF ui'.at = "waiting" THEN @ + 1 ELSE @]
           ELSE wizard

\* The exception of a command is only logged.
MutantAnswerFailure(cmd) == UNCHANGED <<agent, ui, wizard>>

AnswerFailure(cmd) == Answer(cmd, NoRow)

Execute ==
  /\ worker = "polling" /\ queue # << >>
  /\ rows' = Applied(Head(queue))
  /\ Answer(Head(queue), IF Head(queue).cam = None THEN NoRow ELSE rows[Head(queue).cam])
  /\ queue' = Tail(queue) /\ worker' = "caching"
  /\ UNCHANGED <<net, hashes, probed, shown, count>>

ExecuteFails ==
  /\ worker = "polling" /\ queue # << >> /\ count.fails < MaxFails
  /\ AnswerFailure(Head(queue))
  /\ queue' = Tail(queue) /\ worker' = "caching"
  /\ count' = [count EXCEPT !.fails = @ + 1, !.lost = @ \/ Head(queue).op = "update"]
  /\ UNCHANGED <<net, hashes, probed, rows, shown>>

\* Two seconds without a command, or the wake of stop.
PollTimesOut ==
  /\ worker = "polling" /\ queue = << >>
  /\ worker' = "caching"
  /\ UNCHANGED <<net, hashes, agent, probed, rows, queue, shown, ui, wizard, count>>

\* _update_caches, and the test of _running.
UpdateCaches ==
  /\ worker = "caching"
  /\ cached' = [c \in Cams |-> rows[c].state]
  /\ worker' = IF DevicesRun THEN "polling" ELSE "ended"
  /\ UNCHANGED <<net, hashes, agent, probed, rows, queue, items, listed, ui, wizard, count>>

-----------------------------------------------------------------------------
(* The window of revere (main.cpp)                                         *)

\* The main thread posts a command and waits.
Wait(at, cmd) == ui' = [ui EXCEPT !.at = at] /\ queue' = Append(queue, cmd)

\* The elements of S in their order: each at the place that is its rank.
Rank(S, c) == Cardinality({d \in S : d <= c})

ByIdOrder(S) == [i \in {Rank(S, c) : c \in S} |-> CHOOSE c \in S : Rank(S, c) = i]

WizardActive == ui.at \in {"credentials", "waiting", "wizard", "dialog", "error"}

\* _update_list_ui, every five seconds, after a click and after an assignment.
RefreshLists ==
  /\ ui.at = "idle" \/ WizardActive
  /\ items' = ByIdOrder({c \in Cams : cached[c] = "assigned"})
  /\ listed' = {c \in Cams : cached[c] = "discovered"}
  /\ ui' = [ui EXCEPT !.forced = FALSE]
  /\ UNCHANGED <<net, hashes, agent, probed, rows, queue, worker, cached, wizard, count>>

\* The user begins something with camera c.
Begin(at, c, sel) ==
  /\ ui.at = "idle" /\ ~ui.forced /\ count.flows < MaxFlows
  /\ ui' = [Idle EXCEPT !.at = at, !.cam = c, !.sel = sel, !.named = c, !.forced = TRUE]
  /\ queue' = Append(queue, Get(c, "ui"))
  /\ count' = [count EXCEPT !.flows = @ + 1]
  /\ UNCHANGED <<net, hashes, agent, probed, rows, worker, shown>>

\* Record: the camera is kept in the wizard (as.camera) until it is assigned.
Record(c) == c \in listed /\ Begin("reading", c, None) /\ wizard' = [wizard EXCEPT !.cam = c]

Forget(c) == c \in listed /\ Begin("finding", c, None) /\ UNCHANGED wizard

\* Properties and Remove open a dialog about an item of the list of recordings.
OpenDialog(i) == i \in DOMAIN items /\ Begin("opening", items[i], i) /\ UNCHANGED wizard

\* The user gives up; the thread that probes goes on.
Cancel ==
  /\ WizardActive /\ ~ui.forced
  /\ ui' = Idle
  /\ UNCHANGED <<net, hashes, agent, probed, rows, queue, worker, shown, wizard, count>>

\* There is no dialog, and nothing to forget or to save.  Where the code takes the value
\* of the missing camera all the same, for the properties of one, the process ends of
\* the exception: then Crash is the step instead.
NothingFound ==
  /\ ui.at \in {"dialog", "found", "picked"} /\ ui.snap = NoRow
  /\ ui' = [Idle EXCEPT !.forced = ui.forced]
  /\ UNCHANGED <<net, hashes, agent, probed, rows, queue, worker, shown, wizard, count>>

\* interrogate_camera posts the full configuration and does not wait for it.
ProbeCommands(c, addr) ==
  << Update([d \in {c} |-> [addr |-> addr, url |-> addr, full |-> TRUE]]), Get(c, "ui") >>

\* Credentials given: a camera without a url is interrogated, at the address of
\* the row or as it was interrogated before, and read again.
Interrogate ==
  /\ ui.at = "credentials" /\ ~ui.forced /\ wizard.snap # NoRow
  /\ LET known == probed[wizard.cam] # None
         addr == IF known THEN probed[wizard.cam] ELSE wizard.snap.addr
     IN \/ /\ wizard.snap.url # None
           /\ queue' = Append(queue, Get(wizard.cam, "ui")) /\ UNCHANGED probed
        \/ /\ wizard.snap.url = None
           /\ known \/ addr = net[wizard.cam]
           /\ Cardinality(Updates) < MaxUpdates
           /\ queue' = queue \o ProbeCommands(wizard.cam, addr)
           /\ probed' = [probed EXCEPT ![wizard.cam] = addr]
  /\ ui' = [ui EXCEPT !.at = "probing"]
  /\ UNCHANGED <<net, hashes, agent, rows, worker, shown, wizard, count>>

\* A thread got an answer from its camera: the wizard goes on, if it is active,
\* whatever step it is at.
Probed ==
  /\ wizard.probes > 0
  /\ ui' = IF WizardActive THEN [ui EXCEPT !.at = "wizard"] ELSE ui
  /\ wizard' = [wizard EXCEPT !.probes = @ - 1,
                      !.late = @ \/ (WizardActive /\ (ui.at # "waiting" \/ wizard.probes > 1))]
  /\ UNCHANGED <<net, hashes, agent, probed, rows, queue, worker, shown, count>>

\* It got none.
ProbeFails ==
  /\ wizard.probes > 0 /\ (ui.at = "idle" \/ WizardActive)
  /\ ui' = [ui EXCEPT !.at = "error"] /\ wizard' = [wizard EXCEPT !.probes = @ - 1]
  /\ UNCHANGED <<net, hashes, agent, probed, rows, queue, worker, shown, count>>

\* _assign_camera saves the camera of the wizard.
Assign ==
  /\ ui.at = "wizard" /\ wizard.snap # NoRow
  /\ ui' = [ui EXCEPT !.at = "saving", !.forced = TRUE]
  /\ queue' = Append(queue, Save(wizard.cam, [wizard.snap EXCEPT !.state = "assigned", !.full = TRUE]))
  /\ UNCHANGED <<net, hashes, agent, probed, rows, worker, shown, wizard, count>>

\* A dialog is confirmed: the camera is the selected item of the list.
Confirm ==
  /\ ui.at = "dialog" /\ ~ui.forced /\ ui.snap # NoRow
  /\ IF ui.sel \in DOMAIN items
     THEN /\ ui' = [ui EXCEPT !.at = "picking", !.cam = items[ui.sel]]
          /\ queue' = Append(queue, Get(items[ui.sel], "ui"))
     ELSE ui' = Idle /\ UNCHANGED queue
  /\ UNCHANGED <<net, hashes, agent, probed, rows, worker, shown, wizard, count>>

\* It is unassigned, or saved with new settings.
SavePicked ==
  /\ ui.at = "picked" /\ ui.snap # NoRow
  /\ \E state \in {"discovered", ui.snap.state} :
       Wait("saving", Save(ui.cam, [ui.snap EXCEPT !.state = state, !.full = TRUE]))
  /\ UNCHANGED <<net, hashes, agent, probed, rows, worker, shown, wizard, count>>

RemoveFound ==
  /\ ui.at = "found" /\ ui.snap # NoRow
  /\ Wait("removing", Delete(ui.cam))
  /\ UNCHANGED <<net, hashes, agent, probed, rows, worker, shown, wizard, count>>

\* The hash stays.
MutantForgotten(c) == hashes

Forgotten(c) == [hashes EXCEPT ![c] = None]

\* r_agent::forget waits for a poll to end.
AgentForget ==
  /\ ui.at = "forgetting" /\ agent.at \in {"asleep", "ended"}
  /\ hashes' = Forgotten(ui.cam)
  /\ ui' = [Idle EXCEPT !.forced = TRUE]
  /\ UNCHANGED <<net, agent, probed, rows, queue, worker, shown, wizard, count>>

\* The program ends: the agent is stopped first, then r_devices.
Quit ==
  /\ ui.at = "idle" /\ ui' = [Idle EXCEPT !.at = "stopping"]
  /\ UNCHANGED <<net, hashes, agent, probed, rows, queue, worker, shown, wizard, count>>

AgentJoined ==
  /\ ui.at = "stopping" /\ agent.at = "ended" /\ ui' = [Idle EXCEPT !.at = "closing"]
  /\ UNCHANGED <<net, hashes, agent, probed, rows, queue, worker, shown, wizard, count>>

WorkerJoined ==
  /\ ui.at = "closing" /\ worker = "ended" /\ ui' = [Idle EXCEPT !.at = "ended"]
  /\ UNCHANGED <<net, hashes, agent, probed, rows, queue, worker, shown, wizard, count>>

-----------------------------------------------------------------------------
(* The network, and the process.                                           *)

Move(c) ==
  /\ count.moves < MaxMoves
  /\ net' = [net EXCEPT ![c] = @ + 1]
  /\ count' = [count EXCEPT !.moves = @ + 1]
  /\ UNCHANGED <<hashes, agent, probed, rows, queue, worker, shown, ui, wizard>>

\* The process dies, of a failing _update_caches for one, and is started again:
\* what is in memory is lost (wizard.late is history, of rows that are not).
Crash ==
  /\ count.crashes < MaxCrashes /\ ui.at # "ended"
  /\ count' = [count EXCEPT !.crashes = @ + 1, !.lost = FALSE]
  /\ hashes' = [c \in Cams |-> None] /\ agent' = Asleep
  /\ probed' = [c \in Cams |-> None]
  /\ queue' = << >> /\ worker' = "caching"
  /\ cached' = [c \in Cams |-> "none"] /\ items' = << >> /\ listed' = {}
  /\ ui' = Idle /\ wizard' = [NoCamera EXCEPT !.late = wizard.late]
  /\ UNCHANGED <<net, rows>>

-----------------------------------------------------------------------------
Agent == PollEnd \/ AgentEnds \/ \E c \in Cams : AskCredentials(c)

Worker == Execute \/ PollTimesOut \/ UpdateCaches

Program ==
  \/ RefreshLists /\ ui.forced
  \/ NothingFound \/ SavePicked \/ RemoveFound \/ AgentForget
  \/ AgentJoined \/ WorkerJoined

User ==
  \/ \E c \in Cams : Record(c) \/ Forget(c)
  \/ \E i \in 1 .. NumCams : OpenDialog(i)
  \/ Cancel \/ Interrogate \/ Assign \/ Confirm \/ Quit

\* Threads the wizard has detached.
Probes == Probed \/ ProbeFails

Next ==
  \/ \E D \in SUBSET Cams : PollBegin(D)
  \/ Agent \/ Worker \/ ExecuteFails
  \/ Program \/ User \/ RefreshLists \/ Probes
  \/ \E c \in Cams : Move(c)
  \/ Crash

Spec == Init /\ [][Next]_vars

\* Threads run, the main loop turns, and now and then all cameras answer a poll.
\* A poll begins every 60 seconds and is over in a few: the mutex is free long
\* enough for forget to get it.
FairSpec ==
  /\ Spec
  /\ WF_vars(Worker) /\ WF_vars(Program) /\ WF_vars(Agent)
  /\ SF_vars(PollBegin(Cams)) /\ SF_vars(AgentForget)

-----------------------------------------------------------------------------
(* Properties                                                              *)

\* Type correctness.
TypeOK ==
  /\ \A c \in Cams :
       /\ net[c] \in 0 .. MaxMoves
       /\ {hashes[c], probed[c], rows[c].addr, rows[c].url} \subseteq {None} \cup 0 .. net[c]
       /\ rows[c].state \in {"none", "discovered", "assigned"}
       /\ (rows[c].state = "none") <=> (rows[c] = NoRow)
  /\ Len(queue) <= MaxUpdates + 3

\* What the agent remembers of a camera is in the database, newest address
\* included unless the window saved the row since, or is on its way there; else
\* nobody would post it again.  Only an update that failed breaks that.
KnownIsStored ==
  ~count.lost =>
    \A c \in Cams : hashes[c] # None =>
      \/ Underway(c)
      \/ rows[c] # NoRow /\ (rows[c].full \/ rows[c].addr = hashes[c])
      \/ ui.at = "forgetting" /\ ui.cam = c

\* A camera that the wizard assigned has the url it was streamed from: what
\* interrogate_camera posts is in the table when the row is read again.  Only a
\* thread of a wizard that was cancelled takes its successor past that.
RecordedHasUrl ==
  ~wizard.late => \A c \in Cams : rows[c].state = "assigned" => rows[c].url # None

MainWaits == ui.at \in DOMAIN After \cup {"forgetting"}

\* Whoever waits for the database gets an answer, also when the command fails,
\* and the end of the program finds both threads ended.
WaitsEnd ==
  /\ agent.at = "asking" ~> agent.at # "asking"
  /\ MainWaits ~> ~MainWaits
  /\ ui.at = "stopping" ~> ui.at \in {"ended", "idle"}

\* README.md: "Onvif discoverable cameras on your LAN should appear in the
\* Discovered list."  They do after every start, and forgotten ones appear again,
\* unless an update failed.
CamerasAppear ==
  \A c \in Cams : []<>(cached[c] # "none" \/ ~Running \/ count.lost)

\* "Store camera name for display in the dialog": the camera that is unassigned,
\* or saved with new settings, is the one the dialog is about.
DialogMeansItsCamera == ui.at \in {"picking", "picked"} => ui.cam = ui.named
=============================================================================
