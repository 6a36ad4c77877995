# TLA+ models of ClusterFlock

ClusterFlock joins machines with GPUs into one AI backend. One process, **nCore**
(`src/nCore/`), keeps a registry of nodes, hands them commands and prompts, and runs
autonomous *missions*; on every machine an **agent** (`src/agent/`) runs the models.
This directory holds TLA+ models of that code, the TLC runs that check them and proofs
for TLAPS. File names below are relative to `src/nCore/` unless they begin with `agent/`.

    tlc -workers 2 -config missions.cfg MCMissionLifecycle     # one run
    tlapm MissionLifecycle_proofs.tla                          # one module of proofs

`PROJECT.json` lists the runs, the lines each definition models, the mutants (for each
property, a plausible bug that breaks it), the hazards of the code and the disagreements
found between the code and what it says.

## The system

nCore serves HTTP with one thread per request (`ThreadingHTTPServer`). Its state is
module-level dictionaries, one lock per module. A handler takes these locks one after the
other and holds none in between, so almost every request is several atomic steps.
Background threads: the reaper, the push poller, the mission watchdog, one loop per
mission, one thread per prompt to a push node.

| Component | State | Operations | Interacts with |
|---|---|---|---|
| Missions: `mission/__init__.py`, `loop.py`, `persistence.py`, `container.py` | `_missions`, per mission a status, stop event, container id, round trips; `missions.json` | start, pause, resume, stop, delete; the loop's phases; `persist_missions`, `restore_missions`, `gc_containers`, watchdog | Docker (by container *name*), showrunner, dispatch |
| Task board and queues: `orchestrator.py` | `_commands` per node, `_tasks` | `broadcast_prompt`, `enqueue`, `drain`, `record_result`, `get_task` | heartbeats drain, agents post results, browsers, missions and oapi poll tasks |
| Push poller: `push.py` | interval, dead nodes | poll all push nodes, send their commands | registry, dispatch, agent's push server |
| Pull link: `agent/link.py` | token, config file | register, heartbeat, run commands, post results with retries | HTTP server |
| Registry and reaper: `registry.py` | nodes with `last_seen`, mode, tokens | register, heartbeat, remove, reap, restore push nodes | everything reads it |
| Admission and tokens: `access.py`, `auth.py` | mode, allow/deny/pending sets; token hashes | is_permitted, enqueue, allow, deny, approve, reject; generate, verify, revoke | register and heartbeat handlers |
| HTTP server: `server.py` | none of its own | about 60 handlers and `_persist` | all of nCore |
| State file: `state.py` | `state.json` | save through `state.tmp`, load | `_persist` of every handler, restart |
| Push pairing: `server.py`, `agent/link.py` | a token on both sides | pair, unpair, re-pair | registry, state file |
| Sessions: `session.py` | sessions, cap | create, activate, pause, resume, complete | started beside missions by one handler |
| Local agent: `local_agent.py` | process, token, type | start, stop, monitor thread | registry |
| Pending operations, autoload: `orchestrator.py` | `_pending_ops`, `_autoload_state` | add, confirm by heartbeat, expire; plan, execute, track | command queue, heartbeats |
| Benchmark autoload: `orchestrator.py` | search state per device | a search thread per device | dispatch |
| OpenAI front end: `oapi.py` | queue depth, one active request, conversations, showrunner | chat completions (fan-out, speed, manual), failover | dispatch |
| Showrunner: `mission/showrunner.py`, `scoring.py`, `ranking.py` | election, context | elect, ask, compact | dispatch, registry |
| Flock: `mission/flock.py`, `agent_loop.py`, `actions.py` | helper tasks | spawn, wait, kill; actions of the showrunner | containers, dispatch |
| Memory, parsing, prompts: `mission/memory.py`, `parsing.py`, `prompts/` | text | pure text processing | mission loop |
| Agent model server: `agent/server.py`, `commands.py`, `run.py` | llama-server processes | load, unload, prompt | link |
| Watchdog of the agent: `agent/watchdog.py` | health file | restart a dead agent | link |
| Hardware, downloads, setup: `agent/hardware.py`, `models_hf.py`, `gpu_cleanup.py`, `setup.py`; `catalog.py` | caches | probe, download | none |
| Web interface: `public/` | browser state | calls the HTTP interface | server |

What makes each part hard, and what has to hold:

* **Missions.** The facade changes the status from any request thread while the loop of
  the mission sleeps in a prompt; delete forgets the object while its loop lives on; a
  later start may add a second loop or a second object under the same id; containers are
  found by name. *Correct:* a mission that looks alive has somebody working on it; a
  stopped one is left; a container is known to whoever works in it and is collected when
  nobody will; the file ends up with what is registered; paused stays paused; the cap holds.
* **Dispatch.** Commands are put in the queues before the task is posted; a reply that
  carries commands may be lost; a result is posted up to four times; a task is closed
  late or when enough results have come, whichever they are. *Correct:* nothing runs twice; what is
  reported done stays done; nothing stays in a queue of a node that polls.
* **Membership.** Registration, heartbeat, deletion, revocation, the reaper and restarts
  overlap; saves overtake one another. *Correct:* nobody is in without consent; a permitted
  agent always finds its way back; a node that cannot be heard disappears; a rejected
  one is out.
* **Model server of an agent.** Commands, the heartbeat that restarts servers, the watchdog that restarts the
  agent, and the processes they are about; only some operations take the lock of a device, and recovery works on
  snapshots. *Correct:* what is recorded is what runs; a restart takes nothing away from a load; a dead or hung
  server is served again or forgotten.
* **Pairing and state file.** A token is kept on two sides and on two disks, answers between
  them are lost, and all requests save through one temporary file. *Correct:* a registered node and its
  agent hold the same token; a node that does not disappears; a crash leaves a file that can be read.
* **Local agent.** Starts and stops take seconds between their check and their record; its node is
  deleted and its token revoked like any other.
  *Correct:* one agent works, and it is the one nCore knows.
* **Autoload, pending operations, benchmark search.** Reports from before an unload, commands
  drained between two records, failures at any step. *Correct:* a plan neither overfills nor
  wastes memory; runs and searches end; what is shown is what is served.
* **Sessions.** The start of a mission uses three calls and looks at none of the answers.
  *Correct:* the cap holds, no text is lost.
* **Flock.** The loops of the mission, of which there may be two, and the thread of each task change the
  same records, and only the latter takes the lock; helpers leave, return and are renamed meanwhile.
  *Correct:* no task is lost, a helper works on one at a time, every task ends.
* **OpenAI front end.** A bounded queue before one lock, conversations shared between requests, clients that may
  stop reading. *Correct:* places in the queue are given back, answers stand after their questions, nobody waits
  for ever for an endpoint.

## Modules

| Module | Models | Used by |
|---|---|---|
| `MissionLifecycle` | the missions row | `MCMissionLifecycle`, `MissionLifecycle_proofs` |
| `TaskBoard` | abstract: what a reader of a task may rely on | `Dispatch` |
| `Dispatch` | queues, board, push poller, the pull agent's commands and results; implements `TaskBoard` | `MCDispatch`, `Dispatch_proofs` |
| `Membership` | registration, heartbeats, admission, tokens, reaper, saves and restarts for pull agents | `MCMembership`, `Membership_proofs` |
| `Oapi` | the OpenAI-compatible front end: queue, conversations, streaming and fan-out | `MCOapi`, `Oapi_proofs` |
| `ModelServer` | the llama-servers of an agent: loads, prompts, recovery, auto-unload | `MCNodes`, `Nodes_proofs` |
| `Pairing` | a push node on both sides, its polls and the reaper, the steps of a save | `MCNodes`, `Pairing_proofs` |
| `LocalAgent` | the agent on nCore's own machine, its process and pid file | `MCNodes`, `Nodes_proofs` |
| `Autoload` | `plan_autoload` as a function; a run, the queue, pending operations and their delivery | `MCCoordinator`, `Coordinator_proofs` |
| `BenchAutoload` | the benchmark search of a node | `MCCoordinator`, `Coordinator_proofs` |
| `Sessions` | sessions, their handlers and the start of a mission | `MCCoordinator`, `Coordinator_proofs` |
| `Flock` | the helpers of a mission, its loops and the threads of the tasks | `MCCoordinator`, `Flock_proofs` |
| `MC*` | instances for TLC; `MCNodes` and `MCCoordinator` with their type invariants | the `.cfg` files; `Nodes_proofs`, `Coordinator_proofs` |

`MCNodes` and `MCCoordinator` put several modules into one instance. The modules in one of them
have no variable in common, so interleaving them shows nothing: a variable `focus` chooses
the one that moves in a behaviour while the others stay in one initial state. The state spaces
add up instead of multiplying, and the fairness of each module is stated for its focus.

### MissionLifecycle

`registry[i]` is `_missions`; `mid`, `status`, `stopping`, `cont` and `trips` are fields of
a `MissionState` object; `pc[l]`, `runs[l]` and `made[l]` are a loop thread: where it stands,
its object, the container it has created and not recorded. `docker[i]` is the container
that bears the name of mission `i`. Objects, threads and container ids are slots that are
reused once nothing refers to them; that is a bound on how many exist at once, not on how
many there ever are.

* `StartNew`, `StartAgain`, `Pause`, `Resume`, `Stop`, `Delete`: the facade, each one
  locked section; `PersistDue` stands for the `persist_missions` at the end of each.
* `LoopInit` to `LoopCrash`: the loop between two points where it can be overtaken: remove
  and create the container, adopt it, elect, check the status, ask, use the answer, finish.
  `LoopCrash` is the handler around the loop, for any exception.
* `Destroy`, `GcStart`, `GcList`, `GcRemove`, `GcQueryFails`, `GcDone`: the thread of a
  deletion and the collection by the watchdog, which snapshots the ids before it lists.
* `SaveSnapshot`, `SaveWrite`, `WatchdogSave`, `Restart`: a save takes its snapshot under the
  lock and writes after it; a restart keeps containers and the file, restores as paused what
  the file names and Docker confirms. One snapshot may stand for several equal ones.

Left out: what a round says and does (only `complete` matters to the life cycle), plateau
and spin detection (they are the nondeterministic ends of a round), and the one temporary
file all saves share.

### Dispatch and TaskBoard

`queue` is `_commands`, `board` is `_tasks`, `goal` the targets a sender chose, `todo` those not
enqueued yet, `wire` the commands of a heartbeat reply a pull agent has not started, `jobs` the
threads that run a command, report or send. `Choose`, `Enqueue`, `Post` are
`broadcast_prompt` (the senders of missions and oapi are the case of one target); `Heartbeat` drains;
`LoseReply` loses what was drained; `Begin`, `Crash` and `SendRestart` are the batch loop and
`restart_agent`; `Answer`, `Report`, `Apologize` are `_run_cmd` with its attempts and the last
error post; `Poll`, `Sent` the push side; `Age` and `GetTask` the reader, who also writes.

`TaskBoard` has no queues, no agents and no failures: a task is posted with a number of
answers to expect, answers accumulate, it is done when enough have come or it is late
with at least one, and done is for good. The refinement maps `posted` to the tasks on the board,
`goal` to the number of targets, `got` to the length of the result list and `done` to what
`get_task` would answer, not to the status field: `record_result` sets a task that was
closed as late back to `running`, and `get_task` still answers *done*.

Left out: a restart of nCore, which loses queues and board alike (both are memory only), and
the order of model operations for one node.

### Membership

`valid` and `holds` are sets of nodes and not of tokens: an agent that asks for a token has
given up every earlier one, so only the last token issued to a node can ever be presented,
and a snapshot or a file that knew an earlier one knows none that matters (`Without`).
`h[n]` is the step of the request in progress. `RegCheck` ... `RegReply` are `_register` and
`HbAuth` ... `HbReply` are `_heartbeat`, cut where locks are released. `snap[n]`, `adminSnap`
and `disk` are a `_persist` between its collection and its write; `deleting` a deletion between
the registry and the tokens; `localHosts` hosts whose local agent is registered (409).
`quiet` nodes have been silent for `REMOVE_AFTER`. `consented` is an observer: whom
`is_permitted` ever let in.

Abstractions: one request per agent at a time (a pull agent is sequential; a request
it gave up may still be served, and then delays its next one); `_persist` collects tokens and lists in
one step; `reg_node` and `hb_node` at a readmission are one step; an agent is one name.
Push nodes, which have no token of this kind, are in `Pairing`.

### Oapi

`at[r]` is the step of a request's thread, from `_chat_completions` to its finally clause; `depth`
and `active` are `_queue_depth` and `_active_request`; `turns` and `order` are `_conversations` and
`_conv_order`; `fan[r]` holds the locals of `_process_fanout_stream`; `pending` are tasks without
an answer. `Begin` takes the lock and finds or creates the conversation, `AskTurn` and
`AnswerTurn` add to it if it is still there. `Route` chooses the endpoint for the mode,
`Targets` ... `Synthesize` are a fan-out and `Stream` the call of llama-server. A task is
posted and answered in one step each: what may go wrong between is in `Dispatch`, and here a
task may simply never be answered.

A write to the client has no timeout: at a step of `Writes` the client may stop reading
(`StopReading`), and the thread that holds the lock, of which there is one, is `blocked` until the write
returns (`WriteReturns`). A client that only pauses is a thread that is slow. `Raise` is an exception at any step
that reads messages or results, writes, or builds the answer.

A non-streaming request raises a `TypeError` when it is handed to `_process_chat_completion`
(see the findings): that path is the step `Raise`, and the code behind it (fan-out and
failover over remote endpoints) is not modelled. Scores only decide which of several local endpoints
is taken, so any may be. The configuration and each request meet through one reading of mode
and model.

### ModelServer

`srv[d]` is a device: the model that answers on its port, whether inference hangs, which thread
waits for it, and the process `_servers` has registered; `devs` is `_devices`, `primed`
`_primed`, `locks` `_device_locks`. The two need not agree: a process that cannot bind the port exits,
and a registered one may be dead (`StopServer`, `Pruned`). `th[a]` is the step of a command's thread or
of the heartbeat (`Beat`) with its locals, among them the snapshots recovery works on.

* `Load`, `Lock` ... `Record`, `LoadFails`: `load` and `start_server` with its retries, each step
  where another thread can come between. `Fetch` is the job of a download. `Unload`, `UnloadAll`,
  `DeleteModel`, `Prompt`, `Wake`, `Configure`, `Reload`: the other commands; they take no lock. `Unload`
  asks the record, then the servers (a hung one may be `mute` and is then taken for the model if it is the
  only one), then the sleeping models. `Erase` removes the files of any other models with the one named, as
  the code matches parts of paths.
* `BeginBeat`, `CheckDevice`, `Kill`, `CheckIdle`, `Doze`: the heartbeat's recovery of dead and
  hung servers and its auto-unload, which clears all of `_devices` in the end, also what was loaded meanwhile.
  Polls of a push agent do this each in a thread of its own, so that two may overlap.
* `Crash`, `Hang`, `QuietPasses`: what befalls the processes, and time. `RestartAgent` is a restart at any
  moment, by command or by the watchdog, which also ends a pull agent that has been loading for longer than
  the health file may be old: its start kills the servers that answer, and one that is still loading is
  left behind (`left`, `Orphan`) until it answers (`Settle`).

A pull agent runs `load`, `unload` and `unload_all` in the thread of its heartbeats, a push agent
everything in threads of their own (`Runs`); both are initial states (`link`), each with two menus of
commands. Left out: switching CPU inference off, the pause of 30 s between restarts, context
sizes and draft models as data.

### Pairing

`agentTok` and `config` are the agent's token in memory and on its disk, `nodeTok` the token of the
registered node; a request that pairs makes up a token, here its own number. `at[s]` is the step of a
request or of the reaper, with `snap[s]` and `into[s]`, what it collected and which file its open
handle writes into; `call[r]` is the thread of the agent that serves it, which goes on when nobody
waits any more (`GiveUpCall`). `tmp` and `file` are `state.tmp` and `state.json`: a save collects, opens
(and truncates), writes and moves, and two that overlap may write into one file, move it away
under each other or raise; a reaper whose save raises ends for ever (`reaps`).

`pairClash` and `saveClash` remember that pairings or unpairings, or two saves,
have overlapped. Both leave states nothing in the code repairs at once, and the safety properties
exclude them; `MismatchGoes` does not exclude them. Left out: the mode negotiation of
an agent, its jobs, and what else the state file holds (`Membership`, `Sessions`).

### LocalAgent

Process `c` is the one call `c` starts. `localAt` is the step of each start or stop between its
check and its record, `process` the boot of an agent up to the pid lock of `agent/run.py` and past it,
`termed` who was sent SIGTERM, `watched` who has a `_monitor` thread, `entry` how the registry knows the
node. `BeatServed` is a late heartbeat of a stopped agent, which adds the node again as one that
polls. `CrashAgent` and `RestartLocal` are the faults; an nCore that starts sweeps the orphans of an earlier
one (`KillOrphans`), if the host has a `/proc` (`sweeps`, either in the initial states; macOS has none).
`DeleteLocal` and `RevokeLocal` are the deletion of the node and the revocation of its tokens, which do not
ask whether it is local, and `Reregister` the living agent that comes back as a node that polls; `keys` are
the processes with a valid token. Three observers: `overlap` remembers that two calls have overlapped, which
loses processes; `left` the agents a start found and could not end; `struck` that the node was deleted, or a
token of a living agent went, since it was made local.

### Autoload

`PlanOf` is `plan_autoload(clean_slate=True)`, the only form the program asks for: devices become
bins, alone or pooled, and are filled greedily (`Place`), priorities and large models first, under
the factors of the code, in integers. Its loops are recursive functions of the number of devices or
models seen so far, which the proofs follow step by step. The rest is one node: `toDo` is what the thread of
`execute_autoload` has still to do, two steps per command (`_commands`, then `_pending_ops`);
`tracked` and `status` are `_autoload_state`; `poll` is a poll of a push node or a heartbeat between
its report and the draining of the queue; `batches` are threads of `_send_model_ops`. The
agent executes a command in one step here. Left out: plans that keep what is loaded, saved profiles, the
lock and star switches, the matching of ids by their endings.

### BenchAutoload

The worker as one thread with its locals (`quarter`, `tried`, `final`, `prev`, `model`), from
unloading the node over each device's search (`Search`, `Fetch_`, `Swap`, `LoadModel`, `Measure`,
`Decide`, `Revert`) to its end; `shown` is what the interface reads of `_bench_autoload_state`,
`serving` what the agent has loaded, `job` a download the agent has answered and not finished.
Rates, downloads and the catalog are inputs. Left out: a second worker beside the first, and nodes that
are not polled, whose commands are queued and whose benchmarks never answer.

### Sessions

`sessions` maps the ids there are to status, text, version and history; `savedCopy` is the same in the state
file; `starts[r]` is a `_start_mission` between its calls: it creates, names and activates, ignores
what they answer and saves nothing. Every other handler is one locked section and a save.
`ReloadSessions` is a restart. `UpdateSession` takes any text, the empty one (`NoText`) included, as
the handler does; an empty text is not archived when the next one comes, so the history skips its
version, which `blank` remembers. Left out: time stamps, and `set_max_concurrent`, which nothing calls.

### Flock

`sr[l]` is a mission loop: where it stands and what it has read. There may be two on one mission
(`StartLoop`; `MissionLifecycle` shows how). `Refresh`, `Depart`, `FileDeparted`, `Restore`, `AskNames`,
`Answered`, `Join` are `update_flock`, in which a second loop makes the removal of a helper raise (`DepartTwice`);
`Collect` and `Collected` move finished tasks to the history; `CancelTask`, `Rebuild` and `MissionEnds` are
what else concerns helpers. A dispatch has three steps: the status is looked at and the task listed and
assigned (`Dispatch`), the helper is made busy (`Occupy`), and after the prompt that sums up its conversation the
thread starts (`Launch`), unless something raises there (`DispatchRaises`).

Each task has a place, `loop[t]`, which from `Launch` on is a thread's, through the whole of `agent_loop`:
turns, consecutive failures and errors, refused results (`Reject`), and the end under the lock (`Lock`, `Free`,
`Clear`, `Reopen`, `FileTask` ...). `Handled` gives what one answer with several actions may do to the count of
failures. `filed` is the set of tasks with an entry in the history. The loops take no lock, and their steps
may fall between any two of each other's and of a task's. `loose` remembers the helpers whose status no longer
follows their tasks: two loops dispatched to one at once, a dispatch to it raised, or it left and came back
while an old thread of it went on. Left out: the files and texts the actions are about, the ends of a
task among themselves (done, failed, timed out, cancelled), and how often a task is in the history.

## What is checked

| Run | Instance | Shows |
|---|---|---|
| `missions` | 1 id, 2 objects, 2 loops, 1 container | `TypeOK`, `ActiveHasLoop`, `RoundsHaveContainer` |
| `missions_live` | 1 id, 1 object, 2 loops, 1 container, 1 save, 1 restart | `StopEnds`, `OrphanCollected` |
| `missions_crash` | 1 id, 1 loop, 2 saves under way, 1 restart | `DiskFollows` |
| `dispatch` | a pull and a push node, 2 tasks, 2 attempts, 1 fault | `TypeOK`, `AtMostOnce`, `ResultsPerCommand`, `BoardSpec`, `Delivered` |
| `membership` | 1 node, modes approve and deny, 2 requests of the administrator, 1 fault | `TypeOK`, `ConsentedOnly`, `Rejoins`, `GhostGoes` |
| `oapi` | 3 requests, 2 conversations of which 1 is kept, queue of 2, 2 turns, a local and a remote endpoint, 2 rounds, 1 deletion, change or client that stops reading | `TypeOK`, `QueueCounts`, `OrderMatches`, `AnswersFollow`, `OneAtATime`, `Leaves` |
| `nodes` | model server: 1 device, 2 models, 2 threads, 1 retry, 2 commands, 1 fault; local agent: 3 calls, 2 faults; pairing: 2 requests, 1 fault | `TypesOK`, `RecordTrue`, `RegisteredIsPaired`, `FileWhole`, `OneTrackedAgent`, `RecoverySparesJobs`, `Recovers`, `MismatchGoes` |
| `coordinator` | plans: 3 models, 4 memory shapes; runs: 4 nodes, on one of them 2 runs, 1 fault; search: 4 models, 3 rate assignments, 4 libraries, 2 devices, 5 iterations, 2 faults; sessions: 2, cap 1, 1 start, 3 edits; flock: 1 endpoint, 1 name, 2 tasks, 2 of each counter, with 1 loop and 2 helpers or 2 loops and 1 helper | `TypesOK`, `PlanSound`, `ServesWhatIsShown`, `ResultIsClosest`, `SessionsWhole`, `NothingLost`, `OneTaskEach`, `AutoloadEnds`, `PendingClears`, `BenchEnds`, `TasksEnd` |
| `missions_paused` | as small as the case allows | violated: `PausedStays` |
| `missions_cap` | 2 ids, cap 1 | violated: `CapHolds` |
| `missions_nowork` | 1 of each | violated: `NoWorkFails` |
| `membership_reject` | 1 node, no faults | violated: `RejectedOut` |

* `ActiveHasLoop`: after any interleaving of the facade with loops that end, fail or are
  doubled, a mission whose status is initializing or running has a thread. `RoundsHaveContainer`: no failed `docker
  run` is taken for a success. `StopEnds`: loops of a mission told to stop leave.
  `OrphanCollected`: a container of a mission that was deleted, or that a restart has forgotten because
  it came before the save, goes. `DiskFollows`:
  whatever is overtaken or lost, the file ends up with the missions that stay registered.
* `AtMostOnce`, `ResultsPerCommand`: no prompt is started twice; the results of a command are at most the
  attempts plus the error report, and one for a push node. `Delivered`: without a
  fault every command is started. `BoardSpec`: the refinement.
* `ConsentedOnly`: whoever is in the registry or has a valid token, in memory or on disk, was let in
  once, also through a heartbeat that races a deletion or a restart from an old
  file. `Rejoins`: an agent that is permitted, runs and shares its host with no local agent
  is in the registry again and again. `GhostGoes`: a node none of whose requests reach its entry, such as
  one put back by a heartbeat that overtook its deletion, is reaped, also while its agent lives and goes on
  with a dead token or with registrations that are refused.
* `QueueCounts`: also when a request raises, its place in the queue is given back, once.
  `OrderMatches`: the two records of the conversations agree whatever is deleted or pushed
  out. `AnswersFollow`: an answer stands after the question of its own request, although
  conversations are shared, deleted and trimmed. `OneAtATime`: no endpoint has two prompts of one
  fan-out, the streaming one none. `Leaves`: no request waits for ever, not even for endpoints that
  never answer, unless a client stops reading for good.
* `RecordTrue`: on a pull agent without downloads, deletions and auto-unload, a running process is
  the registered one and serves the recorded model between two heartbeats. It rests on running the model
  operations in one thread and does not hold for push agents. One exception is stated with it: a process that an
  agent left loading when the watchdog ended it runs unregistered, and if it is recorded then as what it
  serves. `RecoverySparesJobs`: a restart by the heartbeat, or by any of the polls of a push agent, never takes
  away the process a load waits for. `Recovers`: a server that died or hangs is served again or no longer
  recorded; with the one fault of the run, that the restart fails in its turn is not reached.
* `RegisteredIsPaired`: after lost answers, outages and restarts of either side, a
  registered node and its agent hold the same token. `FileWhole`: a crash in the middle of a save leaves a
  file that can be read, and between saves it is true. `MismatchGoes`: a node with a
  token its agent does not take disappears, as long as the reaper lives.
* `OneTrackedAgent`: no stop, crash or restart of nCore leaves an agent behind that nobody knows, but for those a
  restart cannot end without `/proc`; two never work side by side; and the one nCore runs is listed as
  local, until its node is deleted or a token of a living agent goes.
* `PlanSound`: no device or pool is overfilled, no model placed twice, no room left for a model
  that would fit. `AutoloadEnds`: an autoload of a polled node with downloads does not stay running.
  `PendingClears`: nothing is shown as pending for ever.
* `ServesWhatIsShown`, `ResultIsClosest`, `BenchEnds`: a search without failures shows what is
  served, and with one model for each budget the result is, of the models it tried, the one closest
  to the target; with failures it ends.
* `SessionsWhole`: active and paused sessions keep to the cap in memory and in the file, and every earlier text
  that was not empty is in the history, once, under its version. `NothingLost`: a task whose thread is over is
  in the history. `OneTaskEach`: a helper has one task at a time and is busy only for one that has a thread or
  is about to get it, under one mission loop and under two; the helpers of `loose`, the three ways out, are
  excluded. `TasksEnd`: the threads of tasks end, whatever the helper answers.

**Bounds.** One mission id suffices for the safety and liveness of missions because ids share only the caps and
the file; the caps have a run with two. Two objects give a deleted and a registered one under the same id, two
loops an old and a new one. Two saves are the least that can overtake each other. One container, one save and
one restart let a container be forgotten because nCore ends between `docker run` and the save, while
in other behaviours the mission is in the file and comes back. In `dispatch` two tasks can share a batch, which is what a crash in the middle
needs; two attempts give a retry after a lost reply and then the error report; one fault is enough to lose,
crash or restart, and the theorems hold for any number. In `membership` nodes meet only in the snapshots, which
requests of the administrator supply for one node as well; two requests let a node be allowed and then denied,
revoked, deleted or displaced. In `oapi` a queue of two with three requests refuses one and lets two wait for
the lock; two of them share a conversation, the third pushes it out; two turns make a third trim the first; the
second round is the least that meets unanswered prompts of an earlier one. In `nodes` two threads are a command
and a download beside the heartbeat, two models a loaded and a wanted one, one retry tells a lock given back
from one that is kept; two pairing requests are the least that overlap, or a pairing and its deletion; three
calls are a start, a stop and a start, or a restart between two; the second fault of the local agent lets a
deletion follow a restart. In `coordinator` three models and devices with room for none, one or several give
every branch of a plan; the nodes it is run on are one with two loads, one with one, one with nothing
downloaded, and one on which a second run overwrites the state of the first while commands of that one are still
under way; of four models none fits the first quarter of the memory and two take up to the third, so a library
with one model for each budget and one with two for the same budget both occur; five iterations cut a search of
two devices short; two texts and the empty one under one id, with three edits, skip a version in the history and
go on, the cap of one is met by a second session; two tasks of two helpers at one endpoint give a helper that
left and came back, and the next task of one that is just being freed; two loops share one helper that stays and
two tasks, or one that goes and one task, and finish what they have begun once it is loose (`BoundedForTwo`).
The theorems hold for all values of these. The names of all bounds are `Max...`, `Tries` and the slot sets. No
symmetry is declared: slots are taken with `CHOOSE`, and properties under fairness do not permit it.

**Deadlock** is checked in `membership`: agents never stop asking. The other instances may rest: all requests
may be gone, all missions may be finished and deleted with saves and restarts used up, all tasks answered, a
local agent stopped, a search or an autoload over, a mission with its helpers at its end.

**Fairness.** Loop threads run on because each of their waits has a timeout; the watchdog
and the reaper are loops that sleep and repeat; a save that began is written, since no user
stands between. Docker answers again and again (strong fairness of `GcList`, as
`GcQueryFails` is an answer that did not come). Agents heartbeat or register for ever and are
polled for ever. A request in progress goes on. In `oapi` the threads of requests
run on, unless they wait for a client to read, and the thinking time passes; answers need not come and clients
need not read. `Silence` is fair only for a node none of whose requests can reach its entry (`CanBeat`): then time
is all it takes. In `nodes` the threads of commands, heartbeats and polls, requests and saves run on,
nCore polls and the reaper looks again; a node is silent long enough only if its agent
refuses the token. In `coordinator` polls and heartbeats repeat, senders and the worker run on,
downloads end with or without success (every wait has a limit), five minutes pass, and the threads of
tasks run; the showrunner may be slow for ever, and a dispatch may never come to its thread. Nothing is assumed of
users and their clients, of the showrunner's
answers, of prompts (which may take any time), of results or of agents that die.

## What is proved

All theorems are `Spec => []...` or a refinement, for every value of the constants that
meets the named assumptions (disjoint node sets, `None` and `Restart` different from the
values they stand beside, bounds that are numbers, sets that are finite where something is
counted). There are three kinds of them: safety invariants with the inductive invariant they
need, the refinement, and action properties that bound how far something is from its end.

* `MissionLifecycle_proofs`: `TypeCorrect`; `NoZombieMission` (`ActiveHasLoop`) and
  `ContainerKnown` (`RoundsHaveContainer`), both from `Inductive`. `ActiveHasLoop` is not
  inductive: while a mission is initializing, a loop that has gone past the election and sees another status
  than running leaves without touching it. The invariant adds that an initializing object, registered or not,
  has a loop that has yet to elect, that a running one has some loop, that every
  thread has an object and that what is registered was created (`ThreadsWork`,
  `ActiveWorked`, `RegisteredCreated`).
* `Dispatch_proofs`: `TypeCorrect`; `RunsAtMostOnce` (`AtMostOnce`): a command is in one
  place only, not yet enqueued, in one position of one queue, in one position of one reply,
  or started once (`OneQueue`, `OneWire`, `StartedOnce`). `Implements` (`BoardSpec`): every
  step is a step of `TaskBoard` or leaves its variables alone; `BoardInv` says that exactly
  the posted tasks are on the board and that a status of done is always justified by enough
  results, or by lateness and one; a status of running may then come back without what
  `get_task` answers turning back.
* `Membership_proofs`: `TypeCorrect`, with the fact that a request about to write has a
  snapshot (`Saving`); `OnlyWithConsent` (`ConsentedOnly`): the property alone is not
  inductive, for a heartbeat that has passed its check needs no token any more and a save
  under way may be older than any state. `Consent` adds that requests past their check
  and the tokens in every snapshot concern only nodes that were let in.
* `Pairing_proofs`: `PairingTypeCorrect`; `RegisteredStaysPaired` (`RegisteredIsPaired`) and
  `FileStaysWhole` (`FileWhole`), both from `PairInv`. That two tokens agree says nothing
  of requests half way: the invariant adds that nobody knows the token of a request that has yet to
  register it (`Unknown`), that without overlap one save at a time writes the temporary file
  (`OneSave`) and what is registered is on the disk or on its way (`Reaches`), that the token
  of a deletion comes back neither from memory nor from a file (`NotBack`), and that the agreement holds
  of the file and of the agent's configuration too, from which restarts read (`Synced`).
* `Coordinator_proofs`, sessions: `SessionTypeCorrect`; `SessionsStayWhole` (`SessionsWhole`) from
  `SessionInv`: the saved copy has to be as sound as the sessions in memory, for a reload brings it back,
  and a session that is active or paused has a version. Versions whose text was empty are told apart
  (`blank`), for the history has none of them.
* `Coordinator_proofs`, benchmark search: `DoneIsServed` (`ServesWhatIsShown`) and `ClosestIsKept`
  (`ResultIsClosest`), both from `BenchInvariant`. What is shown is decided at the end of a device, from what
  every step before has served: `ServedSoFar` says what is loaded and what is still downloading at each step,
  and that a device still to be searched is not shown as done; `Steady` says what each step has in hand. That
  the result is the closest rests on the order of the search: with one model for each budget it goes upwards, so
  the models measured are all those below the present budget, all were fast enough, and the best so far is the
  largest of them (`Upwards`); the comparison of a slow model with the one before is then one with the best.
* `Coordinator_proofs`, plans: `AutoloadTypes`; `PlansAreSound` (`PlanSound`). The plan does not change
  (`PlanInv`); what is proved is what `plan_autoload` computes. Each of its loops has an invariant:
  after `k` models a bin holds what it was offered, once each, within its budget, and has turned down only what
  did not fit or came when it was full (`Offered`); after `k` devices the same holds of each, and no model
  is in two (`Planned`). Since the library's induction takes an operator, the induction is done by hand: a set of
  numbers that is not empty has a smallest one (`SmallestNumber`), so counting from 0 reaches every
  number (`CountingUp`), and a function can be given by its first value and a step (`StepByStep`).
  `SortedIs` shows that the sorted list exists, so that `CHOOSE` finds it.
* `Flock_proofs`: `FlockTypeCorrect`; `NothingIsLost` (`NothingLost`) and `OneTaskForEach` (`OneTaskEach`)
  from `FlockInv`. `Filing` says that whoever takes an active task off the list, a thread or one of the
  loops, has made its entry in the history before; `Alone` that a helper outside `loose` is kept by one task
  at most, is busy for it from the second step of its dispatch until its thread has freed the helper, and is
  assigned to it until that thread clears it.
* `Dispatch_proofs` also proves `ResultsAreBounded` (`ResultsPerCommand`). The property counts results by
  the task and the node, the code makes them by the thread: a command has one thread (`OneThread`), and
  the results it has filed are no more than its attempts (`ResultsOfStarted`).
* `Oapi_proofs`: `OapiTypes`; `QueueKeepsCount` (`QueueCounts`), `OrderKeepsStep` (`OrderMatches`),
  `AnswersStayBehind` (`AnswersFollow`) and `OnePromptEach` (`OneAtATime`), all from `OapiInvariant`. One
  request at a time holds the lock (`Exclusive`); from its question to its answer it has the last word in
  its conversation, if that still exists (`LastWord`); the prompts without an answer are those of its
  present round, one for each endpoint and none for the one that synthesizes (`Prompts`).
* `Nodes_proofs`, model server: `ServerTypesHold`; `RecordIsTrue` (`RecordTrue`) from `ServerInvariant`: on
  an agent that runs one operation at a time, each device but the one in hand is as it is recorded, or
  holds what an earlier agent left there (`Honest`), and of the one in hand the step of the thread says what
  runs there (`OneByOne`). `RestartSparesLoads`
  (`RecoverySparesJobs`) is about steps: loads and the heartbeat hold the lock of their device
  (`LocksHeld`), and a process that is not ready is waited for by whoever started it (`OwnersWait`).
* `Nodes_proofs`, local agent: `LocalTypes`; `OneAgentAtATime` (`OneTrackedAgent`) from `LocalInvariant`, which
  adds which agents may still be at work at each step of a start or stop, and who of them has a token
  (`KnownAgent`), that the pid file names the one that works (`OneWriter`), and that one no start could end
  is past the pid file, so that every later one finds it and ends itself (`Stray`).

* The composed instances: `NodeTypes` and `CoordinatorTypes` (`TypesOK`). In a behaviour of `MCNodes`
  or `MCCoordinator` one module moves and the variables of the others rest, so the invariants of all
  modules together are inductive (`NodeInv`, `CoordinatorInv`).

### What liveness rests on

That something happens in the end is two claims: its steps are finitely many and nothing takes
them back, which is a fact about every single step, and they are taken, which is fairness. The first
is where the code could be wrong, and it is proved, for every value of the constants; the second is left to TLC.
Most of these theorems give a number that counts what is left (`StepsLeft`, `Left`, `WorkLeft`,
`RequestLeft`, ...) and show that no step of anybody makes it larger and each step of the one concerned makes
it smaller; the others say who has still to act.

| Property of a run | Theorem | Says of each state or step |
|---|---|---|
| `StopEnds` | `StoppedLoopsMoveOn` | while a mission is told to stop no loop joins it, and those it has are at most nine of their steps from their end |
| `OrphanCollected` | `OrphansAreReached` | an orphaned container is nobody's until it is removed, its mission starts again or nCore restarts; each step of the collector but a failed query comes nearer to it, also of a collection that began with its id on the list |
| `DiskFollows` | `TheFileCatchesUp` | while a mission stays registered, or deleted, snapshots that say otherwise only run out, and without them the file does not turn back |
| `Delivered` | `NothingIsForgotten` | without a fault every command of a posted task is in its queue, in a reply, or started |
| `Rejoins` | `NobodyWaitsInVain`, `EveryRequestEnds`, `ThePermittedComeBack` | an agent that waits has a request under way that will answer it; a request has six steps; a permitted node that is out only comes nearer, while its agent waits and nCore is up |
| `GhostGoes` | `GhostsOnlyFade` | a node none of whose requests reach its entry, its agent alive or not, neither enters the registry nor is seen again in it |
| `Leaves` | `EveryRequestMovesOn`, `TheQueueMoves` | a request only comes nearer to its end; one that is queued waits for nobody, for one that needs nothing but time, or for the client of one that writes to it |
| `Recovers` | `NoLockIsLost`, `EveryThreadMovesOn` | a device lock is with a thread at work there; commands and heartbeats have a bounded number of steps |
| `MismatchGoes` | `EveryPairingMovesOn`, `TheSilentStaySilent` | requests, calls and saves only go on to their ends; a silent node with the wrong token is not revived |
| `AutoloadEnds` | `RunsAreOwed` | a run that is not over has a step whose load is still on its way, also when runs overlap |
| `BenchEnds` | `TheSearchMovesOn` | every step of the worker leaves less to do, also one that fails |
| `TasksEnd` | `EveryTaskMovesOn` | a task's thread has at most `3 * MaxTurns + 9` steps from its start, and nobody gives it more |

What these leave out is fairness, and for `Recovers` and `GhostGoes` also what comes last: that a heartbeat that
reaches its end has dealt with the server, and that the reaper takes who is quiet. Where they need more than the
invariants above, it is small: an agent waits only with a request of its own kind (`MemberInv`), a registered
object has the id it is registered under (`OwnName`), every unsettled step of a run is owed a command (`Owed`),
a round of a fan-out is about some endpoint (`RoundInv`), and outside a fault no restart is in any queue
(`KeptInv`).

### Only model-checked

The properties in the first column of the table, and `PendingClears`: that a step which can be taken is taken is a
matter of fairness and `ENABLED`, which TLAPS does not reason about here. Every invariant and every
action property of a passing run is the subject of a theorem. The counterexamples of the four runs that expect a
violation are TLC's alone.

## What came out

`PROJECT.json` quotes the disagreements between the code and what it says, with their lines. From
runs: a paused mission is completed by its own loop; the cap on missions is not looked at when
one is started again or resumed; a mission without work ends in an internal error; a
rejected node that is on the allow list stays permitted. From reading: a push node needs no
approval in the default mode; non-streaming chat completions raise a `TypeError`; a crashed local
agent is shown healthy for ever; `_node_restart` does nothing; the results `wait_for_flock`
collects are never shown to the showrunner; an agent that starts leaves an old server alone
that is still loading; without `/proc` no orphan of the local agent is killed; deleting a model deletes the files
of others whose path shares a part with it; the search goes on at 1.15 times the target where its description says 1.25.

What the properties had to leave out is as telling. All of it is in the models:

* Two pairings, or a pairing and an unpairing, that overlap leave a registered node with a token its
  agent has replaced. A pairing whose answer is lost leaves an agent that refuses every later one.
* Two saves that overlap can tear `state.json`, or raise in the reaper and end it for good.
* Two starts, or a start and a stop, of the local agent that overlap lose a process. Deleting the local node, or
  revoking its token, while its agent lives brings the node back as one that polls, which the reaper may remove
  and stopping the agent does not expect. Where there is no `/proc`, an orphan lives on and every agent
  that is started ends itself at the pid file.
* A load on a pull agent that takes longer than the watchdog's patience gets the agent killed; the server it was
  starting is not among those the next agent cleans up, and serves unrecorded. Two polls of a push agent
  that overlap may restart a server twice, the second time on an old snapshot.
* A client of a streaming request that stops reading holds `_active_request`, and with it the whole queue, for as long
  as its connection stands: no write has a timeout.
* A push agent, downloads, deletions or auto-unload on a pull agent: the model that runs and the one
  recorded may differ. Auto-unload forgets a model that was loaded while it stopped others.
* An autoload stays *running* for ever when a load fails on a node that sends heartbeats, and whenever
  the catalog is used; a heartbeat from before the unload marks a step as done.
* With two models for one budget, the benchmark search does not find "the biggest" one the docstring
  of its worker asks for: it measures the larger one, then the smaller one of the same budget, and
  forgets the larger. `ResultIsClosest` assumes one model for each budget (`OneEach`).
* A benchmark search with a failed load can show a device as done with nothing loaded; one that runs into
  its limit leaves the device as active.
* An active session can be given an empty text: a mission that runs under a session without one.
* A mission that is resumed or started again while its old loop goes on has two loops, and both may dispatch to one
  helper, whose two tasks then share it. A dispatch that raises at the prompt before its thread starts leaves the
  helper busy and the task listed, until the helper's endpoint goes; a helper that left and came back while its
  old thread went on can stay busy for ever.
* A finished task can be in the history twice; one that its thread, or another loop, removes while `update_flock` is
  at it ends the loop with a `KeyError` (`flock.py`, line 80), and so does a helper two loops both find gone (line 69).

## Plan

Done, in this order: `MissionLifecycle`; `TaskBoard` and `Dispatch`; `Membership`; `Oapi`; the
composed instances `MCNodes` (`ModelServer`, `Pairing`, `LocalAgent`) and `MCCoordinator`
(`Autoload`, `BenchAutoload`, `Sessions`, `Flock`); the proofs of `MissionLifecycle`, `Dispatch`,
`Membership`, `Pairing`, `Sessions` and `Flock`; those of `Oapi`, `ModelServer`, `LocalAgent`, `BenchAutoload`
and `Autoload`; last the theorems that liveness rests on and the types of the composed instances. Every
safety property a passing run checks is the subject of a theorem, and every liveness property but
`PendingClears` rests on one.

Worth doing next:

1. A second benchmark worker, and the asynchronous jobs of a push agent between `Dispatch` and
   `ModelServer`.
2. Deletions of containers beside `GcStart` with ids taken earlier, for two missions.
3. The step from these theorems to the liveness properties, with a prover for `ENABLED` and
   fairness.

## Not modelled

Text (prompts, parsing, memory), scoring and ranking of models, hardware probes, the
transfer of files, setup, the catalog, the web interface and the command lines of llama-server:
they keep no state that several actors change, or they are input and output. What each module leaves out
is said in its section and in `PROJECT.json`. Clocks are not modelled as numbers: an age is a
step that may happen (`Age`, `Silence`, `FallSilent`, `QuietPasses`, `FiveMinutesPass`).
