------------------------------- MODULE ModelServer -------------------------------
(***************************************************************************)
(* The model server of an agent (agent/server.py, agent/commands.py,       *)
(* agent/run.py, agent/link.py): one llama-server process per device,      *)
(* commands that load, unload and prompt, the heartbeat that restarts dead *)
(* and hung servers and puts idle models to sleep, the watchdog that       *)
(* restarts the agent.                                                     *)
(*                                                                         *)
(* Only loads, downloads and restarts take the lock of a device. A pull    *)
(* agent runs load, unload and unload_all in the thread of its heartbeats, *)
(* a push agent every command, and every poll, in a thread of its own. The *)
(* port of a device is a lock the code does not name: a process that       *)
(* cannot bind it exits. Which process listens and which one is registered *)
(* may differ.                                                             *)
(***************************************************************************)
EXTENDS Naturals, FiniteSets

CONSTANTS
  Devices, Gpu0,  \* devices; the first, where a foreign server is looked for
  Models,
  Threads,        \* threads of commands, and of the polls of a push agent (bound)
  Beat,           \* the thread of the heartbeats
  None,           \* no model, no thread, no device
  Orphan,         \* waits for a process, in the place of an agent that ended
  Menus,          \* sets of commands, of which one is in use
  Retries,        \* _max_retries of start_server
  MaxCommands, MaxServerFaults  \* bounds

Actors == Threads \cup {Beat}
Serial == {"load", "unload", "unload_all"}
AllCommands == Serial \cup {"fetch", "prompt", "delete", "on", "off", "reload"}

ASSUME ServerAssumption ==
  /\ IsFiniteSet(Devices) /\ Gpu0 \in Devices /\ Beat \notin Threads
  /\ None \notin Models \cup Actors \cup Devices \cup {Orphan}
  /\ Orphan \notin Actors
  /\ Menus \subseteq SUBSET AllCommands
  /\ Retries \in Nat /\ MaxCommands \in Nat /\ MaxServerFaults \in Nat

VARIABLES
  link, menu,  \* "pull" or "push"; the commands in use
  srv,         \* per device: what listens on its port, and _servers
  devs,        \* _devices
  primed,      \* _primed
  files,       \* models on disk
  auto,        \* _auto_unload_enabled
  quietLong,   \* _last_command_time is longer ago than _AUTO_UNLOAD_SEC
  locks,       \* _device_locks
  th,          \* the step and the locals of each thread
  commands, serverFaults

serverVars == <<link, menu, srv, devs, primed, files, auto, quietLong, locks, th,
                commands, serverFaults>>
recordVars == <<devs, primed>>
otherVars  == <<link, menu, files, auto, quietLong, commands, serverFaults>>

\* The model served on the port, whether its inference hangs, the thread that waits
\* for it to be ready, and the registered process: none, this one, or one that exited.
\* left is an observer: an agent that ended has left the process loading.
Server == [model : Models \cup {None}, hung : BOOLEAN, owner : Actors \cup {None, Orphan},
           reg : {"none", "live", "dead"}, left : BOOLEAN]
Stopped == [model |-> None, hung |-> FALSE, owner |-> None, reg |-> "none", left |-> FALSE]
Killed(s) == [Stopped EXCEPT !.reg = s.reg]

\* stop_server: the registered process, or else whatever listens on the port.
StopServer(s) == IF s.reg = "dead" THEN [s EXCEPT !.reg = "none"] ELSE Stopped

\* active_devices forgets the registered processes that exited.
Pruned == [d \in Devices |->
             IF srv[d].reg = "dead" THEN [srv[d] EXCEPT !.reg = "none"] ELSE srv[d]]

Thread == [op : AllCommands \cup {"none", "beat"},
           pc : {"idle", "lock", "fetch", "kill", "stop", "spawn", "wait", "record",
                 "fail", "gen", "halt", "drop", "sweep", "clear", "check", "doze", "wake"},
           dev : Devices \cup {None}, model : Models \cup {None}, tries : 0..Retries,
           todo : SUBSET Devices, seen : [Devices -> Models \cup {None}],
           down : SUBSET Devices]

Nothing == [d \in Devices |-> None]
Free == [op |-> "none", pc |-> "idle", dev |-> None, model |-> None, tries |-> 0,
         todo |-> {}, seen |-> Nothing, down |-> {}]

ServerInit ==
  /\ link \in {"pull", "push"} /\ menu \in Menus
  /\ srv = [d \in Devices |-> Stopped]
  /\ devs = Nothing /\ primed = Nothing
  /\ files = Models
  /\ auto \in BOOLEAN /\ quietLong = FALSE  \* auto_unload is read from cluster.json
  /\ locks = Nothing
  /\ th = [a \in Actors |-> Free]
  /\ commands = 0 /\ serverFaults = 0

Loaded(f) == {d \in Devices : f[d] # None}
At(a, step) == th[a].pc = step
Become(a, t) == th' = [th EXCEPT ![a] = t]
GoOn(a, step) == th' = [th EXCEPT ![a].pc = step]
Set(f, d, x) == [f EXCEPT ![d] = x]
ServerFault == serverFaults < MaxServerFaults /\ serverFaults' = serverFaults + 1

----------------------------------------------------------------------------
(* A command arrives.                                                       *)

\* (bug variant) A thread for each command of a pull agent too.
RunsAnywhere(a, op) == a \in Threads

\* The heartbeats of a pull agent carry the commands: model operations run in their
\* thread one after the other.
Runs(a, op) == IF link = "pull" /\ op \in Serial THEN a = Beat ELSE a \in Threads

Execute(a, op) ==
  /\ th[a] = Free /\ op \in menu /\ Runs(a, op)
  /\ commands < MaxCommands
  /\ commands' = commands + 1
  /\ quietLong' = FALSE
  /\ UNCHANGED <<link, menu, locks, serverFaults>>

\* load and download_and_load; the device is named, or the first that is free.
Load(a, op, m, d) ==
  /\ op \in {"load", "fetch"} /\ Execute(a, op)
  /\ Become(a, [Free EXCEPT !.op = op, !.pc = "lock", !.dev = d, !.model = m])
  /\ UNCHANGED <<srv, recordVars, files, auto>>

\* _unload first adopts a server that runs on the first device unrecorded. A hung
\* server may be mute: it does not say what it serves.
Adopted(mute) == IF /\ Loaded(devs) = {} /\ srv[Gpu0].model # None
                    /\ srv[Gpu0].owner = None /\ Gpu0 \notin mute
                 THEN Set(devs, Gpu0, srv[Gpu0].model) ELSE devs

Active == {d \in Devices : srv[d].reg = "live"}
Asleep(m) == {d \in Devices : primed[d] = m}

\* The record is asked first, then the servers (one that is mute is taken for the
\* model if it is the only one), then the sleeping models.
Unload(a, m) ==
  /\ Execute(a, "unload")
  /\ \E mute \in SUBSET {d \in Devices : srv[d].hung} :
       LET holding == {d \in Devices : Adopted(mute)[d] = m}
           serving == {d \in Active : IF d \in mute THEN Active = {d} ELSE srv[d].model = m}
           running == IF holding # {} THEN holding ELSE serving
       IN
       /\ devs' = Adopted(mute)
       /\ srv' = IF holding = {} THEN Pruned ELSE srv
       /\ IF running # {}
          THEN /\ \E d \in running :
                    Become(a, [Free EXCEPT !.op = "unload", !.pc = "halt", !.dev = d, !.model = m])
               /\ UNCHANGED primed
          ELSE /\ IF Asleep(m) = {} THEN UNCHANGED primed
                  ELSE \E d \in Asleep(m) : primed' = Set(primed, d, None)
               /\ UNCHANGED th
  /\ UNCHANGED <<files, auto>>

\* Every file goes whose path shares a longer part with the one named.
Erase(m) == \E kin \in SUBSET Models : m \in kin /\ files' = files \ kin

DeleteModel(a, m) ==
  /\ Execute(a, "delete")
  /\ LET on == {d \in Devices : devs[d] = m} IN
     IF on = {}
     THEN Erase(m) /\ UNCHANGED th
     ELSE /\ \E d \in on :
               Become(a, [Free EXCEPT !.op = "delete", !.pc = "halt", !.dev = d, !.model = m])
          /\ UNCHANGED files
  /\ UNCHANGED <<srv, recordVars, auto>>

UnloadAll(a) ==
  /\ Execute(a, "unload_all")
  /\ primed' = Nothing
  /\ Become(a, [Free EXCEPT !.op = "unload_all", !.pc = "sweep",
                            !.todo = {d \in Devices : srv[d].reg # "none"}])
  /\ UNCHANGED <<srv, devs, files, auto>>

\* The named model if it is loaded, else any that is; else a sleeping one is woken:
\* the named one, or the first. Else the command fails. A benchmark does the same.
Prompt(a, m) ==
  /\ Execute(a, "prompt")
  /\ LET exact(f) == IF \E d \in Devices : f[d] = m THEN {d \in Devices : f[d] = m} ELSE Loaded(f)
         start(d, f, step) == Become(a, [Free EXCEPT !.op = "prompt", !.pc = step, !.dev = d,
                                                     !.model = f[d]])
     IN \/ \E d \in exact(devs) : start(d, devs, "gen") /\ UNCHANGED primed
        \/ /\ Loaded(devs) = {}
           /\ \E d \in exact(primed) : /\ start(d, primed, "stop")
                                       /\ primed' = Set(primed, d, None)
        \/ /\ Loaded(devs) = {} /\ Loaded(primed) = {}
           /\ UNCHANGED <<th, primed>>
  /\ UNCHANGED <<srv, devs, files, auto>>

\* configure auto_unload; turned off, it wakes the sleeping models.
Configure(a, op) ==
  /\ op \in {"on", "off"} /\ Execute(a, op)
  /\ auto' = (op = "on")
  /\ IF auto /\ op = "off"
     THEN Become(a, [Free EXCEPT !.op = "off", !.pc = "wake", !.todo = Loaded(primed),
                                 !.seen = primed])
     ELSE UNCHANGED th
  /\ UNCHANGED <<srv, recordVars, files>>

\* configure spec_decode: the model of the device is loaded again.
Reload(a, d) ==
  /\ Execute(a, "reload") /\ devs[d] # None
  /\ Become(a, [Free EXCEPT !.op = "reload", !.pc = "stop", !.dev = d, !.model = devs[d]])
  /\ UNCHANGED <<srv, recordVars, files, auto>>

----------------------------------------------------------------------------
(* _load_model and start_server, by any thread.                             *)

Unlock(a) == IF locks[th[a].dev] = a THEN Set(locks, th[a].dev, None) ELSE locks

\* The end of a load, with or without success: what the caller does then.
Return(a) ==
  Become(a, CASE th[a].op = "prompt" /\ At(a, "record") -> [th[a] EXCEPT !.pc = "gen"]
              [] th[a].op = "beat" -> [th[a] EXCEPT !.pc = "check", !.dev = None,
                                                    !.model = None, !.tries = 0]
              [] th[a].op = "off"  -> [th[a] EXCEPT !.pc = "wake", !.dev = None,
                                                    !.model = None, !.tries = 0]
              [] OTHER -> Free)

\* Under the lock the path of the model is looked up; a download comes first.
Lock(a) ==
  /\ At(a, "lock") /\ locks[th[a].dev] = None
  /\ IF th[a].op = "load" /\ th[a].model \notin files
     THEN Become(a, Free) /\ UNCHANGED locks
     ELSE /\ GoOn(a, IF th[a].op = "load" THEN "stop" ELSE "fetch")
          /\ locks' = Set(locks, th[a].dev, a)
  /\ UNCHANGED <<srv, recordVars, otherVars>>

Fetch(a) ==
  /\ At(a, "fetch")
  /\ \/ GoOn(a, "stop") /\ files' = files \cup {th[a].model} /\ UNCHANGED serverFaults
     \/ GoOn(a, "fail") /\ ServerFault /\ UNCHANGED files
  /\ UNCHANGED <<srv, recordVars, link, menu, auto, quietLong, locks, commands>>

StopOld(a) ==
  /\ At(a, "stop")
  /\ LET d == th[a].dev IN
     IF th[a].model \notin files
     THEN GoOn(a, "fail") /\ UNCHANGED srv
     ELSE GoOn(a, "spawn") /\ srv' = Set(srv, d, StopServer(srv[d]))
  /\ UNCHANGED <<recordVars, otherVars, locks>>

Spawn(a) ==
  /\ At(a, "spawn")
  /\ LET d == th[a].dev IN
     srv' = IF srv[d].model # None THEN srv
            ELSE [srv EXCEPT ![d].model = th[a].model, ![d].owner = a]
  /\ GoOn(a, "wait")
  /\ UNCHANGED <<recordVars, otherVars, locks>>

Mine(a) == srv[th[a].dev].owner = a

\* The port answers; it may be the process of another thread while the own one has
\* not yet exited.
Ready(a) ==
  /\ At(a, "wait")
  /\ LET d == th[a].dev IN
     /\ srv[d].model # None
     /\ srv' = [srv EXCEPT ![d].reg = IF Mine(a) THEN "live" ELSE "dead",
                           ![d].owner = IF Mine(a) THEN None ELSE @]
  /\ GoOn(a, "record")
  /\ UNCHANGED <<recordVars, otherVars, locks>>

\* (bug variant) One try too many.
NotReadyOnceMore(a) ==
  /\ At(a, "wait")
  /\ LET d == th[a].dev IN
     IF Mine(a)
     THEN ServerFault /\ srv' = Set(srv, d, Killed(srv[d]))
     ELSE UNCHANGED <<srv, serverFaults>>
  /\ IF th[a].tries <= Retries
     THEN Become(a, [th[a] EXCEPT !.pc = "stop", !.tries = @ + 1])
     ELSE GoOn(a, "fail")
  /\ UNCHANGED <<recordVars, link, menu, files, auto, quietLong, commands, locks>>

\* The process exited, or is not ready in time: again, with a smaller context.
NotReady(a) ==
  /\ At(a, "wait")
  /\ LET d == th[a].dev IN
     IF Mine(a)
     THEN ServerFault /\ srv' = Set(srv, d, Killed(srv[d]))
     ELSE UNCHANGED <<srv, serverFaults>>
  /\ IF th[a].tries < Retries
     THEN Become(a, [th[a] EXCEPT !.pc = "stop", !.tries = @ + 1])
     ELSE GoOn(a, "fail")
  /\ UNCHANGED <<recordVars, link, menu, files, auto, quietLong, commands, locks>>

Record(a) ==
  /\ At(a, "record")
  /\ devs' = Set(devs, th[a].dev, th[a].model)
  /\ Return(a)
  /\ locks' = Unlock(a)
  /\ UNCHANGED <<srv, primed, otherVars>>

\* A restart that fails forgets the device.
LoadFails(a) ==
  /\ At(a, "fail")
  /\ devs' = IF th[a].op = "beat" THEN Set(devs, th[a].dev, None) ELSE devs
  /\ Return(a)
  /\ locks' = Unlock(a)
  /\ UNCHANGED <<srv, primed, otherVars>>

LoadStep(a) == \/ Lock(a) \/ Fetch(a) \/ StopOld(a) \/ Spawn(a) \/ Ready(a)
               \/ NotReady(a) \/ Record(a) \/ LoadFails(a)

----------------------------------------------------------------------------
(* The other steps of commands.                                             *)

Generate(a) ==
  /\ At(a, "gen")
  /\ Become(a, Free)
  /\ UNCHANGED <<srv, recordVars, otherVars, locks>>

Halt(a) ==
  /\ At(a, "halt")
  /\ srv' = Set(srv, th[a].dev, StopServer(srv[th[a].dev]))
  /\ GoOn(a, "drop")
  /\ UNCHANGED <<recordVars, otherVars, locks>>

Drop(a) ==
  /\ At(a, "drop")
  /\ devs' = Set(devs, th[a].dev, None)
  /\ IF th[a].op = "delete" THEN Erase(th[a].model) ELSE UNCHANGED files
  /\ Become(a, Free)
  /\ UNCHANGED <<srv, primed, link, menu, auto, quietLong, locks, commands, serverFaults>>

\* stop_server(None): the registered servers one by one; the ports when none is left.
Sweep(a) ==
  /\ At(a, "sweep")
  /\ \/ \E d \in th[a].todo :
          /\ srv' = Set(srv, d, StopServer(srv[d]))
          /\ Become(a, [th[a] EXCEPT !.todo = @ \ {d}])
     \/ /\ th[a].todo = {}
        /\ srv' = IF \A d \in Devices : srv[d].reg = "none"
                  THEN [d \in Devices |-> Stopped] ELSE srv
        /\ GoOn(a, "clear")
  /\ UNCHANGED <<recordVars, otherVars, locks>>

Clear(a) ==
  /\ At(a, "clear")
  /\ devs' = Nothing
  /\ Become(a, Free)
  /\ UNCHANGED <<srv, primed, otherVars, locks>>

Wake(a) ==
  /\ At(a, "wake")
  /\ \/ \E d \in th[a].todo :
          /\ Become(a, [th[a] EXCEPT !.pc = "stop", !.dev = d, !.model = th[a].seen[d],
                                     !.todo = @ \ {d}])
          /\ UNCHANGED primed
     \/ th[a].todo = {} /\ primed' = Nothing /\ Become(a, Free)
  /\ UNCHANGED <<srv, devs, otherVars, locks>>

----------------------------------------------------------------------------
(* The heartbeat: the payload is built in the thread of the heartbeats, or, at  *)
(* a push agent, in the thread of each poll.                                    *)

\* check_crashed_servers looks once which servers run.
BeginBeat(a) ==
  /\ IF link = "pull" THEN a = Beat ELSE a \in Threads
  /\ th[a] = Free
  /\ srv' = Pruned
  /\ Become(a, [Free EXCEPT !.op = "beat", !.pc = "check", !.todo = Loaded(devs),
                               !.seen = devs,
                               !.down = {d \in Devices : srv[d].reg # "live"}])
  /\ UNCHANGED <<recordVars, otherVars, locks>>

\* The health check or the probe: a token that is generated in time.
Fails(d) == srv[d].model = None \/ srv[d].hung

\* (bug variant) A device that a load has locked is restarted all the same.
CheckDeviceUnasked(a, d) ==
  /\ At(a, "check") /\ d \in th[a].todo
  /\ LET t == th[a] IN
     Become(a, IF d \in t.down \/ Fails(d)
                  THEN [t EXCEPT !.pc = "kill", !.dev = d, !.model = t.seen[d], !.todo = @ \ {d}]
                  ELSE [t EXCEPT !.todo = @ \ {d}])
  /\ UNCHANGED <<srv, recordVars, otherVars, locks>>

\* (bug variant) No probe: only processes that ended are noticed.
CheckDeviceByProcess(a, d) ==
  /\ At(a, "check") /\ d \in th[a].todo
  /\ LET t == th[a] IN
     IF d \in t.down /\ locks[d] = None
     THEN /\ locks' = Set(locks, d, a)
          /\ Become(a, [t EXCEPT !.pc = "kill", !.dev = d, !.model = t.seen[d],
                                    !.todo = @ \ {d}])
     ELSE Become(a, [t EXCEPT !.todo = @ \ {d}]) /\ UNCHANGED locks
  /\ UNCHANGED <<srv, recordVars, otherVars>>

\* A probe finds a hung server; here it is due in every heartbeat.
CheckDevice(a, d) ==
  /\ At(a, "check") /\ d \in th[a].todo
  /\ LET t == th[a] IN
     IF (d \in t.down \/ Fails(d)) /\ locks[d] = None
     THEN /\ locks' = Set(locks, d, a)
          /\ Become(a, [t EXCEPT !.pc = "kill", !.dev = d, !.model = t.seen[d],
                                    !.todo = @ \ {d}])
     ELSE Become(a, [t EXCEPT !.todo = @ \ {d}]) /\ UNCHANGED locks
  /\ UNCHANGED <<srv, recordVars, otherVars>>

Kill(a) ==
  /\ At(a, "kill")
  /\ srv' = Set(srv, th[a].dev, StopServer(srv[th[a].dev]))
  /\ GoOn(a, "stop")
  /\ UNCHANGED <<recordVars, otherVars, locks>>

\* check_auto_unload, then the payload.
CheckIdle(a) ==
  /\ At(a, "check") /\ th[a].todo = {}
  /\ IF auto /\ quietLong /\ Loaded(devs) # {}
     THEN Become(a, [Free EXCEPT !.op = "beat", !.pc = "doze", !.todo = Loaded(devs),
                                    !.seen = devs])
     ELSE Become(a, Free)
  /\ UNCHANGED <<srv, recordVars, otherVars, locks>>

\* The whole record is cleared in the end.
Doze(a) ==
  /\ At(a, "doze")
  /\ \/ \E d \in th[a].todo :
          /\ primed' = Set(primed, d, th[a].seen[d])
          /\ srv' = Set(srv, d, StopServer(srv[d]))
          /\ Become(a, [th[a] EXCEPT !.todo = @ \ {d}])
          /\ UNCHANGED devs
     \/ /\ th[a].todo = {}
        /\ devs' = Nothing
        /\ Become(a, Free)
        /\ UNCHANGED <<srv, primed>>
  /\ UNCHANGED <<otherVars, locks>>

BeatStep(a) == (\E d \in Devices : CheckDevice(a, d)) \/ Kill(a) \/ CheckIdle(a) \/ Doze(a)

----------------------------------------------------------------------------
(* The environment.                                                         *)

QuietPasses ==
  /\ auto /\ ~quietLong
  /\ quietLong' = TRUE
  /\ UNCHANGED <<link, menu, srv, recordVars, files, auto, locks, th, commands, serverFaults>>

Crash(d) ==
  /\ srv[d].model # None /\ ServerFault
  /\ srv' = Set(srv, d, [Stopped EXCEPT !.reg = IF srv[d].reg = "live" THEN "dead" ELSE srv[d].reg])
  /\ UNCHANGED <<recordVars, link, menu, files, auto, quietLong, locks, th, commands>>

Hang(d) ==
  /\ srv[d].model # None /\ srv[d].owner = None /\ ~srv[d].hung /\ ServerFault
  /\ srv' = [srv EXCEPT ![d].hung = TRUE]
  /\ UNCHANGED <<recordVars, link, menu, files, auto, quietLong, locks, th, commands>>

\* restart_agent, or the watchdog finds the health file stale, as it may be while a
\* pull agent loads in the thread of its heartbeats. The servers live on;
\* cleanup_orphaned_servers kills those that answer, not those that still load.
RestartAgent ==
  /\ ServerFault
  /\ \E loading \in SUBSET {d \in Devices : srv[d].owner # None} :
       srv' = [d \in Devices |->
                 IF d \in loading
                 THEN [srv[d] EXCEPT !.owner = Orphan, !.reg = "none", !.left = TRUE]
                 ELSE Stopped]
  /\ devs' = Nothing /\ primed' = Nothing /\ locks' = Nothing
  /\ quietLong' = FALSE
  /\ th' = [a \in Actors |-> Free]
  /\ UNCHANGED <<link, menu, files, auto, commands>>

\* A server that was left loading answers.
Settle(d) ==
  /\ srv[d].owner = Orphan
  /\ srv' = [srv EXCEPT ![d].owner = None]
  /\ UNCHANGED <<recordVars, otherVars, locks, th>>

CommandStep(a) == LoadStep(a) \/ Generate(a) \/ Halt(a) \/ Drop(a) \/ Sweep(a) \/ Clear(a) \/ Wake(a)

ServerNext ==
  \/ \E a \in Actors, m \in Models :
       \/ \E op \in {"load", "fetch"}, d \in Devices : Load(a, op, m, d)
       \/ Unload(a, m) \/ DeleteModel(a, m) \/ Prompt(a, m)
  \/ \E a \in Actors :
       \/ UnloadAll(a)
       \/ \E op \in {"on", "off"} : Configure(a, op)
       \/ \E d \in Devices : Reload(a, d)
       \/ CommandStep(a) \/ BeginBeat(a) \/ BeatStep(a)
  \/ QuietPasses \/ RestartAgent
  \/ \E d \in Devices : Crash(d) \/ Hang(d) \/ Settle(d)

\* Threads run on, and heartbeats never cease: every five seconds, or when nCore polls.
ServerFairness ==
  /\ \A a \in Actors : WF_serverVars(CommandStep(a) \/ BeatStep(a))
  /\ WF_serverVars(\E a \in Actors : BeginBeat(a))

ServerSpec == ServerInit /\ [][ServerNext]_serverVars /\ ServerFairness

----------------------------------------------------------------------------
(* Properties.                                                              *)

ServerTypeOK ==
  /\ link \in {"pull", "push"} /\ menu \in Menus
  /\ srv \in [Devices -> Server]
  /\ devs \in [Devices -> Models \cup {None}] /\ primed \in [Devices -> Models \cup {None}]
  /\ files \subseteq Models
  /\ auto \in BOOLEAN /\ quietLong \in BOOLEAN
  /\ locks \in [Devices -> Actors \cup {None}]
  /\ th \in [Actors -> Thread]
  /\ commands \in 0..MaxCommands /\ serverFaults \in 0..MaxServerFaults

\* A pull agent that neither downloads, sleeps nor is configured: between two
\* heartbeats a process that runs is the registered one and serves the recorded model.
\* It rests on running the model operations in one thread (link.py, _pull). The one
\* exception is a process that an earlier agent left loading, which no restart of that
\* agent ends (server.py, cleanup_orphaned_servers): it runs unregistered, and on
\* record, if at all, under the model it serves, until a command stops it.
RecordTrue ==
  link = "pull" /\ menu = Serial \cup {"prompt"} /\ ~auto /\ th[Beat] = Free =>
    \A d \in Devices : srv[d].model # None =>
      IF srv[d].left
      THEN srv[d].reg = "none" /\ devs[d] \in {None, srv[d].model}
      ELSE srv[d].reg = "live" /\ devs[d] = srv[d].model

\* A restart never takes away the process that a load of a command waits for,
\* whichever poll finds the device down.
RecoverySparesJobs ==
  [][\A d \in Devices, b \in Actors :
       LET a == srv[d].owner IN
       /\ a \in Threads /\ th[a].op \in {"load", "fetch"}
       /\ th[b].op = "beat" /\ th[b].pc \in {"kill", "stop"} /\ th'[b] # th[b]
       /\ th' # [x \in Actors |-> Free]
       => srv'[d].owner = a]_serverVars

\* A device whose server died or hangs is served again, or is no longer recorded.
Recovers ==
  \A d \in Devices :
    devs[d] # None ~> (devs[d] = None \/ (srv[d].reg = "live" /\ ~srv[d].hung))
=============================================================================
