---------------------------- MODULE MissionLifecycle ----------------------------
(***************************************************************************)
(* The life of autonomous missions: the facade the HTTP handlers call      *)
(* (mission/__init__.py), the mission loop each start spawns               *)
(* (mission/loop.py), the Docker container a mission works in              *)
(* (mission/container.py) and what survives a restart of nCore             *)
(* (mission/persistence.py).                                               *)
(*                                                                         *)
(* A mission id and the MissionState object registered under it are        *)
(* different things: delete unregisters the object while its loop still    *)
(* runs, and a later start registers a new object under the same id.       *)
(* Containers are found by NAME, so they belong to the id.                 *)
(*                                                                         *)
(* Thread.start() is merged with the locked section before it: a loop      *)
(* that is spawned late is a loop whose first step comes late.             *)
(***************************************************************************)
EXTENDS Integers, FiniteSets

CONSTANTS
  Missions,        \* mission ids
  Objs,            \* MissionState objects in use at once (bound)
  Loops,           \* mission-loop threads alive at once (bound)
  Conts,           \* Docker container ids, reused once nothing names them (bound)
  None,            \* Python's None
  MaxMissions,     \* _MAX_MISSIONS
  MaxConcurrent,   \* _MAX_CONCURRENT
  MaxSaves,        \* saves between their snapshot and their write (bound)
  MaxRestarts      \* restarts of nCore (bound)

ASSUME NoneAssumption == None \notin Objs \cup Conts \cup Missions
ASSUME CapAssumption == MaxMissions \in Nat /\ MaxConcurrent \in Nat
ASSUME FiniteAssumption == IsFiniteSet(Missions)
ASSUME BoundAssumption == MaxSaves \in Nat /\ MaxRestarts \in Nat

Active   == {"initializing", "running"}
Finished == {"completed", "failed", "error"}
Statuses == Active \cup Finished \cup {"paused"}

\* Where a mission loop stands; "idle" is a slot with no thread.
Steps == {"idle", "init", "run", "adopt", "elect", "check", "round", "ask",
          "finish", "completing"}

\* round_trips: the loop's verdict only asks whether it is above 1.
Trips == 0..2

VARIABLES
  registry,    \* _missions: the object registered under each id
  mid,         \* mission_id of each object, None of one not created yet
  status,      \* MissionState.status
  stopping,    \* MissionState._stop_event
  cont,        \* MissionState.container_id
  trips,       \* MissionState.round_trips, saturated at 2
  pc, runs,    \* the step of each loop thread and the object it works on
  made,        \* the container a loop has created and not yet recorded
  docker,      \* the container that bears the name cf-mission-<id>
  destroying,  \* deleted objects whose destroy thread has not run yet
  gcPc, gcSet, \* a garbage collection: known ids at "ps", doomed ones at "rm"
  disk,        \* missions.json: the ids it holds
  due,         \* some thread is about to call persist_missions
  saves,       \* snapshots taken under the lock and not yet written
  restarts     \* restarts so far (bounds the model)

objVars  == <<registry, mid, status, stopping, cont, trips>>
loopVars == <<pc, runs, made>>
gcVars   == <<gcPc, gcSet>>
saveVars == <<disk, due, saves, restarts>>
vars == <<objVars, loopVars, docker, destroying, gcVars, saveVars>>

Registered == {i \in Missions : registry[i] # None}
ActiveMissions == {i \in Registered : status[registry[i]] \in Active}
RunsOn(o) == {l \in Loops : runs[l] = o}
FreeObjs  == {o \in Objs \ destroying : RunsOn(o) = {} /\ \A i \in Missions : registry[i] # o}
IdleLoops == {l \in Loops : pc[l] = "idle"}
FreeConts == {c \in Conts : /\ \A i \in Missions : docker[i] # c
                            /\ \A o \in Objs \ FreeObjs : cont[o] # c
                            /\ \A l \in Loops : made[l] # c}

----------------------------------------------------------------------------
(* Initial state: missions.json does not exist yet.                         *)

Init ==
  /\ registry = [i \in Missions |-> None]
  /\ mid = [o \in Objs |-> None]
  /\ status = [o \in Objs |-> "initializing"]
  /\ stopping = [o \in Objs |-> FALSE]
  /\ cont = [o \in Objs |-> None]
  /\ trips = [o \in Objs |-> 0]
  /\ pc = [l \in Loops |-> "idle"]
  /\ runs = [l \in Loops |-> None]
  /\ made = [l \in Loops |-> None]
  /\ docker = [i \in Missions |-> None]
  /\ destroying = {}
  /\ gcPc = "idle" /\ gcSet = {}
  /\ disk = {}
  /\ due = FALSE /\ saves = {} /\ restarts = 0

----------------------------------------------------------------------------
(* The facade. Every call that changes something ends in persist_missions.  *)

Spawn(o) ==
  LET l == CHOOSE x \in Loops : x \in IdleLoops IN
  /\ IdleLoops # {}
  /\ pc' = [pc EXCEPT ![l] = "init"]
  /\ runs' = [runs EXCEPT ![l] = o]
  /\ UNCHANGED made

PersistDue == due' = TRUE /\ UNCHANGED <<disk, saves, restarts>>

StartNew(i) ==
  LET o == CHOOSE x \in Objs : x \in FreeObjs IN
  /\ registry[i] = None
  /\ Cardinality(Registered) < MaxMissions
  /\ Cardinality(ActiveMissions) < MaxConcurrent
  /\ FreeObjs # {}
  /\ registry' = [registry EXCEPT ![i] = o]
  /\ mid' = [mid EXCEPT ![o] = i]
  /\ status' = [status EXCEPT ![o] = "initializing"]
  /\ stopping' = [stopping EXCEPT ![o] = FALSE]
  /\ cont' = [cont EXCEPT ![o] = None]
  /\ trips' = [trips EXCEPT ![o] = 0]
  /\ Spawn(o)
  /\ PersistDue
  /\ UNCHANGED <<docker, destroying, gcVars>>

\* start_mission on a registered mission that is neither running nor
\* initializing; on one that is, only its text may change.
StartAgain(i) ==
  LET o == registry[i] IN
  /\ i \in Registered
  /\ status[o] \notin Active
  /\ stopping' = [stopping EXCEPT ![o] = FALSE]
  /\ status' = [status EXCEPT ![o] = "running"]
  /\ Spawn(o)
  /\ PersistDue
  /\ UNCHANGED <<registry, mid, cont, trips, docker, destroying, gcVars>>

Pause(i) ==
  LET o == registry[i] IN
  /\ i \in Registered
  /\ status[o] = "running"
  /\ status' = [status EXCEPT ![o] = "paused"]
  /\ stopping' = [stopping EXCEPT ![o] = TRUE]
  /\ PersistDue
  /\ UNCHANGED <<registry, mid, cont, trips, loopVars, docker, destroying, gcVars>>

ResumeNoLoop(i) ==
  LET o == registry[i] IN
  /\ i \in Registered
  /\ status[o] = "paused"
  /\ status' = [status EXCEPT ![o] = "running"]
  /\ stopping' = [stopping EXCEPT ![o] = FALSE]
  /\ PersistDue
  /\ UNCHANGED <<registry, mid, cont, trips, loopVars, docker, destroying, gcVars>>

Resume(i) ==
  LET o == registry[i] IN
  /\ i \in Registered
  /\ status[o] = "paused"
  /\ status' = [status EXCEPT ![o] = "running"]
  /\ stopping' = [stopping EXCEPT ![o] = FALSE]
  /\ Spawn(o)
  /\ PersistDue
  /\ UNCHANGED <<registry, mid, cont, trips, docker, destroying, gcVars>>

StopAsStopped(i) ==
  LET o == registry[i] IN
  /\ i \in Registered
  /\ stopping' = [stopping EXCEPT ![o] = TRUE]
  /\ status' = [status EXCEPT ![o] = "stopped"]
  /\ PersistDue
  /\ UNCHANGED <<registry, mid, cont, trips, loopVars, docker, destroying, gcVars>>

Stop(i) ==
  LET o == registry[i] IN
  /\ i \in Registered
  /\ stopping' = [stopping EXCEPT ![o] = TRUE]
  /\ status' = [status EXCEPT ![o] = "completed"]
  /\ PersistDue
  /\ UNCHANGED <<registry, mid, cont, trips, loopVars, docker, destroying, gcVars>>

Delete(i) ==
  LET o == registry[i] IN
  /\ i \in Registered
  /\ registry' = [registry EXCEPT ![i] = None]
  /\ stopping' = [stopping EXCEPT ![o] = TRUE]
  /\ destroying' = destroying \cup {o}
  /\ PersistDue
  /\ UNCHANGED <<mid, status, cont, trips, loopVars, docker, gcVars>>

Facade(i) ==
  \/ StartNew(i) \/ StartAgain(i) \/ Pause(i) \/ Resume(i) \/ Stop(i) \/ Delete(i)

----------------------------------------------------------------------------
(* The mission loop. Its exits end the thread and free its slot.            *)

GoTo(l, step) ==
  /\ pc' = [pc EXCEPT ![l] = step]
  /\ UNCHANGED <<runs, made>>

End(l) ==
  /\ pc' = [pc EXCEPT ![l] = "idle"]
  /\ runs' = [runs EXCEPT ![l] = None]
  /\ made' = [made EXCEPT ![l] = None]

SetStatus(l, s) ==
  /\ status' = [status EXCEPT ![runs[l]] = s]
  /\ UNCHANGED <<registry, mid, stopping, cont, trips>>

\* _phase_initialize: a mission without a container first removes whatever
\* bears its name (docker rm -f), then creates one.
LoopInit(l) ==
  /\ pc[l] = "init"
  /\ IF cont[runs[l]] = None
     THEN /\ docker' = [docker EXCEPT ![mid[runs[l]]] = None]
          /\ GoTo(l, "run")
     ELSE /\ GoTo(l, "elect")
          /\ UNCHANGED docker
  /\ UNCHANGED <<objVars, destroying, gcVars, saveVars>>

\* docker run --name: refused while another container bears the name.
LoopRun(l) ==
  LET c == CHOOSE x \in Conts : x \in FreeConts IN
  /\ pc[l] = "run"
  /\ docker[mid[runs[l]]] = None
  /\ FreeConts # {}
  /\ docker' = [docker EXCEPT ![mid[runs[l]]] = c]
  /\ made' = [made EXCEPT ![l] = c]
  /\ pc' = [pc EXCEPT ![l] = "adopt"]
  /\ UNCHANGED <<runs, objVars, destroying, gcVars, saveVars>>

LoopRunGoesOn(l) ==
  /\ pc[l] = "run"
  /\ GoTo(l, "elect")
  /\ UNCHANGED <<objVars, docker, destroying, gcVars, saveVars>>

\* docker run failed or timed out.
LoopRunFails(l) ==
  /\ pc[l] = "run"
  /\ SetStatus(l, "error")
  /\ End(l)
  /\ UNCHANGED <<docker, destroying, gcVars, saveVars>>

\* The file system of the container is set up; then container_id is set.
LoopAdopt(l) ==
  /\ pc[l] = "adopt"
  /\ cont' = [cont EXCEPT ![runs[l]] = made[l]]
  /\ made' = [made EXCEPT ![l] = None]
  /\ pc' = [pc EXCEPT ![l] = "elect"]
  /\ UNCHANGED <<runs, registry, mid, status, stopping, trips,
                 docker, destroying, gcVars, saveVars>>

\* Election over the healthy endpoints. The status becomes "running" whatever
\* the user did to the mission since the loop started.
LoopElect(l) ==
  /\ pc[l] = "elect"
  /\ \/ SetStatus(l, "running") /\ GoTo(l, "check")
     \/ SetStatus(l, "error") /\ End(l)
  /\ UNCHANGED <<docker, destroying, gcVars, saveVars>>

LoopCheck(l) ==
  /\ pc[l] = "check"
  /\ IF status[runs[l]] = "running" THEN GoTo(l, "round") ELSE End(l)
  /\ UNCHANGED <<objVars, docker, destroying, gcVars, saveVars>>

MustStop(l) == status[runs[l]] # "running" \/ stopping[runs[l]]

LoopTopDeaf(l) ==
  /\ pc[l] = "round"
  /\ \/ GoTo(l, "ask")
     \/ status[runs[l]] # "running" /\ GoTo(l, "finish")
  /\ UNCHANGED <<objVars, docker, destroying, gcVars, saveVars>>

\* The head of a round: leave if told to or after _MAX_ROUNDS rounds, force
\* completion after too many spin loops, or ask the showrunner. A round may
\* also save the missions (every _PERSIST_INTERVAL).
LoopTop(l) ==
  /\ pc[l] = "round"
  /\ \/ GoTo(l, "finish") /\ UNCHANGED due
     \/ /\ ~MustStop(l)
        /\ \/ GoTo(l, "ask") /\ due' \in {due, TRUE}
           \/ trips[runs[l]] = 2 /\ GoTo(l, "completing") /\ UNCHANGED due
  /\ UNCHANGED <<objVars, docker, destroying, gcVars, disk, saves, restarts>>

\* The showrunner answered and its actions were executed.
LoopAnswered(l) ==
  LET o == runs[l] IN
  /\ pc[l] = "ask"
  /\ trips' = [trips EXCEPT ![o] = IF @ = 2 THEN 2 ELSE @ + 1]
  /\ \/ GoTo(l, "round") /\ UNCHANGED <<status, due>>
     \/ trips[o] = 2 /\ GoTo(l, "completing") /\ UNCHANGED <<status, due>>
     \/ /\ status' = [status EXCEPT ![o] = "completed"]   \* action "complete"
        /\ due' = TRUE
        /\ GoTo(l, "finish")
  /\ UNCHANGED <<registry, mid, stopping, cont,
                 docker, destroying, gcVars, disk, saves, restarts>>

\* No answer: try again, perhaps with a newly elected showrunner, or give up
\* when the re-election finds none.
LoopSilence(l) ==
  /\ pc[l] = "ask"
  /\ \/ GoTo(l, "round") /\ UNCHANGED objVars
     \/ SetStatus(l, "failed") /\ End(l)
  /\ UNCHANGED <<docker, destroying, gcVars, saveVars>>

\* After the rounds. Without a second round trip the code reads
\* mission.tasks_completed, which MissionState does not have: the
\* AttributeError reaches the handler of all exceptions.
LoopFinish(l) ==
  /\ pc[l] = "finish"
  /\ IF trips[runs[l]] > 1
     THEN GoTo(l, "completing") /\ UNCHANGED objVars
     ELSE SetStatus(l, "error") /\ End(l)
  /\ UNCHANGED <<docker, destroying, gcVars, saveVars>>

LoopComplete(l) ==
  /\ pc[l] = "completing"
  /\ SetStatus(l, "completed")
  /\ End(l)
  /\ UNCHANGED <<docker, destroying, gcVars, saveVars>>

\* Any exception once the container runs, in a phase or in a round.
LoopCrash(l) ==
  /\ pc[l] \in {"adopt", "elect", "check", "round", "ask", "completing"}
  /\ SetStatus(l, "error")
  /\ End(l)
  /\ UNCHANGED <<docker, destroying, gcVars, saveVars>>

LoopStep(l) ==
  \/ LoopInit(l) \/ LoopRun(l) \/ LoopRunFails(l) \/ LoopAdopt(l) \/ LoopElect(l)
  \/ LoopCheck(l) \/ LoopTop(l) \/ LoopAnswered(l) \/ LoopSilence(l)
  \/ LoopFinish(l) \/ LoopComplete(l)

----------------------------------------------------------------------------
(* Containers: the destroy thread of a deleted mission, garbage collection. *)

Destroy(o) ==
  /\ o \in destroying
  /\ docker' = [docker EXCEPT ![mid[o]] = None]
  /\ destroying' = destroying \ {o}
  /\ UNCHANGED <<objVars, loopVars, gcVars, saveVars>>

\* gc_containers copies the known ids under the lock, then asks Docker, then
\* removes one container after the other.
GcStart ==
  /\ gcPc = "idle"
  /\ gcPc' = "ps" /\ gcSet' = Registered
  /\ UNCHANGED <<objVars, loopVars, docker, destroying, saveVars>>

GcListNothing ==
  /\ gcPc = "ps"
  /\ gcSet' = {}
  /\ gcPc' = "rm"
  /\ UNCHANGED <<objVars, loopVars, docker, destroying, saveVars>>

GcList ==
  /\ gcPc = "ps"
  /\ gcSet' = {i \in Missions \ gcSet : docker[i] # None}
  /\ gcPc' = "rm"
  /\ UNCHANGED <<objVars, loopVars, docker, destroying, saveVars>>

GcQueryFails ==
  /\ gcPc = "ps"
  /\ gcPc' = "idle" /\ gcSet' = {}
  /\ UNCHANGED <<objVars, loopVars, docker, destroying, saveVars>>

GcRemove(i) ==
  /\ gcPc = "rm"
  /\ i \in gcSet
  /\ docker' = [docker EXCEPT ![i] = None]
  /\ gcSet' = gcSet \ {i}
  /\ UNCHANGED <<gcPc, objVars, loopVars, destroying, saveVars>>

GcDone ==
  /\ gcPc = "rm" /\ gcSet = {}
  /\ gcPc' = "idle"
  /\ UNCHANGED <<gcSet, objVars, loopVars, docker, destroying, saveVars>>

----------------------------------------------------------------------------
(* Persistence. The snapshot is taken under the lock, the write is not.     *)

SaveSnapshot ==
  /\ due
  /\ Cardinality(saves) < MaxSaves
  /\ saves' = saves \cup {Registered}
  /\ due' = FALSE
  /\ UNCHANGED <<disk, restarts, objVars, loopVars, docker, destroying, gcVars>>

SaveUnlessEmpty(s) ==
  /\ s \in saves
  /\ disk' = IF s = {} THEN disk ELSE s
  /\ saves' = saves \ {s}
  /\ UNCHANGED <<due, restarts, objVars, loopVars, docker, destroying, gcVars>>

SaveWrite(s) ==
  /\ s \in saves
  /\ disk' = s
  /\ saves' = saves \ {s}
  /\ UNCHANGED <<due, restarts, objVars, loopVars, docker, destroying, gcVars>>

WatchdogSave ==
  /\ ~due
  /\ PersistDue
  /\ UNCHANGED <<objVars, loopVars, docker, destroying, gcVars>>

\* nCore dies and starts again: every thread and object is gone, containers and
\* missions.json stay. restore_missions skips a mission whose container it
\* cannot inspect (gone, or Docker not answering) and pauses all the others.
\* The saved round_trips is some earlier value.
Restart ==
  /\ restarts < MaxRestarts
  /\ restarts' = restarts + 1
  /\ \E S \in SUBSET {i \in disk : docker[i] # None} :
     \E f \in [S -> Objs] :
       LET owner(o) == IF \E i \in S : f[i] = o THEN CHOOSE i \in S : f[i] = o ELSE None
       IN
       /\ \A i, j \in S : f[i] = f[j] => i = j
       /\ registry' = [i \in Missions |-> IF i \in S THEN f[i] ELSE None]
       /\ mid' = [o \in Objs |-> owner(o)]
       /\ status' = [o \in Objs |-> IF owner(o) = None THEN "initializing" ELSE "paused"]
       /\ cont' = [o \in Objs |-> IF owner(o) = None THEN None ELSE docker[owner(o)]]
       /\ trips' \in {t \in [Objs -> Trips] : \A o \in Objs : owner(o) = None => t[o] = 0}
  /\ stopping' = [o \in Objs |-> FALSE]
  /\ pc' = [l \in Loops |-> "idle"]
  /\ runs' = [l \in Loops |-> None]
  /\ made' = [l \in Loops |-> None]
  /\ destroying' = {}
  /\ gcPc' = "idle" /\ gcSet' = {}
  /\ due' = FALSE /\ saves' = {}
  /\ UNCHANGED <<docker, disk>>

----------------------------------------------------------------------------

Next ==
  \/ \E i \in Missions : Facade(i)
  \/ \E l \in Loops : LoopStep(l) \/ LoopCrash(l)
  \/ \E o \in Objs : Destroy(o)
  \/ GcStart \/ GcList \/ GcQueryFails \/ GcDone
  \/ \E i \in Missions : GcRemove(i)
  \/ SaveSnapshot \/ WatchdogSave \/ Restart
  \/ \E s \in saves : SaveWrite(s)

Spec == Init /\ [][Next]_vars

\* A loop thread goes on running: each of its waits has a timeout. Nothing is
\* assumed of the user, of the showrunner's answers or of the rounds running
\* out. The watchdog collects and saves for ever; Docker answers again and
\* again; a save that began is written.
Fairness ==
  /\ \A l \in Loops : WF_vars(LoopStep(l))
  /\ \A o \in Objs : WF_vars(Destroy(o))
  /\ WF_vars(GcStart) /\ SF_vars(GcList) /\ WF_vars(GcDone)
  /\ \A i \in Missions : WF_vars(GcRemove(i))
  /\ WF_vars(WatchdogSave) /\ WF_vars(SaveSnapshot)
  /\ \A s \in SUBSET Missions : WF_vars(SaveWrite(s))

LiveSpec == Spec /\ Fairness

----------------------------------------------------------------------------
(* Properties.                                                              *)

\* Types; a loop thread works on one object, which was created.
TypeOK ==
  /\ registry \in [Missions -> Objs \cup {None}]
  /\ mid \in [Objs -> Missions \cup {None}]
  /\ status \in [Objs -> Statuses]
  /\ stopping \in [Objs -> BOOLEAN]
  /\ cont \in [Objs -> Conts \cup {None}]
  /\ trips \in [Objs -> Trips]
  /\ pc \in [Loops -> Steps]
  /\ runs \in [Loops -> Objs \cup {None}]
  /\ made \in [Loops -> Conts \cup {None}]
  /\ docker \in [Missions -> Conts \cup {None}]
  /\ destroying \subseteq Objs
  /\ gcPc \in {"idle", "ps", "rm"} /\ gcSet \subseteq Missions
  /\ disk \subseteq Missions /\ due \in BOOLEAN /\ saves \subseteq SUBSET Missions
  /\ restarts \in Nat

\* A mission that says it is initializing or running has a thread that will
\* change that: it cannot look alive for ever with nobody working on it, after
\* any interleaving of the facade's calls, several loops of the same mission,
\* failures and restarts.
ActiveHasLoop == \A i \in ActiveMissions : RunsOn(registry[i]) # {}

\* A loop that elects or asks a showrunner works for a mission whose container
\* is known: no failed "docker run" is taken for a success.
RoundsHaveContainer ==
  \A l \in Loops : pc[l] \in Steps \ {"idle", "init", "run", "adopt"} => cont[runs[l]] # None

\* A mission told to stop (paused, stopped or deleted) is soon left by every
\* loop that works on it, unless the user starts it again.
StopEnds ==
  \A o \in Objs : stopping[o] ~> (~stopping[o] \/ RunsOn(o) = {})

\* A container nobody will use, of a mission deleted while its loop was creating
\* it or forgotten by a restart, is removed, unless the mission starts again.
Orphaned(i) ==
  /\ docker[i] # None
  /\ registry[i] = None
  /\ \A l \in Loops : runs[l] # None => mid[runs[l]] # i
OrphanCollected == \A i \in Missions : Orphaned(i) ~> ~Orphaned(i)

\* Saves may be written out of order and lost with the process, but a mission
\* that stays registered is in the end on disk for good, and a deleted one is
\* not there to come back.
DiskFollows ==
  \A i \in Missions :
    /\ <>[](registry[i] # None) => <>[](i \in disk)
    /\ <>[](registry[i] = None) => <>[](i \notin disk)

----------------------------------------------------------------------------
(* What the code or its interface says and the code does not do.            *)

\* "Mission paused" (mission/__init__.py:171), and only a paused mission can be
\* resumed (line 182): a step of a mission loop must leave a paused one paused,
\* unless it fails.
PausedStays ==
  [][(\E l \in Loops : LoopStep(l))
       => \A o \in Objs :
            status[o] = "paused" => status'[o] \in {"paused", "error", "failed"}]_vars

\* "Maximum 3 concurrent missions" (mission/__init__.py:76).
CapHolds == Cardinality(ActiveMissions) <= MaxConcurrent

\* "If we exhausted rounds with zero real work, mark as failed" (loop.py:640).
NoWorkFails ==
  [][\A l \in Loops : pc[l] = "finish" /\ pc'[l] = "idle"
       => status'[runs[l]] = "failed"]_vars
=============================================================================
