------------------------------- MODULE Flock -------------------------------
(* The helpers of one mission (src/nCore/mission/flock.py, actions.py,        *)
(* agent_loop.py, loop.py).  The thread of a mission loop refreshes the flock, *)
(* collects results, dispatches tasks, cancels them and gives the helpers new  *)
(* names; every task has a thread of its own that prompts the helper, carries  *)
(* out what it answers and, at its end, frees the helper and moves the task to *)
(* the history.  Only that last part takes the lock of the mission; the loops  *)
(* never do, and a mission that is started or resumed while its old loop goes  *)
(* on has two of them.                                                         *)
EXTENDS Naturals, FiniteSets

CONSTANTS Loops,            \* threads that run the loop of the mission
          Endpoints,        \* models on nodes, other than the showrunner
          Names,            \* names the showrunner may give
          MaxAgents,        \* bound: helpers created
          MaxTasks,         \* bound: tasks dispatched
          MaxTurns,    \* iterations of a task, demotions included
          MaxFailures,      \* _MAX_CONSECUTIVE_FAILURES
          MaxErrors,        \* _MAX_CONSECUTIVE_AGENT_ERRORS
          MaxChanges        \* bound: endpoints that go or come back

ASSUME FlockAssumption ==
  /\ {MaxAgents, MaxTasks, MaxChanges} \subseteq Nat
  /\ {MaxTurns, MaxFailures, MaxErrors} \subseteq Nat \ {0}

Agents == 1..MaxAgents
Tasks == 1..MaxTasks
None == 0
\* done, failed, timed out and cancelled are one here.
TaskStatus == {"pending", "running", "ended"}
Given == {"listed", "held"}
Working == {"started", "top", "ask", "act"}
Locked == {"clear", "reopen", "file", "append"}

VARIABLES online,           \* endpoints the registry lists as ready
          changes,          \* how often that changed
          home, name,       \* per agent: endpoint and name
          agentStatus, assigned, \* per agent: status, assigned_task
          born,             \* agents created
          flock,            \* mission.flock
          departed,         \* mission._departed_flock
          task,             \* per task: agent, agent_name, status, _cancel_event
          made,             \* tasks dispatched
          active,           \* mission.tasks
          filed,            \* tasks with an entry in mission.task_history
          loop,             \* how far a task is: its dispatch, then its thread
          turn, failures, errors,   \* iteration, and counts of its failures
          sr,               \* where a mission loop is
          loose             \* helpers whose status no longer follows their tasks

agentVars == <<home, name, agentStatus, assigned, born>>
boardVars == <<task, active, filed>>
threadVars == <<loop, turn, failures, errors>>
flockVars == <<online, changes, agentVars, flock, departed, boardVars, made,
               threadVars, sr, loose>>

Blank == [agent |-> None, name |-> None, status |-> "pending", cancel |-> FALSE]
\* at, then what a loop has read: endpoints ready, endpoints somebody stands for, names of
\* helpers that are gone, names that are free, helpers to rename, tasks it is working on.
Idle == [at |-> "round", seen |-> {}, named |-> {}, gone |-> {}, fresh |-> {}, crew |-> {},
         todo |-> {}]

FlockInit ==
  /\ online = Endpoints
  /\ changes = 0
  /\ home = [a \in Agents |-> None] /\ name = [a \in Agents |-> None]
  /\ agentStatus = [a \in Agents |-> "available"]
  /\ assigned = [a \in Agents |-> None]
  /\ born = 0
  /\ flock = [n \in Names |-> None]
  /\ departed = {}
  /\ task = [t \in Tasks |-> Blank]
  /\ made = 0
  /\ active = {}
  /\ filed = {}
  /\ loop = [t \in Tasks |-> "none"]
  /\ turn = [t \in Tasks |-> 0]
  /\ failures = [t \in Tasks |-> 0]
  /\ errors = [t \in Tasks |-> 0]
  /\ sr = [l \in Loops |-> [Idle EXCEPT !.at = "over"]]
  /\ loose = {}

-----------------------------------------------------------------------------
(* A mission loop: update_flock.                                              *)

Members == {n \in Names : flock[n] # None}
Back(l) == {a \in departed : home[a] \in sr[l].seen \ sr[l].named}
Unnamed(l) == sr[l].seen \ sr[l].named
UnderWay(t) == loop[t] \notin Given \cup {"none", "lost", "over"}
Running(t) == task[t].status \in {"pending", "running"}
LoopAt(l, at) == sr[l].at = at
Sr(l, at) == sr' = [sr EXCEPT ![l].at = at]
SrIdle(l, at) == sr' = [sr EXCEPT ![l] = [Idle EXCEPT !.at = at]]

(* start_mission and resume_mission start a loop, whatever an older loop of   *)
(* the mission is doing.                                                      *)
StartLoop(l) ==
  /\ LoopAt(l, "over") /\ SrIdle(l, "round")
  /\ UNCHANGED <<online, changes, agentVars, flock, departed, boardVars, made, threadVars, loose>>

(* The endpoints are read once; entries of the departed may have run out of   *)
(* their period of grace.                                                     *)
Refresh(l) ==
  /\ LoopAt(l, "round")
  /\ \E kept \in SUBSET departed : departed' = kept
  /\ sr' = [sr EXCEPT ![l] = [Idle EXCEPT !.at = "flock", !.seen = online,
                                !.named = {home[flock[n]] : n \in Members},
                                !.gone = {n \in Members : home[flock[n]] \notin online}]]
  /\ UNCHANGED <<online, changes, agentVars, flock, boardVars, made, threadVars, loose>>

(* A helper whose endpoint is gone leaves; its tasks are cancelled and failed. *)
(* The departed are kept by endpoint.                                         *)
Depart(l, n) ==
  LET victims == {t \in active : task[t].name = n /\ Running(t)}
  IN  /\ LoopAt(l, "flock") /\ n \in sr[l].gone \cap Members
      /\ flock' = [flock EXCEPT ![n] = None]
      /\ departed' = {a \in departed : home[a] # home[flock[n]]} \cup {flock[n]}
      /\ task' = [t \in Tasks |-> IF t \in victims
                                  THEN [task[t] EXCEPT !.status = "ended", !.cancel = TRUE]
                                  ELSE task[t]]
      /\ sr' = [sr EXCEPT ![l].at = IF victims = {} THEN "flock" ELSE "departing",
                          ![l].gone = @ \ {n}, ![l].todo = victims]
      /\ UNCHANGED <<online, changes, agentVars, made, active, filed, threadVars, loose>>

(* `pop` of a name another loop has taken out raises, which ends this one.    *)
DepartTwice(l, n) ==
  /\ LoopAt(l, "flock") /\ n \in sr[l].gone \ Members /\ SrIdle(l, "over")
  /\ UNCHANGED <<online, changes, agentVars, flock, departed, boardVars, made, threadVars, loose>>

(* The entry is appended first; `del` on a task its own thread or another     *)
(* loop has moved meanwhile raises.                                           *)
FileDeparted(l, t) ==
  /\ LoopAt(l, "departing") /\ t \in sr[l].todo
  /\ filed' = filed \cup {t}
  /\ active' = active \ {t}
  /\ IF t \notin active THEN SrIdle(l, "over")
     ELSE sr' = [sr EXCEPT ![l].todo = @ \ {t},
                           ![l].at = IF sr[l].todo = {t} THEN "flock" ELSE @]
  /\ UNCHANGED <<online, changes, agentVars, flock, departed, task, made, threadVars, loose>>

(* A helper whose endpoint is back takes its name again, whoever has it now.  *)
Restore(l, a) ==
  /\ LoopAt(l, "flock") /\ sr[l].gone = {} /\ a \in Back(l)
  /\ flock' = [flock EXCEPT ![name[a]] = a]
  /\ departed' = departed \ {a}
  /\ agentStatus' = [agentStatus EXCEPT ![a] = "available"]
  /\ loose' = IF \E t \in Tasks : task[t].agent = a /\ (UnderWay(t) \/ loop[t] \in Given)
              THEN loose \cup {a} ELSE loose
  /\ sr' = [sr EXCEPT ![l].named = @ \cup {home[a]}]
  /\ UNCHANGED <<online, changes, home, name, assigned, born, boardVars, made, threadVars>>

(* The showrunner is asked for names of the endpoints nobody stands for.      *)
AskNames(l) ==
  /\ LoopAt(l, "flock") /\ sr[l].gone = {} /\ Back(l) = {}
  /\ Sr(l, IF Unnamed(l) = {} THEN "collect" ELSE "asking")
  /\ UNCHANGED <<online, changes, agentVars, flock, departed, boardVars, made, threadVars, loose>>

(* Whatever it answers, the names used are ones that are free then.           *)
Answered(l) ==
  /\ LoopAt(l, "asking")
  /\ sr' = [sr EXCEPT ![l].at = "naming", ![l].fresh = Names \ Members]
  /\ UNCHANGED <<online, changes, agentVars, flock, departed, boardVars, made, threadVars, loose>>

Join(l, e, n) ==
  LET a == born + 1
  IN  /\ LoopAt(l, "naming") /\ e \in Unnamed(l) /\ n \in sr[l].fresh
      /\ born < MaxAgents
      /\ born' = a
      /\ home' = [home EXCEPT ![a] = e]
      /\ name' = [name EXCEPT ![a] = n]
      /\ flock' = [flock EXCEPT ![n] = a]
      /\ sr' = [sr EXCEPT ![l].named = @ \cup {e}, ![l].fresh = @ \ {n}]
      /\ UNCHANGED <<online, changes, agentStatus, assigned, departed, boardVars, made,
                     threadVars, loose>>

Named(l) ==
  /\ LoopAt(l, "naming")
  /\ Unnamed(l) = {} \/ born = MaxAgents
  /\ Sr(l, "collect")
  /\ UNCHANGED <<online, changes, agentVars, flock, departed, boardVars, made, threadVars, loose>>

-----------------------------------------------------------------------------
(* A mission loop: results and actions.                                       *)

(* (bug variant) The results are taken and nothing is appended.               *)
CollectUnfiled(l) ==
  /\ sr[l].at \in {"round", "collect"}
  /\ sr' = [sr EXCEPT ![l] = [Idle EXCEPT !.at = "collected",
                                !.todo = {t \in active : task[t].status = "ended"}]]
  /\ UNCHANGED <<online, changes, agentVars, flock, departed, boardVars, made,
                 threadVars, loose>>

(* _collect_helper_results: tasks that have ended but are still listed are    *)
(* appended to the history and then removed.                                  *)
Collect(l) ==
  LET ended == {t \in active : task[t].status = "ended"}
  IN  /\ sr[l].at \in {"round", "collect"}
      /\ filed' = filed \cup ended
      /\ sr' = [sr EXCEPT ![l] = [Idle EXCEPT !.at = "collected", !.todo = ended]]
      /\ UNCHANGED <<online, changes, agentVars, flock, departed, task, active, made,
                     threadVars, loose>>

Collected(l) ==
  /\ LoopAt(l, "collected")
  /\ active' = active \ sr[l].todo
  /\ SrIdle(l, "acts")
  /\ UNCHANGED <<online, changes, agentVars, flock, departed, task, filed, made,
                 threadVars, loose>>

(* (bug variant) A busy helper is given another task.                         *)
DispatchToAnyone(l, n) ==
  LET a == flock[n]
      t == made + 1
  IN  /\ LoopAt(l, "acts") /\ n \in Members /\ made < MaxTasks
      /\ made' = t
      /\ task' = [task EXCEPT ![t].agent = a, ![t].name = n]
      /\ active' = active \cup {t}
      /\ assigned' = [assigned EXCEPT ![a] = t]
      /\ loop' = [loop EXCEPT ![t] = "listed"]
      /\ loose' = IF \E u \in Tasks : task[u].agent = a /\ loop[u] = "listed"
                  THEN loose \cup {a} ELSE loose
      /\ sr' = [sr EXCEPT ![l].at = "dispatching", ![l].todo = {t}]
      /\ UNCHANGED <<online, changes, home, name, agentStatus, born, flock, departed, filed,
                     turn, failures, errors>>

(* dispatch: to the helper named, or to a better one that is available.  The  *)
(* status is looked at, the task is listed and assigned ...                   *)
Dispatch(l, n) ==
  LET a == flock[n]
      t == made + 1
  IN  /\ LoopAt(l, "acts") /\ n \in Members /\ made < MaxTasks
      /\ agentStatus[a] # "busy"
      /\ made' = t
      /\ task' = [task EXCEPT ![t].agent = a, ![t].name = n]
      /\ active' = active \cup {t}
      /\ assigned' = [assigned EXCEPT ![a] = t]
      /\ loop' = [loop EXCEPT ![t] = "listed"]
      /\ loose' = IF \E u \in Tasks : task[u].agent = a /\ loop[u] = "listed"
                  THEN loose \cup {a} ELSE loose
      /\ sr' = [sr EXCEPT ![l].at = "dispatching", ![l].todo = {t}]
      /\ UNCHANGED <<online, changes, home, name, agentStatus, born, flock, departed, filed,
                     turn, failures, errors>>

Dispatching(l, t, at) == LoopAt(l, "dispatching") /\ t \in sr[l].todo /\ loop[t] = at

(* ... the helper is busy ...                                                 *)
Occupy(l, t) ==
  /\ Dispatching(l, t, "listed")
  /\ agentStatus' = [agentStatus EXCEPT ![task[t].agent] = "busy"]
  /\ loop' = [loop EXCEPT ![t] = "held"]
  /\ UNCHANGED <<online, changes, home, name, assigned, born, flock, departed, boardVars,
                 made, turn, failures, errors, sr, loose>>

(* ... and, once its conversation has been summed up by a prompt, the thread  *)
(* of the task is started.                                                    *)
Launch(l, t) ==
  /\ Dispatching(l, t, "held")
  /\ loop' = [loop EXCEPT ![t] = "started"]
  /\ SrIdle(l, "acts")
  /\ UNCHANGED <<online, changes, agentVars, flock, departed, boardVars,
                 made, turn, failures, errors, loose>>

(* An exception there ends the loop: the task is listed and never runs.       *)
DispatchRaises(l, t) ==
  /\ Dispatching(l, t, "held")
  /\ loop' = [loop EXCEPT ![t] = "lost"]
  /\ loose' = loose \cup {task[t].agent}
  /\ SrIdle(l, "over")
  /\ UNCHANGED <<online, changes, agentVars, flock, departed, boardVars,
                 made, turn, failures, errors>>

CancelTask(l, t) ==
  /\ LoopAt(l, "acts") /\ t \in active
  /\ task' = [task EXCEPT ![t].cancel = TRUE]
  /\ UNCHANGED <<online, changes, agentVars, flock, departed, active, filed, made,
                 threadVars, sr, loose>>

(* rebuild_flock: refused while a helper has a task; the helpers are listed   *)
(* and the showrunner is asked before the names change.  Names are few here   *)
(* and may be used again.                                                     *)
Rebuild(l) ==
  /\ LoopAt(l, "acts") /\ Members # {}
  /\ \A n \in Members : assigned[flock[n]] = None
  /\ sr' = [sr EXCEPT ![l].at = "rebuilding", ![l].crew = {flock[n] : n \in Members}]
  /\ UNCHANGED <<online, changes, agentVars, flock, departed, boardVars, made, threadVars, loose>>

Rebuilt(l) ==
  /\ LoopAt(l, "rebuilding")
  /\ \E f \in [sr[l].crew -> Names] :
       /\ \A a, b \in sr[l].crew : f[a] = f[b] => a = b
       /\ flock' = [n \in Names |-> IF \E a \in sr[l].crew : f[a] = n
                                    THEN CHOOSE a \in sr[l].crew : f[a] = n ELSE None]
       /\ name' = [a \in Agents |-> IF a \in sr[l].crew THEN f[a] ELSE name[a]]
  /\ SrIdle(l, "acts")
  /\ UNCHANGED <<online, changes, home, agentStatus, assigned, born, departed, boardVars, made,
                 threadVars, loose>>

NextRound(l) ==
  /\ LoopAt(l, "acts") /\ SrIdle(l, "round")
  /\ UNCHANGED <<online, changes, agentVars, flock, departed, boardVars, made, threadVars, loose>>

(* The mission is completed, paused, stopped or deleted, or something raises: *)
(* a prompt, or going through a flock that another loop is changing.  Nobody  *)
(* tells the helpers.                                                         *)
MissionEnds(l) ==
  /\ sr[l].at \in {"round", "flock", "asking", "acts", "rebuilding"} /\ SrIdle(l, "over")
  /\ UNCHANGED <<online, changes, agentVars, flock, departed, boardVars, made, threadVars, loose>>

-----------------------------------------------------------------------------
(* The thread of a task: _agent_autonomous_loop_inner.                        *)

Unchanged == UNCHANGED <<online, changes, home, name, born, flock, departed, made, sr, loose>>
At(t, at) == loop' = [loop EXCEPT ![t] = at]
Status(t, s) == task' = [task EXCEPT ![t].status = s]
Cap(f) == IF f < MaxFailures THEN f ELSE MaxFailures

(* What a handler makes of the consecutive failures: reading and searching    *)
(* reset them, a file that is not there adds one, a call without arguments    *)
(* changes nothing; commands and changes of files succeed or add one.         *)
Looked(f) == {0, f}
Read(f) == {0, f, Cap(f + 1)}
Ran(f) == {0, f, Cap(f + 1)}
Wrote(f) == {0, f, Cap(f + 1)}
Patched(f) == {0, f, Cap(f + 1)}
Tested(f) == {0, Cap(f + 1)}
Handled(f) == UNION {Looked(f), Read(f), Ran(f), Wrote(f), Patched(f), Tested(f)}
Acted(f) == UNION {Handled(g) : g \in Handled(f)}    \* two actions of one answer

(* The loop is left; the counters are its locals.                             *)
Ends(t) ==
  /\ At(t, "free") /\ Status(t, "ended")
  /\ turn' = [turn EXCEPT ![t] = 0]
  /\ failures' = [failures EXCEPT ![t] = 0]
  /\ errors' = [errors EXCEPT ![t] = 0]
Leaves(t) == Ends(t) /\ UNCHANGED <<agentStatus, assigned, active, filed>> /\ Unchanged

(* (bug variant) An iteration that failed is not counted.                     *)
AgainUncounted(t, f, e) ==
  IF turn[t] < MaxTurns
  THEN /\ turn' = [turn EXCEPT ![t] = IF f = 0 THEN @ + 1 ELSE @]
       /\ failures' = [failures EXCEPT ![t] = f]
       /\ errors' = [errors EXCEPT ![t] = e]
       /\ At(t, "top") /\ UNCHANGED task
  ELSE Ends(t)

(* (bug variant) One iteration too many.                                      *)
AgainOnceMore(t, f, e) ==
  IF turn[t] <= MaxTurns
  THEN /\ turn' = [turn EXCEPT ![t] = @ + 1]
       /\ failures' = [failures EXCEPT ![t] = f]
       /\ errors' = [errors EXCEPT ![t] = e]
       /\ At(t, "top") /\ UNCHANGED task
  ELSE Ends(t)

(* The next iteration; a task that has used up its iterations is done.        *)
Again(t, f, e) ==
  IF turn[t] < MaxTurns
  THEN /\ turn' = [turn EXCEPT ![t] = @ + 1]
       /\ failures' = [failures EXCEPT ![t] = f]
       /\ errors' = [errors EXCEPT ![t] = e]
       /\ At(t, "top") /\ UNCHANGED task
  ELSE Ends(t)

Start(t) ==
  /\ loop[t] = "started"
  /\ At(t, "top") /\ Status(t, "running")
  /\ turn' = [turn EXCEPT ![t] = 1]
  /\ UNCHANGED <<failures, errors, agentStatus, assigned, active, filed>> /\ Unchanged

Cancelled(t) == loop[t] = "top" /\ task[t].cancel /\ Leaves(t)
TimedOut(t) == loop[t] = "top" /\ ~task[t].cancel /\ Leaves(t)
Bail(t) ==
  /\ loop[t] = "top" /\ ~task[t].cancel /\ failures[t] >= MaxFailures
  /\ Leaves(t)

Ask(t) ==
  /\ loop[t] = "top" /\ ~task[t].cancel /\ failures[t] < MaxFailures
  /\ At(t, "ask")
  /\ UNCHANGED <<task, turn, failures, errors, agentStatus, assigned, active, filed>> /\ Unchanged

(* No answer in time, or one that is empty or cannot be parsed.               *)
NoUse(t) ==
  /\ loop[t] = "ask"
  /\ Again(t, Cap(failures[t] + 1), 0)
  /\ UNCHANGED <<agentStatus, assigned, active, filed>> /\ Unchanged

(* The context overflows: it is trimmed, and the errors are not counted.      *)
Overflow(t) ==
  /\ loop[t] = "ask"
  /\ Again(t, Cap(failures[t] + 1), errors[t])
  /\ UNCHANGED <<agentStatus, assigned, active, filed>> /\ Unchanged

AgentError(t) ==
  /\ loop[t] = "ask"
  /\ IF errors[t] + 1 >= MaxErrors
     THEN Ends(t)
     ELSE Again(t, Cap(failures[t] + 1), errors[t] + 1)
  /\ UNCHANGED <<agentStatus, assigned, active, filed>> /\ Unchanged

Answer(t) ==
  /\ loop[t] = "ask"
  /\ errors' = [errors EXCEPT ![t] = 0]
  /\ At(t, "act")
  /\ UNCHANGED <<task, turn, failures, agentStatus, assigned, active, filed>> /\ Unchanged

Act(t) ==
  /\ loop[t] = "act"
  /\ \E f \in Acted(failures[t]) : Again(t, f, errors[t])
  /\ UNCHANGED <<agentStatus, assigned, active, filed>> /\ Unchanged

(* The third failing install in a row ends the task; so does an exception.    *)
Fail(t) == loop[t] = "act" /\ Leaves(t)
Crash(t) == loop[t] \in {"ask", "act"} /\ Leaves(t)

Done(t) == loop[t] = "act" /\ Leaves(t)

(* A result that is too short, too early or does not verify is refused, but   *)
(* not in the last iteration.                                                 *)
Reject(t) ==
  /\ loop[t] = "act" /\ turn[t] < MaxTurns
  /\ Again(t, Cap(failures[t] + 1), errors[t])
  /\ UNCHANGED <<agentStatus, assigned, active, filed>> /\ Unchanged

-----------------------------------------------------------------------------
(* The end of the thread, under the lock: the helper is freed if the task is  *)
(* still the one assigned to it, then the task is moved to the history.       *)

Lock(t) == loop[t] = "free" /\ \A u \in Tasks : loop[u] \notin Locked

Free(t) ==
  /\ Lock(t)
  /\ At(t, IF assigned[task[t].agent] = t THEN "clear" ELSE "file")
  /\ UNCHANGED <<turn, failures, errors, boardVars, agentStatus, assigned>> /\ Unchanged

Clear(t) ==
  /\ loop[t] = "clear"
  /\ assigned' = [assigned EXCEPT ![task[t].agent] = None]
  /\ At(t, "reopen")
  /\ UNCHANGED <<turn, failures, errors, boardVars, agentStatus>> /\ Unchanged

Reopen(t) ==
  /\ loop[t] = "reopen"
  /\ agentStatus' = [agentStatus EXCEPT ![task[t].agent] = "available"]
  /\ At(t, "file")
  /\ UNCHANGED <<turn, failures, errors, boardVars, assigned>> /\ Unchanged

Listed(t) ==
  /\ loop[t] = "file" /\ t \in active
  /\ At(t, "append")
  /\ UNCHANGED <<turn, failures, errors, boardVars, agentStatus, assigned>> /\ Unchanged

(* What a task in the history was like is not looked at again here.           *)
Over(t) == At(t, "over") /\ task' = [task EXCEPT ![t] = Blank]

FileTask(t) ==
  /\ loop[t] = "append" /\ Over(t)
  /\ filed' = filed \cup {t}
  /\ active' = active \ {t}
  /\ UNCHANGED <<turn, failures, errors, agentStatus, assigned>> /\ Unchanged

MovedBefore(t) ==
  /\ loop[t] = "file" /\ t \notin active /\ Over(t)
  /\ UNCHANGED <<turn, failures, errors, active, filed, agentStatus, assigned>> /\ Unchanged

-----------------------------------------------------------------------------
(* An endpoint stops being ready, or is ready again.                          *)
EndpointChanges(e) ==
  /\ changes < MaxChanges
  /\ changes' = changes + 1
  /\ online' = (online \ {e}) \cup ({e} \ online)
  /\ UNCHANGED <<agentVars, flock, departed, boardVars, made, threadVars, sr, loose>>

TaskStep(t) ==
  \/ Start(t) \/ Cancelled(t) \/ TimedOut(t) \/ Bail(t) \/ Ask(t)
  \/ NoUse(t) \/ Overflow(t) \/ AgentError(t) \/ Answer(t)
  \/ Act(t) \/ Fail(t) \/ Crash(t) \/ Done(t) \/ Reject(t)
  \/ Free(t) \/ Clear(t) \/ Reopen(t)
  \/ Listed(t) \/ FileTask(t) \/ MovedBefore(t)

LoopStep(l) ==
  \/ StartLoop(l) \/ Refresh(l) \/ AskNames(l) \/ Answered(l) \/ Named(l)
  \/ Collect(l) \/ Collected(l) \/ Rebuild(l) \/ Rebuilt(l) \/ NextRound(l) \/ MissionEnds(l)
  \/ \E n \in Names : Depart(l, n) \/ DepartTwice(l, n) \/ Dispatch(l, n)
  \/ \E t \in Tasks : \/ FileDeparted(l, t) \/ CancelTask(l, t)
                      \/ Occupy(l, t) \/ Launch(l, t) \/ DispatchRaises(l, t)
  \/ \E a \in Agents : Restore(l, a)
  \/ \E e \in Endpoints, n \in Names : Join(l, e, n)

FlockNext ==
  \/ \E l \in Loops : LoopStep(l)
  \/ \E t \in Tasks : TaskStep(t)
  \/ \E e \in Endpoints : EndpointChanges(e)

(* A thread of Python that can run does; every prompt is waited for with a    *)
(* timeout.  The showrunner may be slow for ever.                             *)
FlockFairness == \A t \in Tasks : WF_flockVars(TaskStep(t))
FlockSpec == FlockInit /\ [][FlockNext]_flockVars /\ FlockFairness

-----------------------------------------------------------------------------
TaskRecord == [agent : 0..born, name : Names \cup {None}, status : TaskStatus, cancel : BOOLEAN]
SrPlaces == {"over", "round", "flock", "departing", "asking", "naming", "collect", "collected",
             "acts", "dispatching", "rebuilding"}
SrState == [at : SrPlaces, seen : SUBSET Endpoints, named : SUBSET Endpoints,
            gone : SUBSET Names, fresh : SUBSET Names, crew : SUBSET (1..born),
            todo : SUBSET Tasks]

FlockTypeOK ==
  /\ online \subseteq Endpoints /\ changes \in 0..MaxChanges
  /\ home \in [Agents -> Endpoints \cup {None}]
  /\ name \in [Agents -> Names \cup {None}]
  /\ agentStatus \in [Agents -> {"available", "busy"}]
  /\ assigned \in [Agents -> Tasks \cup {None}]
  /\ born \in 0..MaxAgents
  /\ flock \in [Names -> 0..born]
  /\ departed \subseteq 1..born
  /\ task \in [Tasks -> TaskRecord]
  /\ made \in 0..MaxTasks /\ active \subseteq 1..made
  /\ filed \subseteq Tasks
  /\ loop \in [Tasks -> Given \cup Working \cup Locked \cup {"none", "lost", "free", "over"}]
  /\ turn \in [Tasks -> 0..MaxTurns]
  /\ failures \in [Tasks -> 0..MaxFailures]
  /\ errors \in [Tasks -> 0..MaxErrors]
  /\ sr \in [Loops -> SrState]
  /\ loose \subseteq 1..born

(* Whoever moves a task, its thread, the collection of results or the         *)
(* departure of its helper: when its thread is over, the task is no longer    *)
(* listed as active and is in the history.                                    *)
NothingLost ==
  \A t \in Tasks : loop[t] = "over" => t \notin active /\ t \in filed

(* A helper works on one task at a time and is busy only while a task of its  *)
(* has a thread or is about to get one, with two loops on its mission as with *)
(* one.  Dispatches take no lock, and there are three ways out, those of the  *)
(* helpers in loose: two loops dispatch to it between one's look at its       *)
(* status and its setting it; a dispatch raises after setting it; it leaves   *)
(* and comes back while the thread of an old task goes on.  Such a helper may *)
(* have two tasks, or be busy for ever.                                       *)
OneTaskEach ==
  \A a \in (1..born) \ loose :
       /\ Cardinality({t \in Tasks : task[t].agent = a /\ loop[t] \in Working}) <= 1
       /\ agentStatus[a] = "busy" =>
            \E t \in Tasks : task[t].agent = a /\ (UnderWay(t) \/ loop[t] = "held")

(* The threads of tasks come to their end, whether the helper answers, is     *)
(* gone or its mission is over: as tasks are finitely many here, there is a   *)
(* time when none is under way.                                               *)
TasksEnd == (\E t \in Tasks : UnderWay(t)) ~> (\A t \in Tasks : ~UnderWay(t))
=============================================================================
