------------------------------ MODULE Flock_proofs ------------------------------
(***************************************************************************)
(* Proofs about Flock, for every set of endpoints and names and every      *)
(* value of the bounds: no task is lost, a helper has one at a time, and   *)
(* every task comes to its end.                                            *)
(***************************************************************************)
EXTENDS Flock, FiniteSetTheorems, TLAPS

\* A helper that has joined has an endpoint.
Housed == \A a \in 1..born : home[a] \in Endpoints

\* Where a task may be.
Places == Given \cup Working \cup Locked \cup {"none", "lost", "free", "over"}

\* Where a task stands between its dispatch and the history: whoever takes an active task
\* off the list has made an entry of it before.
Filing ==
  /\ \A t \in Tasks :
       /\ loop[t] # "none" => t <= made
       /\ t <= made /\ t \notin active => t \in filed
       /\ loop[t] = "over" => t \notin active
       /\ loop[t] \in Given => task[t].agent \in 1..born
  /\ \A l \in Loops : sr[l].at = "collected" => sr[l].todo \subseteq filed

\* A task that keeps its helper: from its dispatch until its thread has made the helper
\* available again.
Keeps(t, a) ==
  task[t].agent = a /\ loop[t] \in Given \cup Working \cup {"free", "clear", "reopen"}

\* One task keeps a helper; it is assigned to it until its thread clears the assignment, and
\* the helper is busy for it from the second step of the dispatch on, and for nothing else.
AloneAt(a) ==
  /\ \A t, u \in Tasks : Keeps(t, a) /\ Keeps(u, a) => t = u
  /\ \A t \in Tasks : Keeps(t, a) => /\ agentStatus[a] = "busy" <=> loop[t] # "listed"
                                     /\ loop[t] # "reopen" => assigned[a] = t
  /\ agentStatus[a] = "busy" => \E t \in Tasks : Keeps(t, a)
Alone == \A a \in Agents \ loose : AloneAt(a)

\* The inductive invariant.
FlockInv == FlockTypeOK /\ Housed /\ Filing /\ Alone

----------------------------------------------------------------------------
(* The loop of a task.                                                      *)

\* The steps of a thread from its start to the end of its loop.
Work(t) ==
  \/ Start(t) \/ Cancelled(t) \/ TimedOut(t) \/ Bail(t) \/ Ask(t)
  \/ NoUse(t) \/ Overflow(t) \/ AgentError(t) \/ Answer(t)
  \/ Act(t) \/ Fail(t) \/ Crash(t) \/ Done(t) \/ Reject(t)

\* What they change: they move the thread on or to the end of its loop, change the status
\* of the task and count.
Turned(t) ==
  /\ loop[t] \in Working
  /\ loop' \in {[loop EXCEPT ![t] = x] : x \in {"top", "ask", "act", "free"}}
  /\ task' \in {task} \cup {[task EXCEPT ![t].status = s] : s \in {"running", "ended"}}
  /\ turn' \in [Tasks -> 0..MaxTurns]
  /\ failures' \in [Tasks -> 0..MaxFailures]
  /\ errors' \in [Tasks -> 0..MaxErrors]
  /\ UNCHANGED <<online, changes, agentVars, flock, departed, active, filed, made, sr, loose>>

\* No handler takes the count of failures past its limit.
LEMMA HandledBound ==
  ASSUME NEW f \in 0..MaxFailures
  PROVE  Acted(f) \subseteq 0..MaxFailures /\ Cap(f + 1) \in 0..MaxFailures
<1>1. \A g \in 0..MaxFailures : Cap(g + 1) \in 0..MaxFailures
  BY FlockAssumption DEF Cap
<1>2. \A g \in 0..MaxFailures : Handled(g) \subseteq 0..MaxFailures
  BY <1>1, FlockAssumption DEF Handled, Looked, Read, Ran, Wrote, Patched, Tested
<1> QED
  BY <1>1, <1>2 DEF Acted

\* The end of a loop.
LEMMA EndsTurned ==
  ASSUME FlockTypeOK, NEW t \in Tasks, loop[t] \in Working, Ends(t), Unchanged,
         UNCHANGED <<agentStatus, assigned, active, filed>>
  PROVE  Turned(t)
  BY FlockAssumption DEF FlockTypeOK, Ends, At, Status, Turned, Unchanged, agentVars

\* The next iteration.
LEMMA AgainTurned ==
  ASSUME FlockTypeOK, NEW t \in Tasks, loop[t] \in Working, Unchanged,
         NEW f \in 0..MaxFailures, NEW e \in 0..MaxErrors, Again(t, f, e),
         UNCHANGED <<agentStatus, assigned, active, filed>>
  PROVE  Turned(t)
<1>1. CASE turn[t] < MaxTurns
  <2>1. /\ turn' = [turn EXCEPT ![t] = @ + 1] /\ task' = task
        /\ failures' = [failures EXCEPT ![t] = f] /\ errors' = [errors EXCEPT ![t] = e]
        /\ loop' = [loop EXCEPT ![t] = "top"]
    BY <1>1 DEF Again, At
  <2>2. turn[t] + 1 \in 0..MaxTurns
    BY <1>1, FlockAssumption DEF FlockTypeOK
  <2>3. /\ turn' \in [Tasks -> 0..MaxTurns] /\ failures' \in [Tasks -> 0..MaxFailures]
        /\ errors' \in [Tasks -> 0..MaxErrors]
    BY <2>1, <2>2 DEF FlockTypeOK
  <2> QED
    BY <2>1, <2>3 DEF Turned, Unchanged, agentVars
<1>2. CASE ~(turn[t] < MaxTurns)
  BY <1>2, EndsTurned DEF Again
<1> QED
  BY <1>1, <1>2

\* Every step of the loop.
LEMMA WorkTurned ==
  ASSUME FlockTypeOK, NEW t \in Tasks, Work(t)
  PROVE  Turned(t)
<1>1. CASE Start(t)
  <2>1. turn' \in [Tasks -> 0..MaxTurns]
    BY <1>1, FlockAssumption DEF FlockTypeOK, Start
  <2> QED
    BY <1>1, <2>1 DEF FlockTypeOK, Start, At, Status, Turned, Working, Unchanged, agentVars
<1>2. CASE Cancelled(t)
  BY <1>2, EndsTurned DEF Cancelled, Leaves, Working
<1>3. CASE TimedOut(t)
  BY <1>3, EndsTurned DEF TimedOut, Leaves, Working
<1>4. CASE Bail(t)
  BY <1>4, EndsTurned DEF Bail, Leaves, Working
<1>5. CASE Ask(t)
  BY <1>5, FlockAssumption DEF FlockTypeOK, Ask, At, Turned, Working, Unchanged, agentVars
<1>6. CASE NoUse(t)
  <2>1. loop[t] \in Working /\ Cap(failures[t] + 1) \in 0..MaxFailures /\ 0 \in 0..MaxErrors
    BY <1>6, HandledBound, FlockAssumption DEF FlockTypeOK, NoUse, Working
  <2> QED
    BY <1>6, <2>1, AgainTurned DEF NoUse
<1>7. CASE Overflow(t)
  <2>1. loop[t] \in Working /\ Cap(failures[t] + 1) \in 0..MaxFailures /\ errors[t] \in 0..MaxErrors
    BY <1>7, HandledBound, FlockAssumption DEF FlockTypeOK, Overflow, Working
  <2> QED
    BY <1>7, <2>1, AgainTurned DEF Overflow
<1>8. CASE AgentError(t)
  <2>1. loop[t] \in Working /\ Cap(failures[t] + 1) \in 0..MaxFailures
    BY <1>8, HandledBound DEF FlockTypeOK, AgentError, Working
  <2>2. CASE errors[t] + 1 >= MaxErrors
    BY <1>8, <2>1, <2>2, EndsTurned DEF AgentError
  <2>3. CASE ~(errors[t] + 1 >= MaxErrors)
    <3>1. errors[t] + 1 \in 0..MaxErrors
      BY <2>3, FlockAssumption DEF FlockTypeOK
    <3> QED
      BY <1>8, <2>1, <2>3, <3>1, AgainTurned DEF AgentError
  <2> QED
    BY <2>2, <2>3
<1>9. CASE Answer(t)
  BY <1>9, FlockAssumption DEF FlockTypeOK, Answer, At, Turned, Working, Unchanged, agentVars
<1>10. CASE Act(t)
  <2>1. loop[t] \in Working /\ errors[t] \in 0..MaxErrors
    BY <1>10 DEF FlockTypeOK, Act, Working
  <2>2. PICK f \in Acted(failures[t]) : Again(t, f, errors[t])
    BY <1>10 DEF Act
  <2>3. f \in 0..MaxFailures
    BY <2>2, HandledBound DEF FlockTypeOK
  <2> QED
    BY <1>10, <2>1, <2>2, <2>3, AgainTurned DEF Act
<1>11. CASE Fail(t)
  BY <1>11, EndsTurned DEF Fail, Leaves, Working
<1>12. CASE Crash(t)
  BY <1>12, EndsTurned DEF Crash, Leaves, Working
<1>13. CASE Done(t)
  BY <1>13, EndsTurned DEF Done, Leaves, Working
<1>14. CASE Reject(t)
  <2>1. loop[t] \in Working /\ Cap(failures[t] + 1) \in 0..MaxFailures /\ errors[t] \in 0..MaxErrors
    BY <1>14, HandledBound, FlockAssumption DEF FlockTypeOK, Reject, Working
  <2> QED
    BY <1>14, <2>1, AgainTurned DEF Reject
<1> QED
  BY <1>1, <1>2, <1>3, <1>4, <1>5, <1>6, <1>7, <1>8, <1>9, <1>10, <1>11, <1>12, <1>13,
     <1>14 DEF Work

----------------------------------------------------------------------------
(* Types.                                                                   *)

\* What is listed exists.
LEMMA WhatExists ==
  ASSUME FlockTypeOK
  PROVE  /\ active \subseteq Tasks /\ 1..made \subseteq Tasks /\ 1..born \subseteq Agents
         /\ departed \subseteq 1..born /\ loose \subseteq 1..born
         /\ \A n \in Members : n \in Names /\ flock[n] \in 1..born
<1>1. 1..made \subseteq Tasks /\ 1..born \subseteq Agents
  BY FlockAssumption DEF FlockTypeOK, Tasks, Agents
<1>2. ASSUME NEW n \in Members PROVE n \in Names /\ flock[n] \in 1..born
  <2>1. n \in Names /\ flock[n] # 0 /\ flock[n] \in 0..born /\ born \in Nat
    BY DEF FlockTypeOK, Members, None
  <2> QED
    BY <2>1
<1> QED
  BY <1>1, <1>2 DEF FlockTypeOK

\* A loop goes to another place, with or without what it has read.
LEMMA SrTyped ==
  ASSUME FlockTypeOK, NEW l \in Loops, NEW at \in SrPlaces, Sr(l, at) \/ SrIdle(l, at)
  PROVE  sr' \in [Loops -> SrState] /\ sr'[l].at = at /\ \A k \in Loops \ {l} : sr'[k] = sr[k]
<1>1. [Idle EXCEPT !.at = at] \in SrState
  BY DEF Idle, SrState
<1>2. sr[l] \in SrState /\ sr \in [Loops -> SrState]
  BY DEF FlockTypeOK
<1>3. [sr[l] EXCEPT !.at = at] \in SrState /\ [sr[l] EXCEPT !.at = at].at = at
  BY <1>2 DEF SrState
<1>4. [Idle EXCEPT !.at = at].at = at
  BY DEF Idle
<1>5. CASE Sr(l, at)
  BY <1>2, <1>3, <1>5 DEF Sr
<1>6. CASE SrIdle(l, at)
  BY <1>1, <1>2, <1>4, <1>6 DEF SrIdle
<1> QED
  BY <1>5, <1>6

\* The steps of a loop that move nothing but it.
Quiet(l) ==
  /\ \E at \in SrPlaces \ {"collected"} : Sr(l, at) \/ SrIdle(l, at)
  /\ UNCHANGED <<online, changes, agentVars, flock, departed, boardVars, made, threadVars, loose>>

LEMMA QuietSteps ==
  ASSUME NEW l \in Loops,
         \/ StartLoop(l) \/ AskNames(l) \/ Named(l) \/ NextRound(l) \/ MissionEnds(l)
         \/ \E n \in Names : DepartTwice(l, n)
  PROVE  Quiet(l)
  BY DEF Quiet, StartLoop, AskNames, Named, NextRound, MissionEnds, DepartTwice, SrPlaces

\* Types of a loop's steps.
LEMMA LoopTypes ==
  ASSUME FlockInv, NEW l \in Loops, LoopStep(l)
  PROVE  FlockTypeOK' /\ Housed'
<1> USE DEF FlockTypeOK, Housed, Agents, Tasks, Given, Working, Locked, TaskStatus, Blank, None,
            Places
<1>0. FlockTypeOK /\ Housed /\ Filing /\ sr[l] \in SrState
  BY DEF FlockInv
<1>1. CASE Quiet(l)
  <2>1. sr' \in [Loops -> SrState]
    BY <1>0, <1>1, SrTyped DEF Quiet
  <2> QED
    BY <1>0, <1>1, <2>1 DEF Quiet, agentVars, boardVars, threadVars, TaskRecord, SrState
<1>2. CASE Refresh(l)
  <2>1. \A n \in Members : home[flock[n]] \in Endpoints
    BY <1>0 DEF Members
  <2>2. [Idle EXCEPT !.at = "flock", !.seen = online, !.named = {home[flock[n]] : n \in Members},
                     !.gone = {n \in Members : home[flock[n]] \notin online}] \in SrState
    <3>1. {home[flock[n]] : n \in Members} \in SUBSET Endpoints
      BY <2>1
    <3>2. {n \in Members : home[flock[n]] \notin online} \in SUBSET Names /\ online \in SUBSET Endpoints
      BY <1>0 DEF Members
    <3> QED
      BY <3>1, <3>2 DEF SrState, SrPlaces, Idle
  <2>3. sr' \in [Loops -> SrState]
    BY <1>0, <1>2, <2>2 DEF Refresh
  <2>4. departed' \subseteq 1..born
    BY <1>0, <1>2 DEF Refresh
  <2> QED
    BY <1>0, <1>2, <2>3, <2>4 DEF Refresh, agentVars, boardVars, threadVars, TaskRecord, SrState
<1>3. ASSUME NEW n \in Names, Depart(l, n) PROVE FlockTypeOK' /\ Housed'
  <2>1. task' \in [Tasks -> TaskRecord] /\ TaskRecord' = TaskRecord
    BY <1>0, <1>3 DEF Depart, TaskRecord, agentVars
  <2>2. flock[n] \in 1..born
    BY <1>0, <1>3, WhatExists DEF Depart
  <2>3. flock' \in [Names -> 0..born] /\ departed' \subseteq 1..born
    <3>1. 0 \in 0..born
      BY <1>0
    <3> QED
      BY <1>0, <1>3, <2>2, <3>1 DEF Depart
  <2>4. {u \in active : task[u].name = n /\ Running(u)} \in SUBSET Tasks
    BY <1>0, WhatExists
  <2>5. sr' \in [Loops -> SrState]
    BY <1>0, <1>3, <2>4 DEF Depart, SrState, SrPlaces
  <2>6. SrState' = SrState
    BY <1>3 DEF Depart, SrState, agentVars
  <2> QED
    BY <1>0, <1>3, <2>1, <2>3, <2>5, <2>6 DEF Depart, agentVars, threadVars
<1>4. ASSUME NEW t \in Tasks, FileDeparted(l, t) PROVE FlockTypeOK' /\ Housed'
  <2>1. filed' \subseteq Tasks /\ active' \subseteq 1..made
    BY <1>0, <1>4 DEF FileDeparted
  <2>2. sr' \in [Loops -> SrState]
    <3>1. CASE t \notin active
      BY <1>0, <1>4, <3>1, SrTyped DEF FileDeparted, SrPlaces
    <3>2. CASE t \in active
      <4> DEFINE r == [sr[l] EXCEPT !.todo = @ \ {t},
                                   !.at = IF sr[l].todo = {t} THEN "flock" ELSE @]
      <4>1. r \in SrState
        BY <1>0 DEF SrState, SrPlaces
      <4>2. sr' = [sr EXCEPT ![l] = r]
        BY <1>0, <1>4, <3>2 DEF FileDeparted
      <4> QED
        BY <1>0, <4>1, <4>2
    <3> QED
      BY <3>1, <3>2
  <2> QED
    BY <1>0, <1>4, <2>1, <2>2 DEF FileDeparted, agentVars, threadVars, TaskRecord, SrState
<1>5. ASSUME NEW a \in Agents, Restore(l, a) PROVE FlockTypeOK' /\ Housed'
  <2>1. a \in 1..born /\ home[a] \in Endpoints
    BY <1>0, <1>5 DEF Restore, Back
  <2>2. flock' \in [Names -> 0..born] /\ departed' \subseteq 1..born
    <3>1. a \in 0..born
      BY <2>1
    <3> QED
      BY <1>0, <1>5, <3>1 DEF Restore
  <2>3. agentStatus' \in [Agents -> {"available", "busy"}]
    BY <1>0, <1>5 DEF Restore
  <2>4. sr' \in [Loops -> SrState]
    BY <1>0, <1>5, <2>1 DEF Restore, SrState
  <2>5. loose' \subseteq 1..born
    BY <1>0, <1>5, <2>1 DEF Restore
  <2> QED
    BY <1>0, <1>5, <2>2, <2>3, <2>4, <2>5 DEF Restore, boardVars, threadVars, TaskRecord, SrState
<1>6. CASE Answered(l)
  <2>1. sr' \in [Loops -> SrState]
    BY <1>0, <1>6 DEF Answered, SrState, SrPlaces
  <2> QED
    BY <1>0, <1>6, <2>1 DEF Answered, agentVars, boardVars, threadVars, TaskRecord, SrState
<1>7. ASSUME NEW e \in Endpoints, NEW n \in Names, Join(l, e, n) PROVE FlockTypeOK' /\ Housed'
  <2>1. born + 1 \in Agents /\ born' = born + 1 /\ born' \in 0..MaxAgents
    BY <1>0, <1>7, FlockAssumption DEF Join
  <2>2. /\ home' \in [Agents -> Endpoints \cup {None}]
        /\ name' \in [Agents -> Names \cup {None}]
        /\ flock' \in [Names -> 0..born']
    BY <1>0, <1>7, <2>1 DEF Join
  <2>3. sr' \in [Loops -> SrState]
    BY <1>0, <1>7 DEF Join, SrState
  <2>4. SrState \subseteq SrState'
    <3>1. 1..born \subseteq 1..born'
      BY <1>0, <2>1
    <3> QED
      BY <3>1 DEF SrState
  <2>5. task' \in [Tasks -> TaskRecord']
    BY <1>0, <1>7, <2>1 DEF Join, boardVars, TaskRecord
  <2>6. Housed'
    BY <1>0, <1>7, <2>1 DEF Join
  <2>7. departed' \subseteq 1..born' /\ loose' \subseteq 1..born'
    BY <1>0, <1>7, <2>1 DEF Join
  <2>8. sr' \in [Loops -> SrState']
    BY <2>3, <2>4
  <2> QED
    BY <1>0, <1>7, <2>1, <2>2, <2>5, <2>6, <2>7, <2>8 DEF Join, boardVars, threadVars
<1>8. CASE Collect(l)
  <2>1. {t \in active : task[t].status = "ended"} \in SUBSET Tasks
    BY <1>0, WhatExists
  <2>2. filed' \subseteq Tasks
    BY <1>0, <1>8, <2>1 DEF Collect
  <2>3. sr' \in [Loops -> SrState]
    BY <1>0, <1>8, <2>1 DEF Collect, SrState, SrPlaces, Idle
  <2> QED
    BY <1>0, <1>8, <2>2, <2>3 DEF Collect, agentVars, threadVars, TaskRecord, SrState
<1>9. CASE Collected(l)
  <2>1. sr' \in [Loops -> SrState]
    BY <1>0, <1>9, SrTyped DEF Collected, SrPlaces
  <2> QED
    BY <1>0, <1>9, <2>1 DEF Collected, agentVars, threadVars, TaskRecord, SrState
<1>10. ASSUME NEW n \in Names, Dispatch(l, n) PROVE FlockTypeOK' /\ Housed'
  <2>1. made + 1 \in Tasks /\ flock[n] \in 1..born
    BY <1>0, <1>10, FlockAssumption DEF Dispatch, Members
  <2>2. task' = [task EXCEPT ![made + 1].agent = flock[n], ![made + 1].name = n]
    BY <1>10 DEF Dispatch
  <2>3. task' \in [Tasks -> TaskRecord]
    <3> DEFINE k == made + 1
    <3>1. ASSUME NEW t \in Tasks PROVE task'[t] \in TaskRecord
      <4>1. CASE t # k
        BY <1>0, <2>2, <4>1
      <4>2. CASE t = k
        <5>1. task[t] \in TaskRecord
          BY <1>0
        <5>2. task'[t] = [task[t] EXCEPT !.agent = flock[n], !.name = n]
          BY <1>0, <2>1, <2>2, <4>2
        <5>3. [task[t] EXCEPT !.agent = flock[n]] \in TaskRecord
          BY <2>1, <5>1 DEF TaskRecord
        <5>4. [[task[t] EXCEPT !.agent = flock[n]] EXCEPT !.name = n] \in TaskRecord
          BY <5>3 DEF TaskRecord
        <5> QED
          BY <5>2, <5>4
      <4> QED
        BY <4>1, <4>2
    <3> QED
      BY <1>0, <2>2, <3>1
  <2>4. assigned' \in [Agents -> Tasks \cup {None}]
    BY <1>0, <1>10, <2>1 DEF Dispatch
  <2>5. sr' \in [Loops -> SrState]
    BY <1>0, <1>10, <2>1 DEF Dispatch, SrState, SrPlaces
  <2>6. made' \in 0..MaxTasks /\ active' \subseteq 1..made'
    BY <1>0, <1>10, <2>1 DEF Dispatch
  <2>7. loose' \subseteq 1..born /\ loop' \in [Tasks -> Places]
    BY <1>0, <1>10, <2>1 DEF Dispatch
  <2> QED
    BY <1>0, <1>10, <2>3, <2>4, <2>5, <2>6, <2>7 DEF Dispatch, TaskRecord, SrState
<1>11. ASSUME NEW t \in Tasks, Occupy(l, t) PROVE FlockTypeOK' /\ Housed'
  BY <1>0, <1>11 DEF Occupy, boardVars, TaskRecord, SrState
<1>12. ASSUME NEW t \in Tasks, Launch(l, t) \/ DispatchRaises(l, t) PROVE FlockTypeOK' /\ Housed'
  <2>1. sr' \in [Loops -> SrState]
    BY <1>0, <1>12, SrTyped DEF Launch, DispatchRaises, SrPlaces
  <2>2. t \in 1..made /\ loop[t] = "held"
    BY <1>0, <1>12 DEF Launch, DispatchRaises, Dispatching, Filing
  <2>3. loop' \in [Tasks -> Places]
    BY <1>0, <1>12 DEF Launch, DispatchRaises
  <2>4. loose' \subseteq 1..born
    BY <1>0, <1>12, <2>2 DEF Launch, DispatchRaises, Filing
  <2> QED
    BY <1>0, <1>12, <2>1, <2>3, <2>4
    DEF Launch, DispatchRaises, agentVars, boardVars, TaskRecord, SrState
<1>13. ASSUME NEW t \in Tasks, CancelTask(l, t) PROVE FlockTypeOK' /\ Housed'
  <2>1. task' \in [Tasks -> TaskRecord]
    BY <1>0, <1>13 DEF CancelTask, TaskRecord
  <2> QED
    BY <1>0, <1>13, <2>1 DEF CancelTask, agentVars, threadVars, TaskRecord, SrState
<1>14. CASE Rebuild(l)
  <2>1. {flock[n] : n \in Members} \in SUBSET (1..born)
    BY <1>0, WhatExists
  <2>2. sr' \in [Loops -> SrState]
    BY <1>0, <1>14, <2>1 DEF Rebuild, SrState, SrPlaces
  <2> QED
    BY <1>0, <1>14, <2>2 DEF Rebuild, agentVars, boardVars, threadVars, TaskRecord, SrState
<1>15. CASE Rebuilt(l)
  <2> DEFINE crew == sr[l].crew
  <2>1. crew \subseteq 1..born
    BY <1>0 DEF SrState
  <2>2. PICK f \in [crew -> Names] :
          /\ flock' = [n \in Names |-> IF \E a \in crew : f[a] = n
                                       THEN CHOOSE a \in crew : f[a] = n ELSE None]
          /\ name' = [a \in Agents |-> IF a \in crew THEN f[a] ELSE name[a]]
    BY <1>15 DEF Rebuilt
  <2>3. sr' \in [Loops -> SrState]
    BY <1>0, <1>15, SrTyped DEF Rebuilt, SrPlaces
  <2> HIDE DEF crew
  <2>4. ASSUME NEW n \in Names PROVE flock'[n] \in 0..born
    <3>1. CASE \E a \in crew : f[a] = n
      <4>1. (CHOOSE a \in crew : f[a] = n) \in crew
        BY <3>1
      <4>2. flock'[n] = CHOOSE a \in crew : f[a] = n
        BY <2>2, <3>1
      <4>3. \A x \in 1..born : x \in 0..born
        BY <1>0
      <4> QED
        BY <2>1, <4>1, <4>2, <4>3
    <3>2. CASE ~ \E a \in crew : f[a] = n
      BY <1>0, <2>2, <3>2
    <3> QED
      BY <3>1, <3>2
  <2>5. ASSUME NEW a \in Agents PROVE name'[a] \in Names \cup {None}
    BY <1>0, <2>2
  <2>6. flock' \in [Names -> 0..born] /\ name' \in [Agents -> Names \cup {None}]
    BY <2>2, <2>4, <2>5
  <2> QED
    BY <1>0, <1>15, <2>3, <2>6 DEF Rebuilt, boardVars, threadVars, TaskRecord, SrState
<1> QED
  BY <1>1, <1>2, <1>3, <1>4, <1>5, <1>6, <1>7, <1>8, <1>9, <1>10, <1>11, <1>12, <1>13, <1>14,
     <1>15, QuietSteps DEF LoopStep

\* Types.
LEMMA TypeStep ==
  ASSUME FlockInv, [FlockNext]_flockVars
  PROVE  FlockTypeOK' /\ Housed'
<1> USE DEF FlockTypeOK, Housed, Agents, Tasks, Given, Working, Locked, TaskStatus, Blank, None,
            Places
<1>0. FlockTypeOK /\ Housed /\ Filing
  BY DEF FlockInv
<1>1. ASSUME NEW l \in Loops, LoopStep(l) PROVE FlockTypeOK' /\ Housed'
  BY <1>1, LoopTypes
<1>2. ASSUME NEW e \in Endpoints, EndpointChanges(e) PROVE FlockTypeOK' /\ Housed'
  <2>1. changes' \in 0..MaxChanges /\ online' \subseteq Endpoints
    BY <1>0, <1>2, FlockAssumption DEF EndpointChanges
  <2> QED
    BY <1>0, <1>2, <2>1 DEF EndpointChanges, agentVars, boardVars, threadVars, TaskRecord,
                              SrState
<1>3. ASSUME NEW t \in Tasks, Work(t) PROVE FlockTypeOK' /\ Housed'
  <2>1. Turned(t)
    BY <1>0, <1>3, WorkTurned
  <2>2. loop' \in [Tasks -> Places]
    <3>1. PICK x \in {"top", "ask", "act", "free"} : loop' = [loop EXCEPT ![t] = x]
      BY <2>1 DEF Turned
    <3> QED
      BY <1>0, <3>1
  <2>3. task' \in [Tasks -> TaskRecord]
    <3>1. CASE task' = task
      BY <1>0, <3>1
    <3>2. ASSUME NEW s \in {"running", "ended"}, task' = [task EXCEPT ![t].status = s]
          PROVE  task' \in [Tasks -> TaskRecord]
      BY <1>0, <3>2 DEF TaskRecord
    <3> QED
      BY <2>1, <3>1, <3>2 DEF Turned
  <2>4. TaskRecord' = TaskRecord
    BY <2>1 DEF Turned, agentVars, TaskRecord
  <2> QED
    BY <1>0, <2>1, <2>2, <2>3, <2>4 DEF Turned, agentVars, SrState
<1>4. ASSUME NEW t \in Tasks, Free(t) PROVE FlockTypeOK' /\ Housed'
  BY <1>0, FlockAssumption, <1>4
  DEF Free, boardVars, Unchanged, At, Lock, TaskRecord, SrState
<1>5. ASSUME NEW t \in Tasks, Clear(t) PROVE FlockTypeOK' /\ Housed'
  BY <1>0, FlockAssumption, <1>5
  DEF Clear, boardVars, Unchanged, At, TaskRecord, SrState
<1>6. ASSUME NEW t \in Tasks, Reopen(t) PROVE FlockTypeOK' /\ Housed'
  BY <1>0, FlockAssumption, <1>6
  DEF Reopen, boardVars, Unchanged, At, TaskRecord, SrState
<1>7. ASSUME NEW t \in Tasks, Listed(t) PROVE FlockTypeOK' /\ Housed'
  BY <1>0, FlockAssumption, <1>7
  DEF Listed, boardVars, Unchanged, At, TaskRecord, SrState
<1>8. ASSUME NEW t \in Tasks, FileTask(t) PROVE FlockTypeOK' /\ Housed'
  <2>2. filed' \subseteq Tasks /\ active' \subseteq 1..made
    BY <1>0, <1>8 DEF FileTask
  <2>3. Blank \in TaskRecord
    BY <1>0 DEF TaskRecord
  <2>4. task' \in [Tasks -> TaskRecord] /\ TaskRecord' = TaskRecord
    BY <1>0, <1>8, <2>3 DEF FileTask, Over, Unchanged, TaskRecord
  <2>5. loop' \in [Tasks -> Places]
    BY <1>0, <1>8 DEF FileTask, Over, At
  <2> QED
    BY <1>0, <1>8, <2>2, <2>4, <2>5 DEF FileTask, Unchanged, SrState
<1>9. ASSUME NEW t \in Tasks, MovedBefore(t) PROVE FlockTypeOK' /\ Housed'
  <2>1. Blank \in TaskRecord
    BY <1>0 DEF TaskRecord
  <2>2. task' \in [Tasks -> TaskRecord] /\ TaskRecord' = TaskRecord
    BY <1>0, <1>9, <2>1 DEF MovedBefore, Over, Unchanged, TaskRecord
  <2>3. loop' \in [Tasks -> Places]
    BY <1>0, <1>9 DEF MovedBefore, Over, At
  <2> QED
    BY <1>0, <1>9, <2>2, <2>3 DEF MovedBefore, Unchanged, SrState
<1>10. CASE UNCHANGED flockVars
  BY <1>0, FlockAssumption, <1>10
  DEF flockVars, agentVars, boardVars, threadVars, TaskRecord, SrState
<1> QED
  BY <1>1, <1>2, <1>3, <1>4, <1>5, <1>6, <1>7, <1>8, <1>9, <1>10
  DEF FlockNext, TaskStep, Work

----------------------------------------------------------------------------
(* Tasks and the history.                                                   *)

\* Steps that file and list nothing.
LEMMA SameFiling ==
  ASSUME FlockTypeOK, Filing, UNCHANGED <<made, active, filed, loop>>,
         \A t \in Tasks : loop[t] \in Given => task'[t].agent = task[t].agent,
         born' \in Nat, born <= born',
         \A l \in Loops : sr'[l].at = "collected" => sr'[l] = sr[l]
  PROVE  Filing'
<1>1. 1..born \subseteq 1..born'
  BY DEF FlockTypeOK
<1>2. \A l \in Loops : sr'[l].at = "collected" => sr'[l].todo \subseteq filed'
  BY DEF Filing
<1> QED
  BY <1>1, <1>2 DEF Filing

\* A loop takes tasks off the list once they are filed.
LEMMA LoopFiling ==
  ASSUME FlockInv, NEW l \in Loops, LoopStep(l)
  PROVE  Filing'
<1> USE DEF Tasks, Given, Idle
<1>0. FlockTypeOK /\ Filing /\ sr \in [Loops -> SrState] /\ born \in Nat
  BY DEF FlockInv, FlockTypeOK
<1>1. CASE Quiet(l)
  <2>1. \A k \in Loops : sr'[k].at = "collected" => sr'[k] = sr[k]
    BY <1>0, <1>1, SrTyped DEF Quiet
  <2> QED
    BY <1>0, <1>1, <2>1, SameFiling DEF Quiet, agentVars, boardVars, threadVars
<1>2. CASE Refresh(l) \/ Answered(l) \/ Rebuild(l)
  <2>1. \A k \in Loops : sr'[k].at = "collected" => sr'[k] = sr[k]
    BY <1>0, <1>2 DEF Refresh, Answered, Rebuild, SrState
  <2>2. UNCHANGED <<made, active, filed, loop, task, born>>
    BY <1>2 DEF Refresh, Answered, Rebuild, agentVars, boardVars, threadVars
  <2> QED
    BY <1>0, <2>1, <2>2, SameFiling
<1>3. CASE Rebuilt(l)
  <2>1. \A k \in Loops : sr'[k].at = "collected" => sr'[k] = sr[k]
    BY <1>0, <1>3, SrTyped DEF Rebuilt, SrPlaces
  <2>2. UNCHANGED <<made, active, filed, loop, task, born>>
    BY <1>3 DEF Rebuilt, boardVars, threadVars
  <2> QED
    BY <1>0, <2>1, <2>2, SameFiling
<1>4. ASSUME NEW n \in Names, Depart(l, n) PROVE Filing'
  <2>1. \A k \in Loops : sr'[k].at = "collected" => sr'[k] = sr[k]
    BY <1>0, <1>4 DEF Depart, SrState
  <2>2. UNCHANGED <<made, active, filed, loop, born>>
    BY <1>4 DEF Depart, agentVars, threadVars
  <2>3. \A t \in Tasks : task'[t].agent = task[t].agent
    BY <1>0, <1>4 DEF Depart, FlockTypeOK, TaskRecord
  <2> QED
    BY <1>0, <2>1, <2>2, <2>3, SameFiling
<1>5. ASSUME NEW t \in Tasks, FileDeparted(l, t) PROVE Filing'
  <2>1. \A k \in Loops : sr'[k].at = "collected" => sr'[k] = sr[k]
    <3>1. CASE t \notin active
      BY <1>0, <1>5, <3>1, SrTyped DEF FileDeparted, SrPlaces
    <3>2. CASE t \in active
      BY <1>0, <1>5, <3>2 DEF FileDeparted, LoopAt, SrState
    <3> QED
      BY <3>1, <3>2
  <2>2. \A k \in Loops : sr'[k].at = "collected" => sr'[k].todo \subseteq filed'
    BY <1>0, <1>5, <2>1 DEF FileDeparted, Filing
  <2> QED
    BY <1>0, <1>5, <2>2 DEF FileDeparted, Filing, agentVars, threadVars
<1>6. ASSUME NEW a \in Agents, Restore(l, a) PROVE Filing'
  <2>1. \A k \in Loops : sr'[k].at = "collected" => sr'[k] = sr[k]
    BY <1>0, <1>6 DEF Restore, LoopAt, SrState
  <2>2. UNCHANGED <<made, active, filed, loop, task, born>>
    BY <1>6 DEF Restore, boardVars, threadVars
  <2> QED
    BY <1>0, <2>1, <2>2, SameFiling
<1>7. ASSUME NEW e \in Endpoints, NEW n \in Names, Join(l, e, n) PROVE Filing'
  <2>1. \A k \in Loops : sr'[k].at = "collected" => sr'[k] = sr[k]
    BY <1>0, <1>7 DEF Join, LoopAt, SrState
  <2>2. UNCHANGED <<made, active, filed, loop, task>> /\ born' = born + 1
    BY <1>7 DEF Join, boardVars, threadVars
  <2> QED
    BY <1>0, <2>1, <2>2, SameFiling
<1>8. CASE Collect(l)
  <2>1. \A k \in Loops : sr'[k].at = "collected" => sr'[k].todo \subseteq filed'
    <3> SUFFICES ASSUME NEW k \in Loops, sr'[k].at = "collected" PROVE sr'[k].todo \subseteq filed'
      OBVIOUS
    <3>1. CASE k = l
      BY <1>0, <1>8, <3>1 DEF Collect
    <3>2. CASE k # l
      BY <1>0, <1>8, <3>2 DEF Collect, Filing
    <3> QED
      BY <3>1, <3>2
  <2> QED
    BY <1>0, <1>8, <2>1 DEF Collect, Filing, agentVars, threadVars
<1>9. CASE Collected(l)
  <2>1. \A k \in Loops : sr'[k].at = "collected" => sr'[k] = sr[k]
    BY <1>0, <1>9, SrTyped DEF Collected, SrPlaces
  <2>2. \A k \in Loops : sr'[k].at = "collected" => sr'[k].todo \subseteq filed'
    BY <1>0, <1>9, <2>1 DEF Collected, Filing
  <2>3. sr[l].todo \subseteq filed
    BY <1>0, <1>9 DEF Collected, LoopAt, Filing
  <2> QED
    BY <1>0, <1>9, <2>2, <2>3 DEF Collected, Filing, agentVars, threadVars
<1>10. ASSUME NEW n \in Names, Dispatch(l, n) PROVE Filing'
  <2> DEFINE k == made + 1
  <2>1. /\ k \in Tasks /\ made' = k /\ active' = active \cup {k} /\ made \in Nat
        /\ loop' = [loop EXCEPT ![k] = "listed"]
        /\ UNCHANGED <<filed, born>> /\ active \subseteq 1..made
    BY <1>0, <1>10, FlockAssumption DEF Dispatch, FlockTypeOK
  <2>2. \A j \in Loops : sr'[j].at = "collected" => sr'[j] = sr[j]
    BY <1>0, <1>10 DEF Dispatch, LoopAt, SrState
  <2>3. \A j \in Loops : sr'[j].at = "collected" => sr'[j].todo \subseteq filed'
    BY <1>0, <2>1, <2>2 DEF Filing
  <2>4. loop[k] = "none"
    BY <1>0, <2>1 DEF Filing
  <2>5. task'[k].agent = flock[n] /\ \A t \in Tasks : t # k => task'[t] = task[t]
    <3>1. task[k] \in TaskRecord
      BY <1>0, <2>1 DEF FlockTypeOK
    <3>2. task'[k] = [task[k] EXCEPT !.agent = flock[n], !.name = n]
      BY <1>0, <2>1, <1>10 DEF Dispatch, FlockTypeOK
    <3> QED
      BY <1>0, <1>10, <2>1, <3>1, <3>2 DEF TaskRecord, Dispatch, FlockTypeOK
  <2>6. flock[n] \in 1..born
    BY <1>0, <1>10, WhatExists DEF Dispatch
  <2> HIDE DEF k
  <2>7. ASSUME NEW t \in Tasks
        PROVE  /\ loop'[t] # "none" => t <= made'
               /\ t <= made' /\ t \notin active' => t \in filed'
               /\ loop'[t] = "over" => t \notin active'
               /\ loop'[t] \in Given => task'[t].agent \in 1..born'
    <3>1. CASE t = k
      BY <1>0, <2>1, <2>5, <2>6, <3>1 DEF FlockTypeOK
    <3>2. CASE t # k
      <4>1. loop'[t] = loop[t] /\ (t <= made' => t <= made)
        BY <1>0, <2>1, <3>2 DEF FlockTypeOK, k
      <4>2. t <= made => t <= made'
        BY <2>1 DEF k
      <4> QED
        BY <1>0, <2>1, <2>5, <3>2, <4>1, <4>2 DEF Filing
    <3> QED
      BY <3>1, <3>2
  <2> QED
    BY <2>3, <2>7 DEF Filing
<1>11. ASSUME NEW t \in Tasks, Occupy(l, t) \/ Launch(l, t) \/ DispatchRaises(l, t) PROVE Filing'
  <2>1. loop[t] \in Given /\ \E x \in {"held", "started", "lost"} : loop' = [loop EXCEPT ![t] = x]
    BY <1>11 DEF Occupy, Launch, DispatchRaises, Dispatching
  <2>2. \A k \in Loops : sr'[k].at = "collected" => sr'[k] = sr[k]
    BY <1>0, <1>11, SrTyped DEF Occupy, Launch, DispatchRaises, SrPlaces
  <2>3. UNCHANGED <<made, active, filed, task, born>>
    BY <1>11 DEF Occupy, Launch, DispatchRaises, agentVars, boardVars
  <2>4. \A k \in Loops : sr'[k].at = "collected" => sr'[k].todo \subseteq filed'
    BY <1>0, <2>2, <2>3 DEF Filing
  <2> QED
    BY <1>0, <2>1, <2>3, <2>4 DEF Filing, FlockTypeOK
<1>12. ASSUME NEW t \in Tasks, CancelTask(l, t) PROVE Filing'
  <2>1. UNCHANGED <<made, active, filed, loop, born, sr>>
    BY <1>12 DEF CancelTask, agentVars, threadVars
  <2>2. \A u \in Tasks : task'[u].agent = task[u].agent
    BY <1>0, <1>12 DEF CancelTask, FlockTypeOK, TaskRecord
  <2> QED
    BY <1>0, <2>1, <2>2, SameFiling
<1> QED
  BY <1>1, <1>2, <1>3, <1>4, <1>5, <1>6, <1>7, <1>8, <1>9, <1>10, <1>11, <1>12, QuietSteps
  DEF LoopStep

\* Whoever files a task, it is filed.
LEMMA FilingStep ==
  ASSUME FlockInv, [FlockNext]_flockVars
  PROVE  Filing'
<1> USE DEF FlockTypeOK, Filing, Tasks, Given, Working, Locked
<1>0. FlockTypeOK /\ Filing /\ active \subseteq Tasks
  BY WhatExists DEF FlockInv
<1>1. ASSUME NEW l \in Loops, LoopStep(l) PROVE Filing'
  BY <1>1, LoopFiling
<1>2. ASSUME NEW e \in Endpoints, EndpointChanges(e) PROVE Filing'
  BY <1>0, <1>2 DEF EndpointChanges, agentVars, boardVars, threadVars
<1>3. ASSUME NEW t \in Tasks, Work(t) PROVE Filing'
  <2>1. Turned(t)
    BY <1>0, <1>3, WorkTurned
  <2>2. PICK x \in {"top", "ask", "act", "free"} : loop' = [loop EXCEPT ![t] = x]
    BY <2>1 DEF Turned
  <2>3. UNCHANGED <<active, filed, made, sr, born>> /\ loop[t] \in Working
    BY <2>1 DEF Turned, agentVars
  <2>4. \A u \in Tasks : task'[u].agent = task[u].agent
    <3>1. CASE task' = task
      BY <3>1
    <3>2. ASSUME NEW s \in {"running", "ended"}, task' = [task EXCEPT ![t].status = s]
          PROVE  \A u \in Tasks : task'[u].agent = task[u].agent
      BY <1>0, <3>2 DEF TaskRecord
    <3> QED
      BY <2>1, <3>1, <3>2 DEF Turned
  <2> QED
    BY <1>0, <2>2, <2>3, <2>4
<1>4. ASSUME NEW t \in Tasks, Free(t) \/ Clear(t) \/ Reopen(t) \/ Listed(t) PROVE Filing'
  <2>1. /\ loop[t] \in {"free", "clear", "reopen", "file"}
        /\ \E x \in {"clear", "reopen", "file", "append"} : loop' = [loop EXCEPT ![t] = x]
        /\ UNCHANGED <<active, filed, made, sr, born, task>>
    BY <1>4 DEF Free, Clear, Reopen, Listed, Lock, At, Unchanged, boardVars
  <2> QED
    BY <1>0, <2>1
<1>5. ASSUME NEW t \in Tasks, FileTask(t) \/ MovedBefore(t) PROVE Filing'
  <2>1. /\ loop[t] \in {"file", "append"} /\ loop' = [loop EXCEPT ![t] = "over"]
        /\ task' = [task EXCEPT ![t] = Blank]
        /\ UNCHANGED <<made, sr, born>> /\ t \notin active' /\ active' \subseteq active
        /\ filed \subseteq filed' /\ \A u \in active : u \notin active' => u \in filed'
    BY <1>0, <1>5 DEF FileTask, MovedBefore, Unchanged, At, Over
  <2> QED
    BY <1>0, <2>1
<1>6. CASE UNCHANGED flockVars
  BY <1>0, <1>6 DEF flockVars, agentVars, boardVars, threadVars
<1> QED
  BY <1>1, <1>2, <1>3, <1>4, <1>5, <1>6 DEF FlockNext, TaskStep, Work

----------------------------------------------------------------------------
(* Helpers and their tasks.                                                 *)

\* Steps that concern the helpers of no one.
LEMMA SameAlone ==
  ASSUME Alone, UNCHANGED <<agentStatus, assigned>>, loose \subseteq loose',
         \A t \in Tasks, a \in Agents \ loose' : Keeps(t, a)' <=> Keeps(t, a),
         \A t \in Tasks : loop[t] \in {"reopen", "listed"} => loop'[t] = loop[t],
         \A t \in Tasks : loop'[t] = "listed" => loop[t] = "listed"
  PROVE  Alone'
<1> SUFFICES ASSUME NEW a \in Agents \ loose' PROVE AloneAt(a)'
  BY DEF Alone
<1>1. AloneAt(a)
  BY DEF Alone
<1> QED
  BY <1>1 DEF AloneAt

\* A loop takes a helper that nobody has, or marks one it cannot tell about.
LEMMA LoopAlone ==
  ASSUME FlockInv, NEW l \in Loops, LoopStep(l)
  PROVE  Alone'
<1>0. FlockTypeOK /\ Filing /\ Alone
  BY DEF FlockInv
<1>1. CASE \/ Quiet(l) \/ Refresh(l) \/ Answered(l) \/ Rebuild(l) \/ Rebuilt(l)
           \/ Collect(l) \/ Collected(l) \/ \E t \in Tasks : FileDeparted(l, t)
           \/ \E e \in Endpoints, n \in Names : Join(l, e, n)
  <2>1. UNCHANGED <<agentStatus, assigned, loose, loop, task>>
    BY <1>1 DEF Quiet, Refresh, Answered, Rebuild, Rebuilt, Collect, Collected, FileDeparted,
                Join, agentVars, boardVars, threadVars
  <2> QED
    BY <1>0, <2>1, SameAlone DEF Keeps
<1>2. CASE (\E n \in Names : Depart(l, n)) \/ \E t \in Tasks : CancelTask(l, t)
  <2>1. UNCHANGED <<agentStatus, assigned, loose, loop>>
    BY <1>2 DEF Depart, CancelTask, agentVars, threadVars
  <2>2. \A t \in Tasks : task'[t].agent = task[t].agent
    <3>1. ASSUME NEW n \in Names, Depart(l, n) PROVE \A t \in Tasks : task'[t].agent = task[t].agent
      BY <1>0, <3>1 DEF Depart, FlockTypeOK, TaskRecord
    <3>2. ASSUME NEW u \in Tasks, CancelTask(l, u)
          PROVE  \A t \in Tasks : task'[t].agent = task[t].agent
      BY <1>0, <3>2 DEF CancelTask, FlockTypeOK, TaskRecord
    <3> QED
      BY <1>2, <3>1, <3>2
  <2> QED
    BY <1>0, <2>1, <2>2, SameAlone DEF Keeps
<1>3. ASSUME NEW b \in Agents, Restore(l, b) PROVE Alone'
  <2>1. /\ agentStatus' = [agentStatus EXCEPT ![b] = "available"]
        /\ loose \subseteq loose'
        /\ b \notin loose' => \A t \in Tasks : ~Keeps(t, b)
        /\ UNCHANGED <<task, loop, assigned>>
    BY <1>3 DEF Restore, boardVars, threadVars, Keeps, UnderWay, Working, Given
  <2> SUFFICES ASSUME NEW a \in Agents \ loose' PROVE AloneAt(a)'
    BY DEF Alone
  <2>2. AloneAt(a)
    BY <1>0, <2>1 DEF Alone
  <2>3. \A t \in Tasks : Keeps(t, a)' <=> Keeps(t, a)
    BY <2>1 DEF Keeps
  <2>4. CASE a = b
    <3>1. agentStatus'[a] = "available"
      BY <1>0, <2>1, <2>4 DEF FlockTypeOK
    <3> QED
      BY <2>1, <2>3, <2>4, <3>1 DEF AloneAt
  <2>5. CASE a # b
    <3>1. agentStatus'[a] = agentStatus[a]
      BY <1>0, <2>1, <2>5 DEF FlockTypeOK
    <3> QED
      BY <2>1, <2>2, <2>3, <3>1 DEF AloneAt
  <2> QED
    BY <2>4, <2>5
<1>4. ASSUME NEW n \in Names, Dispatch(l, n) PROVE Alone'
  <2> DEFINE k == made + 1
             b == flock[n]
  <2>1. /\ k \in Tasks /\ agentStatus[b] # "busy" /\ b \in Agents
        /\ assigned' = [assigned EXCEPT ![b] = k]
        /\ loop' = [loop EXCEPT ![k] = "listed"]
        /\ \A t \in Tasks : t # k => task'[t] = task[t]
        /\ loose \subseteq loose' /\ agentStatus' = agentStatus
        /\ b \notin loose' => \A t \in Tasks : ~(task[t].agent = b /\ loop[t] = "listed")
    BY <1>0, <1>4, WhatExists, FlockAssumption DEF Dispatch, FlockTypeOK, Tasks
  <2>2. task'[k].agent = b
    <3>1. task[k] \in TaskRecord
      BY <1>0, <2>1 DEF FlockTypeOK
    <3>2. task'[k] = [task[k] EXCEPT !.agent = b, !.name = n]
      BY <1>0, <2>1, <1>4 DEF Dispatch, FlockTypeOK
    <3> QED
      BY <3>1, <3>2 DEF TaskRecord
  <2>3. loop[k] = "none"
    BY <1>0, <2>1 DEF Filing, FlockTypeOK
  <2> HIDE DEF k, b
  <2>4. loop'[k] = "listed" /\ \A t \in Tasks : t # k => loop'[t] = loop[t]
    BY <1>0, <2>1 DEF FlockTypeOK
  <2>5. ASSUME NEW t \in Tasks, NEW a \in Agents
        PROVE  Keeps(t, a)' <=> Keeps(t, a) \/ (t = k /\ a = b)
    <3>1. CASE t = k
      BY <2>2, <2>3, <2>4, <3>1 DEF Keeps, Given, Working
    <3>2. CASE t # k
      BY <2>1, <2>4, <3>2 DEF Keeps
    <3> QED
      BY <3>1, <3>2
  <2>6. \A a \in Agents : ~Keeps(k, a)
    BY <2>3 DEF Keeps, Given, Working
  <2> SUFFICES ASSUME NEW a \in Agents \ loose' PROVE AloneAt(a)'
    BY DEF Alone
  <2>7. AloneAt(a)
    BY <1>0, <2>1 DEF Alone
  <2>8. CASE a = b
    <3>1. \A t \in Tasks : ~Keeps(t, a)
      BY <2>1, <2>7, <2>8 DEF AloneAt, Keeps
    <3>2. \A t \in Tasks : Keeps(t, a)' <=> t = k
      BY <2>5, <2>8, <3>1
    <3>3. assigned'[a] = k /\ agentStatus'[a] # "busy"
      BY <1>0, <2>1, <2>8 DEF FlockTypeOK
    <3> QED
      BY <2>1, <2>4, <3>2, <3>3 DEF AloneAt
  <2>9. CASE a # b
    <3>1. \A t \in Tasks : Keeps(t, a)' <=> Keeps(t, a)
      BY <2>5, <2>9
    <3>2. \A t \in Tasks : Keeps(t, a) => t # k
      BY <2>6
    <3>3. assigned'[a] = assigned[a] /\ agentStatus'[a] = agentStatus[a]
      BY <1>0, <2>1, <2>9 DEF FlockTypeOK
    <3> QED
      BY <2>4, <2>7, <3>1, <3>2, <3>3 DEF AloneAt
  <2> QED
    BY <2>8, <2>9
<1>5. ASSUME NEW k \in Tasks, Occupy(l, k) PROVE Alone'
  <2> DEFINE b == task[k].agent
  <2>1. /\ loop[k] = "listed" /\ loop' = [loop EXCEPT ![k] = "held"]
        /\ agentStatus' = [agentStatus EXCEPT ![b] = "busy"]
        /\ UNCHANGED <<task, assigned, loose>>
    BY <1>5 DEF Occupy, Dispatching, boardVars
  <2>2. loop'[k] = "held" /\ \A t \in Tasks : t # k => loop'[t] = loop[t]
    BY <1>0, <2>1 DEF FlockTypeOK
  <2>3. \A t \in Tasks, a \in Agents : Keeps(t, a)' <=> Keeps(t, a)
    BY <2>1, <2>2 DEF Keeps, Given
  <2>4. \A a \in Agents : Keeps(k, a) <=> a = b
    BY <2>1 DEF Keeps, Given
  <2> HIDE DEF b
  <2> SUFFICES ASSUME NEW a \in Agents \ loose PROVE AloneAt(a)'
    BY <2>1 DEF Alone
  <2>5. AloneAt(a)
    BY <1>0 DEF Alone
  <2>6. CASE a = b
    <3>1. agentStatus'[a] = "busy"
      BY <1>0, <2>1, <2>6 DEF FlockTypeOK
    <3>2. \A t \in Tasks : Keeps(t, a) => t = k
      BY <2>4, <2>5, <2>6 DEF AloneAt
    <3>3. assigned[a] = k
      BY <2>1, <2>4, <2>5, <2>6 DEF AloneAt
    <3> QED
      BY <2>1, <2>2, <2>3, <2>4, <2>6, <3>1, <3>2, <3>3 DEF AloneAt
  <2>7. CASE a # b
    <3>1. agentStatus'[a] = agentStatus[a]
      BY <1>0, <2>1, <2>7 DEF FlockTypeOK
    <3>2. \A t \in Tasks : Keeps(t, a) => loop'[t] = loop[t]
      BY <2>2, <2>4, <2>7
    <3> QED
      BY <2>1, <2>3, <2>5, <3>1, <3>2 DEF AloneAt
  <2> QED
    BY <2>6, <2>7
<1>6. ASSUME NEW k \in Tasks, Launch(l, k) PROVE Alone'
  <2>1. /\ loop[k] = "held" /\ loop' = [loop EXCEPT ![k] = "started"]
        /\ UNCHANGED <<task, assigned, agentStatus, loose>>
    BY <1>6 DEF Launch, Dispatching, agentVars, boardVars
  <2>2. loop'[k] = "started" /\ \A t \in Tasks : t # k => loop'[t] = loop[t]
    BY <1>0, <2>1 DEF FlockTypeOK
  <2>3. \A t \in Tasks, a \in Agents : Keeps(t, a)' <=> Keeps(t, a)
    BY <2>1, <2>2 DEF Keeps, Given, Working
  <2> QED
    BY <1>0, <2>1, <2>2, <2>3, SameAlone
<1>7. ASSUME NEW k \in Tasks, DispatchRaises(l, k) PROVE Alone'
  <2>1. /\ loop[k] = "held" /\ loop' = [loop EXCEPT ![k] = "lost"]
        /\ loose' = loose \cup {task[k].agent}
        /\ UNCHANGED <<task, assigned, agentStatus>>
    BY <1>7 DEF DispatchRaises, Dispatching, agentVars, boardVars
  <2>2. loop'[k] = "lost" /\ \A t \in Tasks : t # k => loop'[t] = loop[t]
    BY <1>0, <2>1 DEF FlockTypeOK
  <2>3. \A t \in Tasks, a \in Agents \ loose' : Keeps(t, a)' <=> Keeps(t, a)
    BY <2>1, <2>2 DEF Keeps
  <2> QED
    BY <1>0, <2>1, <2>2, <2>3, SameAlone
<1> QED
  BY <1>1, <1>2, <1>3, <1>4, <1>5, <1>6, <1>7, QuietSteps DEF LoopStep

\* A helper is freed by the task it was given to, and by no other.
LEMMA AloneStep ==
  ASSUME FlockInv, [FlockNext]_flockVars
  PROVE  Alone'
<1>0. FlockTypeOK /\ Filing /\ Alone
  BY DEF FlockInv
<1>1. ASSUME NEW l \in Loops, LoopStep(l) PROVE Alone'
  BY <1>1, LoopAlone
<1>2. ASSUME NEW e \in Endpoints, EndpointChanges(e) PROVE Alone'
  <2>1. UNCHANGED <<agentStatus, assigned, loose, loop, task>>
    BY <1>2 DEF EndpointChanges, agentVars, boardVars, threadVars
  <2> QED
    BY <1>0, <2>1, SameAlone DEF Keeps
<1>3. ASSUME NEW t \in Tasks, Work(t) PROVE Alone'
  <2>1. Turned(t)
    BY <1>0, <1>3, WorkTurned
  <2>2. PICK x \in {"top", "ask", "act", "free"} : loop' = [loop EXCEPT ![t] = x]
    BY <2>1 DEF Turned
  <2>3. UNCHANGED <<agentStatus, assigned, loose>> /\ loop[t] \in Working
    BY <2>1 DEF Turned, agentVars
  <2>4. \A u \in Tasks : task'[u].agent = task[u].agent
    <3>1. CASE task' = task
      BY <3>1
    <3>2. ASSUME NEW s \in {"running", "ended"}, task' = [task EXCEPT ![t].status = s]
          PROVE  \A u \in Tasks : task'[u].agent = task[u].agent
      BY <1>0, <3>2 DEF FlockTypeOK, TaskRecord
    <3> QED
      BY <2>1, <3>1, <3>2 DEF Turned
  <2>5. \A u \in Tasks, a \in Agents : Keeps(u, a)' <=> Keeps(u, a)
    BY <1>0, <2>2, <2>3, <2>4 DEF Keeps, Working, FlockTypeOK
  <2>6. \A u \in Tasks : u # t => loop'[u] = loop[u]
    BY <1>0, <2>2 DEF FlockTypeOK
  <2>7. loop'[t] # "listed" /\ loop[t] \notin {"reopen", "listed"}
    BY <1>0, <2>2, <2>3 DEF FlockTypeOK, Working
  <2> QED
    BY <1>0, <2>3, <2>5, <2>6, <2>7, SameAlone
<1>4. ASSUME NEW t \in Tasks, Free(t) PROVE Alone'
  <2>1. /\ loop[t] = "free"
        /\ loop' = [loop EXCEPT ![t] = IF assigned[task[t].agent] = t THEN "clear" ELSE "file"]
        /\ UNCHANGED <<agentStatus, assigned, loose, task>>
    BY <1>4 DEF Free, Lock, At, boardVars, Unchanged
  <2>2. ASSUME NEW u \in Tasks, NEW a \in Agents \ loose
        PROVE  Keeps(u, a)' <=> Keeps(u, a)
    <3>1. CASE u = t /\ task[t].agent = a
      <4>1. Keeps(t, a) /\ loop[t] # "reopen"
        BY <2>1, <3>1 DEF Keeps
      <4>2. assigned[a] = t
        BY <1>0, <4>1 DEF Alone, AloneAt
      <4>3. loop'[t] = "clear"
        BY <1>0, <2>1, <3>1, <4>2 DEF FlockTypeOK
      <4> QED
        BY <2>1, <3>1, <4>1, <4>3 DEF Keeps
    <3>2. CASE u = t /\ task[t].agent # a
      BY <2>1, <3>2 DEF Keeps
    <3>3. CASE u # t
      BY <1>0, <2>1, <3>3 DEF FlockTypeOK, Keeps
    <3> QED
      BY <3>1, <3>2, <3>3
  <2>3. /\ \A u \in Tasks : u # t => loop'[u] = loop[u]
        /\ loop'[t] # "listed"
    BY <1>0, <2>1 DEF FlockTypeOK
  <2> QED
    BY <1>0, <2>1, <2>2, <2>3, SameAlone
<1>5. ASSUME NEW t \in Tasks, Clear(t) PROVE Alone'
  <2> DEFINE b == task[t].agent
  <2>1. /\ loop[t] = "clear" /\ loop' = [loop EXCEPT ![t] = "reopen"]
        /\ assigned' = [assigned EXCEPT ![b] = None]
        /\ UNCHANGED <<agentStatus, loose, task>>
    BY <1>5 DEF Clear, At, boardVars, Unchanged
  <2>2. /\ \A u \in Tasks : u # t => loop'[u] = loop[u]
        /\ loop'[t] = "reopen"
    BY <1>0, <2>1 DEF FlockTypeOK
  <2>3. ASSUME NEW u \in Tasks, NEW a \in Agents PROVE Keeps(u, a)' <=> Keeps(u, a)
    BY <2>1, <2>2 DEF Keeps
  <2>4. Keeps(t, b)
    BY <2>1 DEF Keeps
  <2> HIDE DEF b
  <2> SUFFICES ASSUME NEW a \in Agents \ loose PROVE AloneAt(a)'
    BY <2>1 DEF Alone
  <2>5. AloneAt(a)
    BY <1>0 DEF Alone
  <2>6. CASE a = b
    BY <2>1, <2>2, <2>3, <2>4, <2>5, <2>6 DEF AloneAt
  <2>7. CASE a # b
    <3>1. assigned'[a] = assigned[a]
      BY <1>0, <2>1, <2>7 DEF FlockTypeOK
    <3>2. \A u \in Tasks : Keeps(u, a) => loop'[u] = loop[u] \/ loop'[u] = "reopen"
      BY <2>2
    <3>3. \A u \in Tasks : loop'[u] = "listed" <=> loop[u] = "listed"
      BY <2>1, <2>2
    <3> QED
      BY <2>1, <2>3, <2>5, <3>1, <3>2, <3>3 DEF AloneAt
  <2> QED
    BY <2>6, <2>7
<1>6. ASSUME NEW t \in Tasks, Reopen(t) PROVE Alone'
  <2> DEFINE b == task[t].agent
  <2>1. /\ loop[t] = "reopen" /\ loop' = [loop EXCEPT ![t] = "file"]
        /\ agentStatus' = [agentStatus EXCEPT ![b] = "available"]
        /\ UNCHANGED <<assigned, loose, task>>
    BY <1>6 DEF Reopen, At, boardVars, Unchanged
  <2>2. /\ \A u \in Tasks : u # t => loop'[u] = loop[u]
        /\ loop'[t] = "file"
    BY <1>0, <2>1 DEF FlockTypeOK
  <2>3. ASSUME NEW u \in Tasks, NEW a \in Agents
        PROVE  Keeps(u, a)' <=> Keeps(u, a) /\ u # t
    BY <2>1, <2>2 DEF Keeps, Given, Working
  <2>4. \A a \in Agents : Keeps(t, a) <=> a = b
    BY <2>1 DEF Keeps
  <2> HIDE DEF b
  <2> SUFFICES ASSUME NEW a \in Agents \ loose PROVE AloneAt(a)'
    BY <2>1 DEF Alone
  <2>5. AloneAt(a)
    BY <1>0 DEF Alone
  <2>6. CASE a = b
    <3>1. \A u \in Tasks : ~Keeps(u, a)'
      BY <2>3, <2>4, <2>5, <2>6 DEF AloneAt
    <3>2. agentStatus'[a] = "available"
      BY <1>0, <2>1, <2>6 DEF FlockTypeOK
    <3> QED
      BY <3>1, <3>2 DEF AloneAt
  <2>7. CASE a # b
    <3>1. agentStatus'[a] = agentStatus[a]
      BY <1>0, <2>1, <2>7 DEF FlockTypeOK
    <3>2. \A u \in Tasks : Keeps(u, a)' <=> Keeps(u, a)
      BY <2>3, <2>4, <2>7
    <3>3. \A u \in Tasks : Keeps(u, a) => loop'[u] = loop[u]
      BY <2>2, <2>4, <2>7
    <3> QED
      BY <2>1, <2>5, <3>1, <3>2, <3>3 DEF AloneAt
  <2> QED
    BY <2>6, <2>7
<1>7. ASSUME NEW t \in Tasks, Listed(t) \/ FileTask(t) \/ MovedBefore(t) PROVE Alone'
  <2>1. /\ loop[t] \in {"file", "append"}
        /\ \E x \in {"append", "over"} : loop' = [loop EXCEPT ![t] = x]
        /\ task' \in {task, [task EXCEPT ![t] = Blank]}
        /\ UNCHANGED <<agentStatus, assigned, loose>>
    BY <1>7 DEF Listed, FileTask, MovedBefore, Over, At, boardVars, Unchanged
  <2>2. /\ \A u \in Tasks : u # t => loop'[u] = loop[u] /\ task'[u] = task[u]
        /\ loop'[t] \in {"append", "over"}
    BY <1>0, <2>1 DEF FlockTypeOK
  <2>3. \A u \in Tasks, a \in Agents : Keeps(u, a)' <=> Keeps(u, a)
    BY <2>1, <2>2 DEF Keeps, Given, Working
  <2> QED
    BY <1>0, <2>1, <2>2, <2>3, SameAlone
<1>8. CASE UNCHANGED flockVars
  <2>1. UNCHANGED <<agentStatus, assigned, loose, loop, task>>
    BY <1>8 DEF flockVars, agentVars, boardVars, threadVars
  <2> QED
    BY <1>0, <2>1, SameAlone DEF Keeps
<1> QED
  BY <1>1, <1>2, <1>3, <1>4, <1>5, <1>6, <1>7, <1>8 DEF FlockNext, TaskStep, Work

----------------------------------------------------------------------------
(* The invariant.                                                           *)

\* A mission begins without helpers and without tasks.
LEMMA FlockStarts == FlockInit => FlockInv
<1> SUFFICES ASSUME FlockInit PROVE FlockInv
  OBVIOUS
<1> USE DEF FlockInit, None
<1>1. task \in [Tasks -> TaskRecord]
  BY DEF TaskRecord, Blank, TaskStatus
<1>2. sr \in [Loops -> SrState]
  BY DEF SrState, SrPlaces, Idle
<1>3. FlockTypeOK
  BY <1>1, <1>2, FlockAssumption DEF FlockTypeOK, Given, Working, Locked
<1>4. Housed
  BY DEF Housed
<1>5. Filing
  BY FlockAssumption DEF Filing, Idle, Tasks, Given
<1>6. Alone
  BY DEF Alone, AloneAt, Keeps, Given, Working
<1> QED
  BY <1>3, <1>4, <1>5, <1>6 DEF FlockInv

\* Every step keeps the invariant.
LEMMA FlockStays == FlockInv /\ [FlockNext]_flockVars => FlockInv'
  BY TypeStep, FilingStep, AloneStep DEF FlockInv

----------------------------------------------------------------------------
(* Theorems.                                                                *)

\* Every variable keeps its type, the counters of a task their bounds.
THEOREM FlockTypeCorrect == FlockSpec => []FlockTypeOK
<1>1. FlockInv => FlockTypeOK
  BY DEF FlockInv
<1> QED
  BY <1>1, FlockStarts, FlockStays, PTL DEF FlockSpec

\* Whichever of its thread, the collection of results and the departure of its helper
\* comes first: a task whose thread is over is off the list and in the history.
THEOREM NothingIsLost == FlockSpec => []NothingLost
<1>1. FlockInv => NothingLost
  <2> SUFFICES ASSUME FlockInv, NEW t \in Tasks, loop[t] = "over"
               PROVE  t \notin active /\ t \in filed
    BY DEF NothingLost
  <2> QED
    BY DEF FlockInv, Filing
<1> QED
  BY <1>1, FlockStarts, FlockStays, PTL DEF FlockSpec

\* Whatever the loops of its mission do, a helper that is not loose works on at most one task
\* and is busy only while a task of its has a thread or is about to get one.
THEOREM OneTaskForEach == FlockSpec => []OneTaskEach
<1>1. FlockInv => OneTaskEach
  <2> SUFFICES ASSUME FlockInv, NEW a \in (1..born) \ loose
               PROVE  /\ Cardinality({t \in Tasks : task[t].agent = a /\ loop[t] \in Working}) <= 1
                      /\ agentStatus[a] = "busy" =>
                           \E t \in Tasks : /\ task[t].agent = a
                                           /\ (UnderWay(t) \/ loop[t] = "held")
    BY DEF OneTaskEach
  <2>1. AloneAt(a)
    BY WhatExists DEF FlockInv, Alone
  <2> DEFINE S == {t \in Tasks : task[t].agent = a /\ loop[t] \in Working}
  <2>2. \A t, u \in S : t = u
    BY <2>1 DEF AloneAt, Keeps
  <2>3. Cardinality(S) <= 1
    <3> HIDE DEF S
    <3>1. CASE S = {}
      BY <3>1, FS_EmptySet
    <3>2. CASE S # {}
      <4>1. PICK t \in S : TRUE
        BY <3>2
      <4>2. S = {t}
        BY <2>2, <4>1
      <4>3. Cardinality({t}) = 1
        BY FS_Singleton
      <4> QED
        BY <4>2, <4>3
    <3> QED
      BY <3>1, <3>2
  <2>4. ASSUME agentStatus[a] = "busy"
        PROVE  \E t \in Tasks : task[t].agent = a /\ (UnderWay(t) \/ loop[t] = "held")
    <3>1. PICK t \in Tasks : Keeps(t, a)
      BY <2>1, <2>4 DEF AloneAt
    <3>2. loop[t] # "listed"
      BY <2>1, <2>4, <3>1 DEF AloneAt
    <3> QED
      BY <3>1, <3>2 DEF Keeps, UnderWay, Given, Working
  <2> QED
    BY <2>3, <2>4
<1> QED
  BY <1>1, FlockStarts, FlockStays, PTL DEF FlockSpec
----------------------------------------------------------------------------
(* The threads of tasks come to an end.                                     *)

\* How many steps a thread has left at most, where it is and in which iteration: three of
\* the dispatch, three in each iteration, and five from the end of the loop to the history.
Steps(at, k) ==
  LET inTurn  == [top |-> 3, ask |-> 2, act |-> 1]
      closing == [free |-> 5, clear |-> 4, reopen |-> 3, file |-> 2, append |-> 1, over |-> 0,
                   lost |-> 0]
  IN  IF at = "none" THEN 3 * MaxTurns + 12
      ELSE IF at = "listed" THEN 3 * MaxTurns + 11
      ELSE IF at = "held" THEN 3 * MaxTurns + 10
      ELSE IF at = "started" THEN 3 * MaxTurns + 9
      ELSE IF at \in {"top", "ask", "act"} THEN 3 * (MaxTurns - k) + inTurn[at] + 5
      ELSE closing[at]
Left(t) == Steps(loop[t], turn[t])

\* What TasksEnd rests on: the work left of a task never grows, whatever the loops,
\* the registry and other tasks do, and every step of its own thread makes it less.
TasksMoveOn ==
  \A t \in Tasks :
    /\ Left(t) \in Nat
    /\ Left(t)' <= Left(t)
    /\ TaskStep(t) => Left(t)' < Left(t)

\* What is left, place by place.
LEMMA StepsAt ==
  ASSUME NEW k \in 0..MaxTurns
  PROVE  /\ k \in Nat /\ MaxTurns \in Nat /\ k <= MaxTurns
         /\ Steps("none", k) = 3 * MaxTurns + 12
         /\ Steps("listed", k) = 3 * MaxTurns + 11
         /\ Steps("held", k) = 3 * MaxTurns + 10
         /\ Steps("started", k) = 3 * MaxTurns + 9
         /\ Steps("top", k) = 3 * (MaxTurns - k) + 8
         /\ Steps("ask", k) = 3 * (MaxTurns - k) + 7
         /\ Steps("act", k) = 3 * (MaxTurns - k) + 6
         /\ Steps("free", k) = 5 /\ Steps("clear", k) = 4 /\ Steps("reopen", k) = 3
         /\ Steps("file", k) = 2 /\ Steps("append", k) = 1 /\ Steps("over", k) = 0
         /\ Steps("lost", k) = 0
<1>1. k \in Nat /\ MaxTurns \in Nat /\ k <= MaxTurns
  BY FlockAssumption
<1>2. /\ Steps("none", k) = 3 * MaxTurns + 12
      /\ Steps("listed", k) = 3 * MaxTurns + 11
      /\ Steps("held", k) = 3 * MaxTurns + 10
      /\ Steps("started", k) = 3 * MaxTurns + 9
  BY DEF Steps
<1>3. /\ Steps("top", k) = 3 * (MaxTurns - k) + 3 + 5
      /\ Steps("ask", k) = 3 * (MaxTurns - k) + 2 + 5
      /\ Steps("act", k) = 3 * (MaxTurns - k) + 1 + 5
  BY DEF Steps
<1>4. /\ Steps("free", k) = 5 /\ Steps("clear", k) = 4 /\ Steps("reopen", k) = 3
      /\ Steps("file", k) = 2 /\ Steps("append", k) = 1 /\ Steps("over", k) = 0
      /\ Steps("lost", k) = 0
  BY DEF Steps
<1> QED
  BY <1>1, <1>2, <1>3, <1>4

\* It is a natural number.
LEMMA LeftType ==
  ASSUME FlockTypeOK, NEW t \in Tasks
  PROVE  Left(t) \in Nat /\ loop[t] \in Places /\ turn[t] \in 0..MaxTurns
<1>1. loop[t] \in Places /\ turn[t] \in 0..MaxTurns
  BY DEF FlockTypeOK, Places
<1>2. Steps(loop[t], turn[t]) \in Nat
  BY <1>1, StepsAt DEF Places, Given, Working, Locked
<1> QED
  BY <1>1, <1>2 DEF Left

\* The end of a loop leaves the five steps that close the task.
LEMMA EndsLess ==
  ASSUME FlockTypeOK, NEW t \in Tasks, loop[t] \in {"top", "ask", "act"}, Ends(t)
  PROVE  Left(t)' < Left(t)
<1>1. loop'[t] = "free" /\ turn'[t] = 0
  BY DEF Ends, At, FlockTypeOK
<1>2. Steps(loop'[t], turn'[t]) = 5
  BY <1>1, StepsAt, FlockAssumption
<1>3. turn[t] \in 0..MaxTurns
  BY LeftType
<1> QED
  BY <1>2, <1>3, StepsAt DEF Left

\* The next iteration is one less, whatever came of this one.
LEMMA AgainLess ==
  ASSUME FlockTypeOK, NEW t \in Tasks, loop[t] \in {"ask", "act"}, NEW f, NEW e, Again(t, f, e)
  PROVE  Left(t)' < Left(t)
<1>1. CASE turn[t] < MaxTurns
  <2>1. turn[t] \in 0..MaxTurns
    BY LeftType
  <2>2. loop'[t] = "top" /\ turn'[t] = turn[t] + 1
    BY <1>1 DEF Again, At, FlockTypeOK
  <2>3. turn[t] + 1 \in 0..MaxTurns
    BY <1>1, <2>1, StepsAt
  <2>4. Steps(loop'[t], turn'[t]) = 3 * (MaxTurns - (turn[t] + 1)) + 8
    BY <2>2, <2>3, StepsAt
  <2> QED
    BY <2>1, <2>4, StepsAt DEF Left
<1>2. CASE ~(turn[t] < MaxTurns)
  BY <1>2, EndsLess DEF Again
<1> QED
  BY <1>1, <1>2

\* Every step of the loop.
LEMMA WorkLess ==
  ASSUME FlockTypeOK, NEW t \in Tasks, Work(t)
  PROVE  Left(t)' < Left(t)
<1>1. turn[t] \in 0..MaxTurns
  BY LeftType
<1>2. CASE Start(t)
  <2>1. loop[t] = "started" /\ loop'[t] = "top" /\ turn'[t] = 1 /\ 1 \in 0..MaxTurns
    BY <1>2, FlockAssumption DEF Start, At, FlockTypeOK
  <2> QED
    BY <1>1, <2>1, StepsAt DEF Left
<1>3. CASE Cancelled(t) \/ TimedOut(t) \/ Bail(t) \/ Fail(t) \/ Crash(t) \/ Done(t)
  BY <1>3, EndsLess DEF Cancelled, TimedOut, Bail, Fail, Crash, Done, Leaves
<1>4. CASE Ask(t)
  <2>1. loop[t] = "top" /\ loop'[t] = "ask" /\ turn'[t] = turn[t]
    BY <1>4 DEF Ask, At, FlockTypeOK
  <2> QED
    BY <1>1, <2>1, StepsAt DEF Left
<1>5. CASE Answer(t)
  <2>1. loop[t] = "ask" /\ loop'[t] = "act" /\ turn'[t] = turn[t]
    BY <1>5 DEF Answer, At, FlockTypeOK
  <2> QED
    BY <1>1, <2>1, StepsAt DEF Left
<1>6. CASE NoUse(t) \/ Overflow(t) \/ Act(t) \/ Reject(t)
  BY <1>6, AgainLess DEF NoUse, Overflow, Act, Reject
<1>7. CASE AgentError(t)
  BY <1>7, EndsLess, AgainLess DEF AgentError
<1> QED
  BY <1>2, <1>3, <1>4, <1>5, <1>6, <1>7 DEF Work

\* Every step that closes a task.
LEMMA CloseLess ==
  ASSUME FlockTypeOK, NEW t \in Tasks,
         Free(t) \/ Clear(t) \/ Reopen(t) \/ Listed(t) \/ FileTask(t) \/ MovedBefore(t)
  PROVE  Left(t)' < Left(t)
<1>1. turn[t] \in 0..MaxTurns /\ turn'[t] = turn[t]
  BY LeftType DEF Free, Clear, Reopen, Listed, FileTask, MovedBefore
<1>2. \/ loop[t] = "free" /\ loop'[t] \in {"clear", "file"}
      \/ loop[t] = "clear" /\ loop'[t] = "reopen"
      \/ loop[t] = "reopen" /\ loop'[t] = "file"
      \/ loop[t] = "file" /\ loop'[t] \in {"append", "over"}
      \/ loop[t] = "append" /\ loop'[t] = "over"
  BY DEF FlockTypeOK, Free, Lock, Clear, Reopen, Listed, FileTask, MovedBefore, At, Over
<1> QED
  BY <1>1, <1>2, StepsAt DEF Left

\* A thread moves nothing but itself.
LEMMA OneThreadMoves ==
  ASSUME FlockTypeOK, NEW t \in Tasks, TaskStep(t), NEW u \in Tasks, u # t
  PROVE  Left(u)' = Left(u)
<1>1. loop'[u] = loop[u]
  <2>1. CASE Work(t)
    BY <2>1, WorkTurned DEF Turned, FlockTypeOK
  <2>2. CASE Free(t) \/ Clear(t) \/ Reopen(t) \/ Listed(t) \/ FileTask(t) \/ MovedBefore(t)
    BY <2>2 DEF FlockTypeOK, Free, Clear, Reopen, Listed, FileTask, MovedBefore, At, Over
  <2> QED
    BY <2>1, <2>2 DEF TaskStep, Work
<1>2. turn'[u] = turn[u]
  <2> USE DEF FlockTypeOK
  <2>1. CASE Start(t) \/ Ask(t) \/ Answer(t)
    BY <2>1 DEF Start, Ask, Answer
  <2>2. CASE Cancelled(t) \/ TimedOut(t) \/ Bail(t) \/ Fail(t) \/ Crash(t) \/ Done(t)
    BY <2>2 DEF Cancelled, TimedOut, Bail, Fail, Crash, Done, Leaves, Ends
  <2>3. CASE NoUse(t) \/ Overflow(t) \/ AgentError(t) \/ Act(t) \/ Reject(t)
    BY <2>3 DEF NoUse, Overflow, AgentError, Act, Reject, Again, Ends
  <2>4. CASE Free(t) \/ Clear(t) \/ Reopen(t) \/ Listed(t) \/ FileTask(t) \/ MovedBefore(t)
    BY <2>4 DEF Free, Clear, Reopen, Listed, FileTask, MovedBefore
  <2> QED
    BY <2>1, <2>2, <2>3, <2>4 DEF TaskStep
<1> QED
  BY <1>1, <1>2 DEF Left

\* A loop dispatches a task and starts a thread for it once, and none for a task that has had
\* one.
LEMMA LoopMoves ==
  ASSUME FlockInv, NEW t \in Tasks,
         (\E l \in Loops : LoopStep(l)) \/ \E e \in Endpoints : EndpointChanges(e)
  PROVE  Left(t)' <= Left(t)
<1>0. FlockTypeOK /\ Left(t) \in Nat /\ turn[t] \in 0..MaxTurns /\ loop[t] \in Places
  BY LeftType DEF FlockInv
<1>1. ASSUME NEW k \in Tasks, NEW to, loop' = [loop EXCEPT ![k] = to], turn' = turn,
             \/ loop[k] = "none" /\ to = "listed"
             \/ loop[k] = "listed" /\ to = "held"
             \/ loop[k] = "held" /\ to \in {"started", "lost"}
      PROVE  Left(t)' <= Left(t)
  <2>1. CASE t = k
    <3>1. loop'[t] = to /\ turn'[t] = turn[t]
      BY <1>0, <1>1, <2>1 DEF FlockTypeOK
    <3> QED
      BY <1>0, <1>1, <2>1, <3>1, StepsAt DEF Left
  <2>2. CASE t # k
    BY <1>0, <1>1, <2>2 DEF Left, FlockTypeOK
  <2> QED
    BY <2>1, <2>2
<1>2. ASSUME NEW l \in Loops, NEW n \in Names, Dispatch(l, n) PROVE Left(t)' <= Left(t)
  <2>1. made + 1 \in Tasks
    BY <1>0, <1>2, FlockAssumption DEF Dispatch, FlockTypeOK, Tasks
  <2>2. loop[made + 1] = "none"
    BY <1>0, <2>1 DEF FlockInv, Filing, FlockTypeOK
  <2>3. loop' = [loop EXCEPT ![made + 1] = "listed"] /\ turn' = turn
    BY <1>2 DEF Dispatch
  <2> QED
    BY <1>1, <2>1, <2>2, <2>3
<1>3. ASSUME NEW l \in Loops, NEW k \in Tasks, Occupy(l, k) \/ Launch(l, k) \/ DispatchRaises(l, k)
      PROVE  Left(t)' <= Left(t)
  BY <1>1, <1>3 DEF Occupy, Launch, DispatchRaises, Dispatching
<1>4. ASSUME NEW l \in Loops, LoopStep(l), UNCHANGED <<loop, turn>> PROVE Left(t)' <= Left(t)
  BY <1>0, <1>4 DEF Left
<1>5. ASSUME NEW l \in Loops, LoopStep(l) PROVE Left(t)' <= Left(t)
  <2>1. CASE \/ StartLoop(l) \/ Refresh(l) \/ AskNames(l) \/ Answered(l) \/ Named(l)
             \/ Collect(l) \/ Collected(l) \/ Rebuild(l) \/ Rebuilt(l) \/ NextRound(l)
             \/ MissionEnds(l)
    BY <1>4, <1>5, <2>1 DEF StartLoop, Refresh, AskNames, Answered, Named, Collect, Collected,
       Rebuild, Rebuilt, NextRound, MissionEnds, threadVars
  <2>2. CASE \/ \E n \in Names : Depart(l, n) \/ DepartTwice(l, n)
             \/ \E u \in Tasks : FileDeparted(l, u) \/ CancelTask(l, u)
             \/ \E a \in Agents : Restore(l, a)
             \/ \E e \in Endpoints, n \in Names : Join(l, e, n)
    BY <1>4, <1>5, <2>2 DEF Depart, DepartTwice, FileDeparted, CancelTask, Restore, Join, threadVars
  <2> QED
    BY <1>2, <1>3, <1>5, <2>1, <2>2 DEF LoopStep
<1>6. ASSUME NEW e \in Endpoints, EndpointChanges(e) PROVE Left(t)' <= Left(t)
  <2>1. UNCHANGED <<loop, turn>>
    BY <1>6 DEF EndpointChanges, threadVars
  <2> QED
    BY <1>0, <2>1 DEF Left
<1> QED
  BY <1>5, <1>6

\* Each task has one thread in its life and that thread at most 3 * MaxTurns + 9 steps to
\* take: no cancellation, failure of its helper, change of its name or return of a departed
\* helper gives it new ones.  TasksEnd adds that threads which can run do.
THEOREM EveryTaskMovesOn == FlockSpec => [][TasksMoveOn]_flockVars
<1>1. FlockInv /\ [FlockNext]_flockVars => [TasksMoveOn]_flockVars
  <2> SUFFICES ASSUME FlockInv, FlockNext, NEW t \in Tasks
               PROVE  /\ Left(t) \in Nat
                      /\ Left(t)' <= Left(t)
                      /\ TaskStep(t) => Left(t)' < Left(t)
    BY DEF TasksMoveOn
  <2>1. FlockTypeOK /\ Left(t) \in Nat
    BY LeftType DEF FlockInv
  <2>2. TaskStep(t) => Left(t)' < Left(t)
    BY <2>1, WorkLess, CloseLess DEF TaskStep, Work
  <2>3. ASSUME NEW u \in Tasks, TaskStep(u), u # t PROVE Left(t)' = Left(t)
    BY <2>1, <2>3, OneThreadMoves
  <2>4. FlockInv'
    BY FlockStays
  <2>5. Left(t)' \in Nat
    <3>1. FlockTypeOK'
      BY <2>4 DEF FlockInv
    <3>2. loop'[t] \in Places /\ turn'[t] \in 0..MaxTurns
      BY <3>1 DEF FlockTypeOK, Places
    <3>3. Steps(loop'[t], turn'[t]) \in Nat
      BY <3>2, StepsAt DEF Places, Given, Working, Locked
    <3> QED
      BY <3>3 DEF Left
  <2>6. Left(t)' <= Left(t)
    <3>1. CASE (\E l \in Loops : LoopStep(l)) \/ \E e \in Endpoints : EndpointChanges(e)
      BY <3>1, LoopMoves
    <3>2. CASE \E u \in Tasks : TaskStep(u)
      BY <2>1, <2>2, <2>3, <2>5, <3>2
    <3> QED
      BY <3>1, <3>2 DEF FlockNext
  <2> QED
    BY <2>1, <2>2, <2>6
<1> QED
  BY <1>1, FlockStarts, FlockStays, PTL DEF FlockSpec
=================================================================================
