------------------------ MODULE MissionLifecycle_proofs ------------------------
(***************************************************************************)
(* Proofs about MissionLifecycle, for every number of missions, objects,   *)
(* loop threads and containers and every value of the caps and bounds:     *)
(* a mission that looks alive has a loop, a loop has a container, and what *)
(* is told to stop, orphaned or saved late comes to its end.               *)
(***************************************************************************)
EXTENDS MissionLifecycle, FiniteSetTheorems, TLAPS

----------------------------------------------------------------------------
(* What Spawn and the choice of a fresh slot return.                        *)

\* A spawned thread takes one idle slot and leaves every other loop alone.
LEMMA SpawnTakesIdle ==
  ASSUME NEW o, Spawn(o)
  PROVE  \E l \in IdleLoops : /\ pc' = [pc EXCEPT ![l] = "init"]
                              /\ runs' = [runs EXCEPT ![l] = o]
                              /\ made' = made
  BY DEF Spawn, IdleLoops

\* A new mission is given an object that no thread and no id refers to.
LEMMA FreshObject ==
  ASSUME NEW i \in Missions, StartNew(i)
  PROVE  \E o \in FreeObjs :
           /\ registry' = [registry EXCEPT ![i] = o]
           /\ mid' = [mid EXCEPT ![o] = i]
           /\ status' = [status EXCEPT ![o] = "initializing"]
           /\ stopping' = [stopping EXCEPT ![o] = FALSE]
           /\ cont' = [cont EXCEPT ![o] = None]
           /\ trips' = [trips EXCEPT ![o] = 0]
           /\ Spawn(o)
           /\ PersistDue
           /\ UNCHANGED <<docker, destroying, gcVars>>
<1> DEFINE o == CHOOSE x \in Objs : x \in FreeObjs
<1>1. o \in FreeObjs
  BY DEF StartNew, FreeObjs
<1> QED
  BY <1>1 DEF StartNew

----------------------------------------------------------------------------
(* Types.                                                                   *)

\* Every variable keeps its type under every step.
LEMMA TypeStep == TypeOK /\ [Next]_vars => TypeOK'
<1> SUFFICES ASSUME TypeOK, [Next]_vars PROVE TypeOK'
  OBVIOUS
<1> USE DEF TypeOK, Statuses, Active, Finished, Steps, Trips
<1>1. ASSUME NEW i \in Missions, StartNew(i) PROVE TypeOK'
  <2>1. PICK o \in FreeObjs :
           /\ registry' = [registry EXCEPT ![i] = o]
           /\ mid' = [mid EXCEPT ![o] = i]
           /\ status' = [status EXCEPT ![o] = "initializing"]
           /\ stopping' = [stopping EXCEPT ![o] = FALSE]
           /\ cont' = [cont EXCEPT ![o] = None]
           /\ trips' = [trips EXCEPT ![o] = 0]
           /\ Spawn(o)
           /\ PersistDue
           /\ UNCHANGED <<docker, destroying, gcVars>>
    BY <1>1, FreshObject
  <2>2. o \in Objs
    BY DEF FreeObjs
  <2>3. PICK l \in IdleLoops : /\ pc' = [pc EXCEPT ![l] = "init"]
                               /\ runs' = [runs EXCEPT ![l] = o]
                               /\ made' = made
    BY <2>1, SpawnTakesIdle
  <2>4. /\ stopping' \in [Objs -> BOOLEAN]
        /\ trips' \in [Objs -> Trips]
    BY <2>1, <2>2
  <2>5. /\ registry' \in [Missions -> Objs \cup {None}]
        /\ mid' \in [Objs -> Missions \cup {None}]
        /\ status' \in [Objs -> Statuses]
        /\ cont' \in [Objs -> Conts \cup {None}]
    BY <2>1, <2>2
  <2>6. /\ pc' \in [Loops -> Steps]
        /\ runs' \in [Loops -> Objs \cup {None}]
        /\ made' \in [Loops -> Conts \cup {None}]
    BY <2>2, <2>3
  <2> QED
    BY <2>1, <2>4, <2>5, <2>6 DEF PersistDue, gcVars
<1>2. ASSUME NEW i \in Missions, StartAgain(i) \/ Resume(i) PROVE TypeOK'
  <2>1. registry[i] \in Objs /\ Spawn(registry[i])
    BY <1>2 DEF StartAgain, Resume, Registered
  <2>2. PICK l \in IdleLoops : /\ pc' = [pc EXCEPT ![l] = "init"]
                               /\ runs' = [runs EXCEPT ![l] = registry[i]]
                               /\ made' = made
    BY <2>1, SpawnTakesIdle
  <2> QED
    BY <1>2, <2>1, <2>2 DEF StartAgain, Resume, PersistDue, gcVars
<1>3. ASSUME NEW i \in Missions, Pause(i) \/ Stop(i) \/ Delete(i) PROVE TypeOK'
  <2>1. CASE Pause(i)
    BY <2>1 DEF Pause, Registered, PersistDue, loopVars, gcVars
  <2>2. CASE Stop(i)
    BY <2>2 DEF Stop, Registered, PersistDue, loopVars, gcVars
  <2>3. CASE Delete(i)
    BY <2>3 DEF Delete, Registered, PersistDue, loopVars, gcVars
  <2> QED
    BY <1>3, <2>1, <2>2, <2>3
<1>4. ASSUME NEW l \in Loops, LoopInit(l) \/ LoopRunFails(l) \/ LoopAdopt(l) \/ LoopElect(l)
      PROVE  TypeOK'
  BY <1>4 DEF LoopInit, LoopRunFails, LoopAdopt, LoopElect, GoTo, End, SetStatus,
              objVars, gcVars, saveVars
<1>5. ASSUME NEW l \in Loops, LoopRun(l) PROVE TypeOK'
  <2> DEFINE c == CHOOSE x \in Conts : x \in FreeConts
  <2>1. c \in Conts
    BY <1>5 DEF LoopRun, FreeConts
  <2> QED
    BY <1>5, <2>1 DEF LoopRun, objVars, gcVars, saveVars
<1>6. ASSUME NEW l \in Loops, LoopCheck(l) \/ LoopTop(l) PROVE TypeOK'
  BY <1>6 DEF LoopCheck, LoopTop, GoTo, End, objVars, gcVars, saveVars
<1>7. ASSUME NEW l \in Loops, LoopAnswered(l) PROVE TypeOK'
  <2>1. trips' \in [Objs -> Trips]
    <3>1. /\ DOMAIN trips' = Objs
          /\ \A o \in Objs : trips'[o] \in {trips[o], IF trips[o] = 2 THEN 2 ELSE trips[o] + 1}
      BY <1>7 DEF LoopAnswered
    <3>2. \A o \in Objs : trips'[o] \in Trips
      BY <3>1
    <3>3. trips' = [o \in Objs |-> trips'[o]]
      BY <1>7 DEF LoopAnswered
    <3> QED
      BY <3>2, <3>3
  <2> QED
    BY <1>7, <2>1 DEF LoopAnswered, GoTo, gcVars
<1>8. ASSUME NEW l \in Loops,
             LoopSilence(l) \/ LoopFinish(l) \/ LoopComplete(l) \/ LoopCrash(l)
      PROVE  TypeOK'
  BY <1>8 DEF LoopSilence, LoopFinish, LoopComplete, LoopCrash, GoTo, End, SetStatus,
              objVars, gcVars, saveVars
<1>9. ASSUME NEW o \in Objs, Destroy(o) PROVE TypeOK'
  BY <1>9 DEF Destroy, objVars, loopVars, gcVars, saveVars
<1>10. ASSUME GcStart \/ GcList \/ GcQueryFails \/ GcDone PROVE TypeOK'
  BY <1>10 DEF GcStart, GcList, GcQueryFails, GcDone, Registered, objVars, loopVars, saveVars
<1>11. ASSUME NEW i \in Missions, GcRemove(i) PROVE TypeOK'
  BY <1>11 DEF GcRemove, objVars, loopVars, saveVars
<1>12. ASSUME SaveSnapshot \/ WatchdogSave PROVE TypeOK'
  BY <1>12 DEF SaveSnapshot, WatchdogSave, PersistDue, Registered, objVars, loopVars, gcVars
<1>13. ASSUME NEW s \in saves, SaveWrite(s) PROVE TypeOK'
  BY <1>13 DEF SaveWrite, objVars, loopVars, gcVars
<1>14. ASSUME Restart PROVE TypeOK'
  <2>1. /\ registry' \in [Missions -> Objs \cup {None}]
        /\ mid' \in [Objs -> Missions \cup {None}]
        /\ status' \in [Objs -> Statuses]
        /\ cont' \in [Objs -> Conts \cup {None}]
        /\ trips' \in [Objs -> Trips]
    BY <1>14 DEF Restart
  <2>2. stopping' \in [Objs -> BOOLEAN] /\ due' \in BOOLEAN
    BY <1>14 DEF Restart
  <2>3. /\ pc' \in [Loops -> Steps]
        /\ runs' \in [Loops -> Objs \cup {None}]
        /\ made' \in [Loops -> Conts \cup {None}]
        /\ docker' \in [Missions -> Conts \cup {None}]
        /\ destroying' \subseteq Objs
        /\ gcPc' \in {"idle", "ps", "rm"} /\ gcSet' \subseteq Missions
    BY <1>14 DEF Restart
  <2>4. disk' \subseteq Missions /\ saves' \subseteq SUBSET Missions /\ restarts' \in Nat
    BY <1>14 DEF Restart
  <2> QED
    BY <2>1, <2>2, <2>3, <2>4
<1>15. ASSUME UNCHANGED vars PROVE TypeOK'
  BY <1>15 DEF vars, objVars, loopVars, gcVars, saveVars
<1> QED
  BY <1>1, <1>2, <1>3, <1>4, <1>5, <1>6, <1>7, <1>8, <1>9, <1>10, <1>11, <1>12, <1>13,
     <1>14, <1>15
  DEF Next, Facade, LoopStep

\* Type correctness of the whole mission subsystem.
THEOREM TypeCorrect == Spec => []TypeOK
<1>1. Init => TypeOK
  <2> SUFFICES ASSUME Init PROVE TypeOK
    OBVIOUS
  <2> USE DEF Init, Statuses, Active, Finished, Steps, Trips
  <2>1. /\ registry \in [Missions -> Objs \cup {None}]
        /\ mid \in [Objs -> Missions \cup {None}]
        /\ status \in [Objs -> Statuses]
        /\ cont \in [Objs -> Conts \cup {None}]
        /\ trips \in [Objs -> Trips]
    OBVIOUS
  <2>2. /\ pc \in [Loops -> Steps]
        /\ runs \in [Loops -> Objs \cup {None}]
        /\ made \in [Loops -> Conts \cup {None}]
        /\ docker \in [Missions -> Conts \cup {None}]
        /\ destroying \subseteq Objs
        /\ gcPc \in {"idle", "ps", "rm"} /\ gcSet \subseteq Missions
    OBVIOUS
  <2>3. stopping \in [Objs -> BOOLEAN] /\ due \in BOOLEAN
    OBVIOUS
  <2>4. disk \subseteq Missions /\ saves \subseteq SUBSET Missions /\ restarts \in Nat
    OBVIOUS
  <2> QED
    BY <2>1, <2>2, <2>3, <2>4 DEF TypeOK
<1> QED
  BY <1>1, TypeStep, PTL DEF Spec

----------------------------------------------------------------------------
(* The inductive invariant. ActiveHasLoop alone is not inductive: a step of *)
(* the mission loop moves an object from "initializing" to "running", and   *)
(* that "initializing" object must still be in the hands of a loop that has *)
(* not elected its showrunner, or the loop could leave without touching it. *)

Starting == {"init", "run", "adopt", "elect"}

ThreadsWork ==
  \A l \in Loops : /\ pc[l] = "idle" <=> runs[l] = None
                   /\ pc[l] = "adopt" => made[l] # None

ActiveWorked ==
  \A o \in Objs : mid[o] # None =>
    /\ status[o] = "initializing" => \E l \in Loops : runs[l] = o /\ pc[l] \in Starting
    /\ status[o] = "running" => \E l \in Loops : runs[l] = o

RegisteredCreated == \A i \in Missions : registry[i] # None => mid[registry[i]] # None

LoopInv == ThreadsWork /\ RoundsHaveContainer
WorkInv == ActiveWorked /\ RegisteredCreated
IInv == TypeOK /\ LoopInv /\ WorkInv

\* A spawned loop starts at "init", with an object of its own.
LEMMA SpawnKeepsLoopInv ==
  ASSUME TypeOK, LoopInv, NEW o \in Objs, Spawn(o),
         \A l \in Loops : runs[l] # None => cont'[runs[l]] = cont[runs[l]]
  PROVE  LoopInv'
<1>1. PICK l \in IdleLoops : /\ pc' = [pc EXCEPT ![l] = "init"]
                             /\ runs' = [runs EXCEPT ![l] = o]
                             /\ made' = made
  BY SpawnTakesIdle
<1> QED
  BY <1>1, NoneAssumption
  DEF LoopInv, ThreadsWork, RoundsHaveContainer, TypeOK, IdleLoops, Steps

\* Threads and containers: a slot is idle iff it has no object, and past the
\* election every loop knows its mission's container.
LEMMA LoopInvStep == TypeOK /\ LoopInv /\ [Next]_vars => LoopInv'
<1> SUFFICES ASSUME TypeOK, LoopInv, [Next]_vars PROVE LoopInv'
  OBVIOUS
<1>1. ASSUME NEW i \in Missions, StartNew(i) PROVE LoopInv'
  <2>1. PICK o \in FreeObjs : Spawn(o) /\ cont' = [cont EXCEPT ![o] = None]
    BY <1>1, FreshObject
  <2>2. o \in Objs /\ \A l \in Loops : runs[l] # o
    BY DEF FreeObjs, RunsOn
  <2>3. \A l \in Loops : runs[l] # None => cont'[runs[l]] = cont[runs[l]]
    BY <2>1, <2>2 DEF TypeOK
  <2> QED
    BY <2>1, <2>2, <2>3, SpawnKeepsLoopInv
<1>2. ASSUME NEW i \in Missions, StartAgain(i) \/ Resume(i) PROVE LoopInv'
  <2>1. registry[i] \in Objs /\ Spawn(registry[i]) /\ cont' = cont
    BY <1>2 DEF StartAgain, Resume, Registered, TypeOK
  <2> QED
    BY <2>1, SpawnKeepsLoopInv
<1>3. ASSUME UNCHANGED <<pc, runs, made, cont>> PROVE LoopInv'
  BY <1>3 DEF LoopInv, ThreadsWork, RoundsHaveContainer
<1>4. ASSUME NEW l \in Loops, LoopStep(l) \/ LoopCrash(l) PROVE LoopInv'
  <2> USE DEF LoopInv, ThreadsWork, RoundsHaveContainer, TypeOK, Steps
  <2>1. ASSUME pc[l] # "idle", UNCHANGED cont, End(l) PROVE LoopInv'
    BY <2>1 DEF End
  <2>2. ASSUME NEW step \in Steps \ {"idle", "adopt"}, GoTo(l, step), UNCHANGED cont,
               pc[l] # "idle",
               step \in {"init", "run"} \/ cont[runs[l]] # None
        PROVE  LoopInv'
    BY <2>2 DEF GoTo
  <2>3. CASE LoopInit(l)
    BY <2>3, <2>2 DEF LoopInit, objVars
  <2>4. CASE LoopRun(l)
    <3> DEFINE c == CHOOSE x \in Conts : x \in FreeConts
    <3>1. c \in Conts /\ c # None
      BY <2>4, NoneAssumption DEF LoopRun, FreeConts
    <3> QED
      BY <2>4, <3>1 DEF LoopRun, objVars
  <2>5. CASE LoopAdopt(l)
    BY <2>5, NoneAssumption DEF LoopAdopt
  <2>6. CASE LoopElect(l) \/ LoopCheck(l)
    BY <2>6, <2>1, <2>2 DEF LoopElect, LoopCheck, SetStatus, objVars
  <2>7. CASE LoopTop(l) \/ LoopAnswered(l)
    BY <2>7, <2>2 DEF LoopTop, LoopAnswered, objVars
  <2>8. CASE LoopSilence(l) \/ LoopFinish(l)
    BY <2>8, <2>1, <2>2 DEF LoopSilence, LoopFinish, SetStatus, objVars
  <2>9. CASE LoopComplete(l) \/ LoopCrash(l) \/ LoopRunFails(l)
    BY <2>9, <2>1 DEF LoopComplete, LoopCrash, LoopRunFails, SetStatus
  <2> QED
    BY <1>4, <2>3, <2>4, <2>5, <2>6, <2>7, <2>8, <2>9 DEF LoopStep
<1>5. ASSUME Restart PROVE LoopInv'
  BY <1>5 DEF Restart, LoopInv, ThreadsWork, RoundsHaveContainer, Steps
<1>6. ASSUME NEW i \in Missions, Pause(i) \/ Stop(i) \/ Delete(i)
      PROVE  UNCHANGED <<pc, runs, made, cont>>
  BY <1>6 DEF Pause, Stop, Delete, loopVars
<1>7. ASSUME NEW o \in Objs, Destroy(o) PROVE UNCHANGED <<pc, runs, made, cont>>
  BY <1>7 DEF Destroy, loopVars, objVars
<1>8. ASSUME GcStart \/ GcList \/ GcQueryFails \/ GcDone
      PROVE  UNCHANGED <<pc, runs, made, cont>>
  BY <1>8 DEF GcStart, GcList, GcQueryFails, GcDone, loopVars, objVars
<1>9. ASSUME NEW i \in Missions, GcRemove(i) PROVE UNCHANGED <<pc, runs, made, cont>>
  BY <1>9 DEF GcRemove, loopVars, objVars
<1>10. ASSUME SaveSnapshot \/ WatchdogSave PROVE UNCHANGED <<pc, runs, made, cont>>
  BY <1>10 DEF SaveSnapshot, WatchdogSave, loopVars, objVars
<1>11. ASSUME NEW s \in saves, SaveWrite(s) PROVE UNCHANGED <<pc, runs, made, cont>>
  BY <1>11 DEF SaveWrite, loopVars, objVars
<1>12. ASSUME UNCHANGED vars PROVE UNCHANGED <<pc, runs, made, cont>>
  BY <1>12 DEF vars, loopVars, objVars
<1> QED
  BY <1>1, <1>2, <1>3, <1>4, <1>5, <1>6, <1>7, <1>8, <1>9, <1>10, <1>11, <1>12
  DEF Next, Facade

\* A spawned loop leaves the witnesses of the other objects alone.
LEMMA SpawnKeepsActiveWorked ==
  ASSUME TypeOK, LoopInv, ActiveWorked, NEW o \in Objs, Spawn(o),
         \A p \in Objs \ {o} : mid'[p] = mid[p] /\ status'[p] = status[p]
  PROVE  ActiveWorked'
<1>1. PICK l \in IdleLoops : /\ pc' = [pc EXCEPT ![l] = "init"]
                             /\ runs' = [runs EXCEPT ![l] = o]
                             /\ made' = made
  BY SpawnTakesIdle
<1>2. l \in Loops /\ runs[l] = None /\ pc[l] = "idle"
  BY <1>1 DEF IdleLoops, LoopInv, ThreadsWork
<1>3. runs'[l] = o /\ pc'[l] \in Starting
  BY <1>1, <1>2 DEF TypeOK, Starting
<1>4. \A k \in Loops : runs[k] # None => runs'[k] = runs[k] /\ pc'[k] = pc[k]
  BY <1>1, <1>2 DEF TypeOK
<1> QED
  BY <1>2, <1>3, <1>4, NoneAssumption DEF ActiveWorked

\* A loop that leaves has taken its mission out of the active statuses.
LEMMA EndKeepsActiveWorked ==
  ASSUME TypeOK, ActiveWorked, NEW l \in Loops, NEW s \in Statuses \ Active,
         End(l), status' = [status EXCEPT ![runs[l]] = s], UNCHANGED mid
  PROVE  ActiveWorked'
  BY DEF ActiveWorked, End, TypeOK, Active

\* Every registered object was created, and one whose status is active is in
\* the hands of a loop.
LEMMA WorkInvStep == TypeOK /\ LoopInv /\ WorkInv /\ [Next]_vars => WorkInv'
<1> SUFFICES ASSUME TypeOK, LoopInv, WorkInv, [Next]_vars PROVE WorkInv'
  OBVIOUS
<1>1. ASSUME NEW i \in Missions, StartNew(i) PROVE WorkInv'
  <2>1. PICK o \in FreeObjs : /\ Spawn(o)
                              /\ registry' = [registry EXCEPT ![i] = o]
                              /\ mid' = [mid EXCEPT ![o] = i]
                              /\ status' = [status EXCEPT ![o] = "initializing"]
    BY <1>1, FreshObject
  <2>2. o \in Objs
    BY DEF FreeObjs
  <2>3. ActiveWorked'
    BY <2>1, <2>2, SpawnKeepsActiveWorked DEF WorkInv, TypeOK
  <2>4. RegisteredCreated'
    BY <2>1, <2>2, NoneAssumption DEF WorkInv, RegisteredCreated, TypeOK
  <2> QED
    BY <2>3, <2>4 DEF WorkInv
<1>2. ASSUME NEW i \in Missions, StartAgain(i) \/ Resume(i) PROVE WorkInv'
  <2>1. /\ registry[i] \in Objs /\ Spawn(registry[i])
        /\ status' = [status EXCEPT ![registry[i]] = "running"]
        /\ UNCHANGED <<mid, registry>>
    BY <1>2 DEF StartAgain, Resume, Registered, TypeOK
  <2>2. ActiveWorked'
    BY <2>1, SpawnKeepsActiveWorked DEF WorkInv, TypeOK
  <2> QED
    BY <2>1, <2>2 DEF WorkInv, RegisteredCreated
<1>3. ASSUME NEW i \in Missions, Pause(i) \/ Stop(i) PROVE WorkInv'
  BY <1>3 DEF Pause, Stop, WorkInv, ActiveWorked, RegisteredCreated, TypeOK, loopVars
<1>4. ASSUME NEW i \in Missions, Delete(i) PROVE WorkInv'
  BY <1>4 DEF Delete, WorkInv, ActiveWorked, RegisteredCreated, TypeOK, loopVars
<1>5. ASSUME NEW l \in Loops, LoopStep(l) \/ LoopCrash(l) PROVE WorkInv'
  <2>1. RegisteredCreated'
    BY <1>5 DEF LoopStep, LoopInit, LoopRun, LoopRunFails, LoopAdopt, LoopElect, LoopCheck,
                LoopTop, LoopAnswered, LoopSilence, LoopFinish, LoopComplete, LoopCrash,
                SetStatus, objVars, WorkInv, RegisteredCreated
  <2>2. ActiveWorked'
    <3> USE DEF WorkInv
    <3>1. ASSUME NEW step \in Steps, UNCHANGED <<runs, mid, status>>,
                 pc' = [pc EXCEPT ![l] = step],
                 pc[l] \in Starting => step \in Starting
          PROVE  ActiveWorked'
      BY <3>1 DEF ActiveWorked, TypeOK
    <3>2. ASSUME NEW s \in Statuses \ Active, SetStatus(l, s), End(l)
          PROVE  ActiveWorked'
      BY <3>2, EndKeepsActiveWorked DEF SetStatus
    <3>3. CASE LoopInit(l) \/ LoopRun(l) \/ LoopAdopt(l)
      BY <3>3, <3>1 DEF LoopInit, LoopRun, LoopAdopt, GoTo, objVars, Starting, Steps
    <3>4. CASE LoopElect(l)
      <4>1. ASSUME SetStatus(l, "running"), GoTo(l, "check") PROVE ActiveWorked'
        BY <4>1 DEF SetStatus, GoTo, ActiveWorked, TypeOK
      <4> QED
        BY <3>4, <4>1, <3>2 DEF LoopElect, Statuses, Active, Finished
    <3>5. CASE LoopCheck(l)
      <4>1. ASSUME pc[l] = "check", status[runs[l]] # "running", End(l), UNCHANGED objVars
            PROVE  ActiveWorked'
        BY <4>1 DEF End, ActiveWorked, TypeOK, objVars, Starting
      <4> QED
        BY <3>5, <4>1, <3>1 DEF LoopCheck, GoTo, objVars, Starting, Steps
    <3>6. CASE LoopTop(l)
      BY <3>6, <3>1 DEF LoopTop, GoTo, objVars, Starting, Steps
    <3>7. CASE LoopAnswered(l)
      <4>1. ASSUME pc[l] = "ask", GoTo(l, "finish"), UNCHANGED mid,
                   status' = [status EXCEPT ![runs[l]] = "completed"]
            PROVE  ActiveWorked'
        BY <4>1 DEF GoTo, ActiveWorked, TypeOK, Starting
      <4> QED
        BY <3>7, <4>1, <3>1 DEF LoopAnswered, GoTo, Starting, Steps
    <3>8. CASE LoopSilence(l) \/ LoopFinish(l)
      BY <3>8, <3>1, <3>2
      DEF LoopSilence, LoopFinish, GoTo, objVars, Starting, Steps, Statuses, Active, Finished
    <3>9. CASE LoopComplete(l) \/ LoopCrash(l) \/ LoopRunFails(l)
      BY <3>9, <3>2 DEF LoopComplete, LoopCrash, LoopRunFails, Statuses, Active, Finished
    <3> QED
      BY <1>5, <3>3, <3>4, <3>5, <3>6, <3>7, <3>8, <3>9 DEF LoopStep
  <2> QED
    BY <2>1, <2>2 DEF WorkInv
<1>6. ASSUME Restart PROVE WorkInv'
  <2>1. ActiveWorked'
    BY <1>6 DEF Restart, ActiveWorked
  <2>2. RegisteredCreated'
    BY <1>6, NoneAssumption DEF Restart, RegisteredCreated, TypeOK
  <2> QED
    BY <2>1, <2>2 DEF WorkInv
<1>7. ASSUME UNCHANGED <<registry, mid, status, pc, runs>> PROVE WorkInv'
  BY <1>7 DEF WorkInv, ActiveWorked, RegisteredCreated
<1>8. ASSUME NEW o \in Objs, Destroy(o) PROVE UNCHANGED <<registry, mid, status, pc, runs>>
  BY <1>8 DEF Destroy, loopVars, objVars
<1>9. ASSUME GcStart \/ GcList \/ GcQueryFails \/ GcDone
      PROVE  UNCHANGED <<registry, mid, status, pc, runs>>
  BY <1>9 DEF GcStart, GcList, GcQueryFails, GcDone, loopVars, objVars
<1>10. ASSUME NEW i \in Missions, GcRemove(i)
       PROVE  UNCHANGED <<registry, mid, status, pc, runs>>
  BY <1>10 DEF GcRemove, loopVars, objVars
<1>11. ASSUME SaveSnapshot \/ WatchdogSave PROVE UNCHANGED <<registry, mid, status, pc, runs>>
  BY <1>11 DEF SaveSnapshot, WatchdogSave, loopVars, objVars
<1>12. ASSUME NEW s \in saves, SaveWrite(s)
       PROVE  UNCHANGED <<registry, mid, status, pc, runs>>
  BY <1>12 DEF SaveWrite, loopVars, objVars
<1>13. ASSUME UNCHANGED vars PROVE UNCHANGED <<registry, mid, status, pc, runs>>
  BY <1>13 DEF vars, loopVars, objVars
<1> QED
  BY <1>1, <1>2, <1>3, <1>4, <1>5, <1>6, <1>7, <1>8, <1>9, <1>10, <1>11, <1>12, <1>13
  DEF Next, Facade

\* The inductive invariant holds for ever.
THEOREM Inductive == Spec => []IInv
<1>1. Init => LoopInv /\ WorkInv
  BY DEF Init, LoopInv, WorkInv, ThreadsWork, RoundsHaveContainer, ActiveWorked,
         RegisteredCreated, Steps
<1> QED
  BY <1>1, TypeCorrect, LoopInvStep, WorkInvStep, PTL DEF Spec, IInv

\* No mission looks alive with nobody working on it.
THEOREM NoZombieMission == Spec => []ActiveHasLoop
<1>1. IInv => ActiveHasLoop
  BY DEF IInv, WorkInv, ActiveWorked, RegisteredCreated, ActiveHasLoop, ActiveMissions,
         Registered, RunsOn, Active, TypeOK
<1> QED
  BY <1>1, Inductive, PTL

\* No loop works on without a container.
THEOREM ContainerKnown == Spec => []RoundsHaveContainer
<1>1. IInv => RoundsHaveContainer
  BY DEF IInv, LoopInv
<1> QED
  BY <1>1, Inductive, PTL

----------------------------------------------------------------------------
(* A stopped loop moves on: what StopEnds rests on besides fairness.        *)

\* How many steps a loop has left at most once its mission is told to stop. From "ask" it
\* comes back to "round", where it finds that it must finish.
StepsLeft == [s \in Steps |->
  CASE s = "init"       -> 9
    [] s = "run"        -> 8
    [] s = "adopt"      -> 7
    [] s = "elect"      -> 6
    [] s = "check"      -> 5
    [] s = "ask"        -> 4
    [] s = "round"      -> 3
    [] s = "finish"     -> 2
    [] s = "completing" -> 1
    [] s = "idle"       -> 0]

\* As long as a mission is told to stop no loop joins it, and those it has only come
\* nearer to their ends, by each of their steps.
StoppedMoveOn ==
  \A o \in Objs : stopping[o] /\ stopping'[o] =>
    /\ RunsOn(o)' \subseteq RunsOn(o)
    /\ \A l \in RunsOn(o) :
         /\ StepsLeft[pc'[l]] <= StepsLeft[pc[l]]
         /\ LoopStep(l) \/ LoopCrash(l) => StepsLeft[pc'[l]] < StepsLeft[pc[l]]

\* A step of a loop is about that loop alone, which keeps its object or ends.
LEMMA OneThread ==
  ASSUME TypeOK, NEW l \in Loops, LoopStep(l) \/ LoopCrash(l)
  PROVE  \A k \in Loops : /\ k # l => pc'[k] = pc[k] /\ runs'[k] = runs[k]
                          /\ runs'[k] \in {runs[k], None}
<1> USE DEF TypeOK
<1>1. ASSUME NEW s, pc' = [pc EXCEPT ![l] = s], runs' = runs
      PROVE  \A k \in Loops : /\ k # l => pc'[k] = pc[k] /\ runs'[k] = runs[k]
                              /\ runs'[k] \in {runs[k], None}
  BY <1>1
<1>2. ASSUME End(l)
      PROVE  \A k \in Loops : /\ k # l => pc'[k] = pc[k] /\ runs'[k] = runs[k]
                              /\ runs'[k] \in {runs[k], None}
  BY <1>2 DEF End
<1>3. CASE LoopInit(l) \/ LoopRun(l) \/ LoopAdopt(l) \/ LoopTop(l) \/ LoopAnswered(l)
  BY <1>1, <1>3 DEF LoopInit, LoopRun, LoopAdopt, LoopTop, LoopAnswered, GoTo
<1>4. CASE LoopElect(l) \/ LoopCheck(l) \/ LoopSilence(l) \/ LoopFinish(l)
  BY <1>1, <1>2, <1>4 DEF LoopElect, LoopCheck, LoopSilence, LoopFinish, GoTo
<1>5. CASE LoopRunFails(l) \/ LoopComplete(l) \/ LoopCrash(l)
  BY <1>2, <1>5 DEF LoopRunFails, LoopComplete, LoopCrash
<1> QED
  BY <1>3, <1>4, <1>5 DEF LoopStep

LEMMA StepsAre ==
  /\ StepsLeft["init"] = 9 /\ StepsLeft["run"] = 8 /\ StepsLeft["adopt"] = 7
  /\ StepsLeft["elect"] = 6 /\ StepsLeft["check"] = 5 /\ StepsLeft["ask"] = 4
  /\ StepsLeft["round"] = 3 /\ StepsLeft["finish"] = 2 /\ StepsLeft["completing"] = 1
  /\ StepsLeft["idle"] = 0
BY DEF StepsLeft, Steps

\* Told to stop, a loop never begins another round.
LEMMA StoppedLoop ==
  ASSUME TypeOK, NEW l \in Loops, runs[l] # None, stopping[runs[l]], LoopStep(l) \/ LoopCrash(l)
  PROVE  StepsLeft[pc'[l]] < StepsLeft[pc[l]]
<1> USE DEF TypeOK
<1>1. ASSUME NEW s \in Steps, pc' = [pc EXCEPT ![l] = s], StepsLeft[s] < StepsLeft[pc[l]]
      PROVE  StepsLeft[pc'[l]] < StepsLeft[pc[l]]
  BY <1>1
<1>2. ASSUME End(l), pc[l] # "idle"
      PROVE  StepsLeft[pc'[l]] < StepsLeft[pc[l]]
  BY <1>2 DEF End, StepsLeft, Steps
\* The steps a stopped loop may take.
<1>3. ASSUME NEW a \in Steps, NEW b \in Steps, pc[l] = a, pc' = [pc EXCEPT ![l] = b],
             <<a, b>> \in {<<"init", "run">>, <<"init", "elect">>, <<"run", "adopt">>,
                          <<"adopt", "elect">>, <<"elect", "check">>, <<"check", "round">>,
                          <<"round", "finish">>, <<"ask", "round">>, <<"ask", "completing">>,
                          <<"ask", "finish">>, <<"finish", "completing">>}
      PROVE  StepsLeft[pc'[l]] < StepsLeft[pc[l]]
  <2>1. StepsLeft[b] < StepsLeft[a]
    BY <1>3, StepsAre
  <2> QED
    BY <1>1, <1>3, <2>1
<1>4. CASE LoopInit(l) \/ LoopRun(l) \/ LoopAdopt(l)
  <2>1. \/ pc[l] = "init" /\ \E b \in {"run", "elect"} : pc' = [pc EXCEPT ![l] = b]
        \/ pc[l] = "run" /\ pc' = [pc EXCEPT ![l] = "adopt"]
        \/ pc[l] = "adopt" /\ pc' = [pc EXCEPT ![l] = "elect"]
    BY <1>4 DEF LoopInit, LoopRun, LoopAdopt, GoTo
  <2> QED
    BY <1>3, <2>1 DEF Steps
<1>5. CASE LoopElect(l) \/ LoopCheck(l)
  <2>1. \/ pc[l] = "elect" /\ (End(l) \/ pc' = [pc EXCEPT ![l] = "check"])
        \/ pc[l] = "check" /\ (End(l) \/ pc' = [pc EXCEPT ![l] = "round"])
    BY <1>5 DEF LoopElect, LoopCheck, GoTo
  <2> QED
    BY <1>2, <1>3, <2>1 DEF Steps
<1>6. CASE LoopTop(l)
  <2>1. pc[l] = "round" /\ GoTo(l, "finish")
    BY <1>6 DEF LoopTop, MustStop
  <2> QED
    BY <1>3, <2>1 DEF GoTo, Steps
<1>7. CASE LoopAnswered(l)
  <2>1. pc[l] = "ask" /\ \E b \in {"round", "completing", "finish"} : pc' = [pc EXCEPT ![l] = b]
    BY <1>7 DEF LoopAnswered, GoTo
  <2> QED
    BY <1>3, <2>1 DEF Steps
<1>8. CASE LoopSilence(l) \/ LoopFinish(l)
  <2>1. \/ pc[l] = "ask" /\ (End(l) \/ pc' = [pc EXCEPT ![l] = "round"])
        \/ pc[l] = "finish" /\ (End(l) \/ pc' = [pc EXCEPT ![l] = "completing"])
    BY <1>8 DEF LoopSilence, LoopFinish, GoTo
  <2> QED
    BY <1>2, <1>3, <2>1 DEF Steps
<1>9. CASE LoopRunFails(l) \/ LoopComplete(l) \/ LoopCrash(l)
  BY <1>2, <1>9 DEF LoopRunFails, LoopComplete, LoopCrash
<1> QED
  BY <1>4, <1>5, <1>6, <1>7, <1>8, <1>9 DEF LoopStep

\* A spawned loop works for an object that is no longer told to stop.
LEMMA SpawnIsElsewhere ==
  ASSUME TypeOK, LoopInv, NEW p, Spawn(p), NEW o \in Objs, o # p
  PROVE  RunsOn(o)' \subseteq RunsOn(o) /\ \A l \in RunsOn(o) : pc'[l] = pc[l]
<1>1. PICK l \in IdleLoops : pc' = [pc EXCEPT ![l] = "init"] /\ runs' = [runs EXCEPT ![l] = p]
  BY SpawnTakesIdle
<1>2. l \in Loops /\ runs[l] = None
  BY <1>1 DEF IdleLoops, LoopInv, ThreadsWork
<1>3. o # None
  BY NoneAssumption
<1> QED
  BY <1>1, <1>2, <1>3 DEF RunsOn, TypeOK

\* A mission that is paused, stopped or deleted is left by its loops one after the other:
\* none joins it, and each has at most nine steps left, whatever the others do, unless the
\* user starts it again or nCore dies.
THEOREM StoppedLoopsMoveOn == Spec => [][StoppedMoveOn]_vars
<1>1. IInv /\ [Next]_vars => [StoppedMoveOn]_vars
  <2> SUFFICES ASSUME IInv, [Next]_vars, NEW o \in Objs, stopping[o], stopping'[o]
               PROVE  /\ RunsOn(o)' \subseteq RunsOn(o)
                      /\ \A l \in RunsOn(o) :
                           /\ StepsLeft[pc'[l]] <= StepsLeft[pc[l]]
                           /\ LoopStep(l) \/ LoopCrash(l) => StepsLeft[pc'[l]] < StepsLeft[pc[l]]
    BY DEF StoppedMoveOn
  <2>1. TypeOK /\ LoopInv /\ o # None
    BY NoneAssumption DEF IInv
  <2>2. ASSUME NEW l \in RunsOn(o), LoopStep(l) \/ LoopCrash(l)
        PROVE  StepsLeft[pc'[l]] < StepsLeft[pc[l]]
    <3>1. l \in Loops /\ runs[l] = o
      BY DEF RunsOn
    <3> QED
      BY <2>1, <2>2, <3>1, StoppedLoop
  <2>3. \A l \in RunsOn(o) : StepsLeft[pc[l]] \in Nat
    BY <2>1 DEF TypeOK, RunsOn, StepsLeft, Steps
  <2>4. RunsOn(o)' \subseteq RunsOn(o) /\ \A l \in RunsOn(o) : pc'[l] = pc[l]
          \/ LoopStep(l) \/ LoopCrash(l)
    <3>1. CASE UNCHANGED <<pc, runs>>
      BY <3>1 DEF RunsOn
    <3>2. ASSUME NEW k \in Loops, LoopStep(k) \/ LoopCrash(k)
          PROVE  RunsOn(o)' \subseteq RunsOn(o) /\ \A l \in RunsOn(o) : pc'[l] = pc[l] \/ l = k
      BY <2>1, <3>2, OneThread DEF RunsOn
    <3>3. ASSUME NEW p, Spawn(p), p # o
          PROVE  RunsOn(o)' \subseteq RunsOn(o) /\ \A l \in RunsOn(o) : pc'[l] = pc[l]
      BY <2>1, <3>3, SpawnIsElsewhere
    <3>4. ASSUME NEW i \in Missions, StartNew(i)
          PROVE  \E p : Spawn(p) /\ p # o
      <4>1. PICK p \in FreeObjs : stopping' = [stopping EXCEPT ![p] = FALSE] /\ Spawn(p)
        BY <3>4, FreshObject
      <4>2. p \in Objs
        BY DEF FreeObjs
      <4> QED
        BY <2>1, <4>1, <4>2 DEF TypeOK
    <3>5. ASSUME NEW i \in Missions, StartAgain(i) \/ Resume(i)
          PROVE  \E p : Spawn(p) /\ p # o
      <4>1. registry[i] \in Objs /\ stopping' = [stopping EXCEPT ![registry[i]] = FALSE]
            /\ Spawn(registry[i])
        BY <2>1, <3>5 DEF StartAgain, Resume, Registered, TypeOK
      <4> QED
        BY <2>1, <4>1 DEF TypeOK
    <3>6. ~Restart
      BY DEF Restart
    <3>7. ASSUME NEW i \in Missions, Pause(i) \/ Stop(i) \/ Delete(i) \/ GcRemove(i)
          PROVE  UNCHANGED <<pc, runs>>
      BY <3>7 DEF Pause, Stop, Delete, GcRemove, loopVars
    <3>8. ASSUME \/ \E p \in Objs : Destroy(p)
                 \/ GcStart \/ GcList \/ GcQueryFails \/ GcDone
                 \/ SaveSnapshot \/ WatchdogSave
                 \/ \E s \in saves : SaveWrite(s)
                 \/ UNCHANGED vars
          PROVE  UNCHANGED <<pc, runs>>
      BY <3>8 DEF Destroy, GcStart, GcList, GcQueryFails, GcDone, SaveSnapshot, WatchdogSave,
                  SaveWrite, vars, loopVars
    <3> QED
      BY <3>1, <3>2, <3>3, <3>4, <3>5, <3>6, <3>7, <3>8 DEF Next, Facade
  <2> QED
    <3>1. ASSUME NEW l \in RunsOn(o) PROVE StepsLeft[pc'[l]] <= StepsLeft[pc[l]]
      <4>1. CASE pc'[l] = pc[l]
        BY <2>3, <4>1
      <4>2. CASE LoopStep(l) \/ LoopCrash(l)
        <5>1. StepsLeft[pc'[l]] \in Nat
          BY <2>1, TypeStep DEF TypeOK, RunsOn, StepsLeft, Steps
        <5> QED
          BY <2>2, <2>3, <4>2, <5>1
      <4> QED
        BY <2>4, <4>1, <4>2
    <3> QED
      BY <2>2, <2>4, <3>1
<1> QED
  BY Inductive, <1>1, PTL DEF Spec

----------------------------------------------------------------------------
(* Orphaned containers: what OrphanCollected rests on besides fairness.     *)

\* A registered object was created for its id.
OwnName == \A i \in Missions : registry[i] # None => mid[registry[i]] = i

\* How far the collector is from removing the container of i: it is at it, has still to
\* list what there is, is idle, or is at a collection that leaves i out, because i was
\* registered when that began or because the list was taken before. Within a stage it
\* counts the containers it has still to remove.
Stage(i) == CASE gcPc = "rm" -> IF i \in gcSet THEN 1 ELSE 4
              [] gcPc = "ps" -> IF i \in gcSet THEN 5 ELSE 2
              [] OTHER       -> 3
CollectionLeft(i) ==
  Stage(i) * (Cardinality(Missions) + 1) + (IF gcPc = "rm" THEN Cardinality(gcSet) ELSE 0)

\* A step of the collector that has an answer from Docker.
Collects == GcStart \/ GcList \/ GcDone \/ \E j \in Missions : GcRemove(j)

\* An orphaned container stays what it is until it is removed, the user starts the
\* mission again or nCore restarts. Until then the collector only comes nearer to it, by
\* each of its steps but a query that fails.
OrphansFade ==
  \A i \in Missions : Orphaned(i) =>
    \/ docker'[i] = None
    \/ StartNew(i)
    \/ Restart
    \/ /\ Orphaned(i)' /\ docker'[i] = docker[i]
       /\ \/ GcQueryFails
          \/ CollectionLeft(i)' < CollectionLeft(i)
          \/ /\ ~Collects
             /\ CollectionLeft(i)' = CollectionLeft(i)

\* Every object is registered under the id it was created for.
LEMMA OwnNameStep == TypeOK /\ OwnName /\ [Next]_vars => OwnName'
<1> SUFFICES ASSUME TypeOK, OwnName, [Next]_vars PROVE OwnName'
  OBVIOUS
<1>1. ASSUME NEW i \in Missions, StartNew(i) PROVE OwnName'
  <2>1. PICK o \in FreeObjs : /\ registry' = [registry EXCEPT ![i] = o]
                              /\ mid' = [mid EXCEPT ![o] = i]
    BY <1>1, FreshObject
  <2>2. o \in Objs /\ \A j \in Missions : registry[j] # o
    BY DEF FreeObjs
  <2> QED
    BY <2>1, <2>2 DEF OwnName, TypeOK
<1>2. ASSUME NEW i \in Missions, Delete(i) PROVE OwnName'
  BY <1>2 DEF Delete, OwnName, TypeOK
<1>3. ASSUME Restart PROVE OwnName'
  <2> SUFFICES ASSUME NEW i \in Missions, registry'[i] # None PROVE mid'[registry'[i]] = i
    BY DEF OwnName
  <2>1. PICK S \in SUBSET {j \in disk : docker[j] # None} : \E f \in [S -> Objs] :
           /\ \A j, k \in S : f[j] = f[k] => j = k
           /\ registry' = [j \in Missions |-> IF j \in S THEN f[j] ELSE None]
           /\ mid' = [o \in Objs |-> IF \E j \in S : f[j] = o
                                     THEN CHOOSE j \in S : f[j] = o ELSE None]
    BY <1>3 DEF Restart
  <2>2. PICK f \in [S -> Objs] :
           /\ \A j, k \in S : f[j] = f[k] => j = k
           /\ registry' = [j \in Missions |-> IF j \in S THEN f[j] ELSE None]
           /\ mid' = [o \in Objs |-> IF \E j \in S : f[j] = o
                                     THEN CHOOSE j \in S : f[j] = o ELSE None]
    BY <2>1
  <2>3. i \in S /\ registry'[i] = f[i] /\ f[i] \in Objs
    BY <2>2
  <2>4. mid'[f[i]] = CHOOSE j \in S : f[j] = f[i]
    BY <2>2, <2>3
  <2> QED
    BY <2>2, <2>3, <2>4
<1>4. ASSUME UNCHANGED <<registry, mid>> PROVE OwnName'
  BY <1>4 DEF OwnName
<1>5. ASSUME NEW i \in Missions, StartAgain(i) \/ Pause(i) \/ Resume(i) \/ Stop(i) \/ GcRemove(i)
      PROVE  UNCHANGED <<registry, mid>>
  BY <1>5 DEF StartAgain, Pause, Resume, Stop, GcRemove, objVars
<1>6. ASSUME NEW l \in Loops, LoopStep(l) \/ LoopCrash(l) PROVE UNCHANGED <<registry, mid>>
  BY <1>6 DEF LoopStep, LoopInit, LoopRun, LoopRunFails, LoopAdopt, LoopElect, LoopCheck,
              LoopTop, LoopAnswered, LoopSilence, LoopFinish, LoopComplete, LoopCrash,
              SetStatus, objVars
<1>7. ASSUME \/ \E o \in Objs : Destroy(o)
             \/ GcStart \/ GcList \/ GcQueryFails \/ GcDone
             \/ SaveSnapshot \/ WatchdogSave
             \/ \E s \in saves : SaveWrite(s)
             \/ UNCHANGED vars
      PROVE  UNCHANGED <<registry, mid>>
  BY <1>7 DEF Destroy, GcStart, GcList, GcQueryFails, GcDone, SaveSnapshot, WatchdogSave,
              SaveWrite, vars, objVars
<1> QED
  BY <1>1, <1>2, <1>3, <1>4, <1>5, <1>6, <1>7 DEF Next, Facade

\* No step but those named makes anybody work for an orphan or gives its name away.
LEMMA OrphanStep ==
  ASSUME IInv, OwnName, [Next]_vars, NEW i \in Missions, Orphaned(i)
  PROVE  \/ docker'[i] = None
         \/ StartNew(i)
         \/ Restart
         \/ Orphaned(i)' /\ docker'[i] = docker[i]
<1> USE DEF Orphaned
<1>1. TypeOK /\ LoopInv /\ i # None
  BY NoneAssumption DEF IInv
<1>2. ASSUME UNCHANGED <<docker, registry, mid, runs>>
      PROVE  Orphaned(i)' /\ docker'[i] = docker[i]
  BY <1>2
<1>3. ASSUME NEW j \in Missions, StartNew(j), j # i
      PROVE  Orphaned(i)' /\ docker'[i] = docker[i]
  <2>1. PICK o \in FreeObjs : /\ registry' = [registry EXCEPT ![j] = o]
                              /\ mid' = [mid EXCEPT ![o] = j]
                              /\ Spawn(o) /\ UNCHANGED docker
    BY <1>3, FreshObject
  <2>2. o \in Objs /\ \A l \in Loops : runs[l] # o
    BY DEF FreeObjs, RunsOn
  <2>3. PICK l \in IdleLoops : runs' = [runs EXCEPT ![l] = o]
    BY <2>1, SpawnTakesIdle
  <2> QED
    BY <1>1, <1>3, <2>1, <2>2, <2>3 DEF TypeOK, IdleLoops
<1>4. ASSUME NEW j \in Missions, StartAgain(j) \/ Resume(j)
      PROVE  Orphaned(i)' /\ docker'[i] = docker[i]
  <2>1. registry[j] # None /\ Spawn(registry[j]) /\ UNCHANGED <<docker, registry, mid>>
    BY <1>4 DEF StartAgain, Resume, Registered
  <2>2. mid[registry[j]] = j /\ j # i
    BY <2>1 DEF OwnName
  <2>3. PICK l \in IdleLoops : runs' = [runs EXCEPT ![l] = registry[j]]
    BY <2>1, SpawnTakesIdle
  <2> QED
    BY <1>1, <2>1, <2>2, <2>3 DEF TypeOK, IdleLoops
<1>5. ASSUME NEW j \in Missions, Pause(j) \/ Stop(j) \/ Delete(j)
      PROVE  Orphaned(i)' /\ docker'[i] = docker[i]
  BY <1>1, <1>5 DEF Pause, Stop, Delete, loopVars, TypeOK
<1>6. ASSUME NEW l \in Loops, LoopStep(l) \/ LoopCrash(l)
      PROVE  Orphaned(i)' /\ docker'[i] = docker[i]
  <2>1. pc[l] # "idle"
    BY <1>6 DEF LoopStep, LoopInit, LoopRun, LoopRunFails, LoopAdopt, LoopElect, LoopCheck,
                LoopTop, LoopAnswered, LoopSilence, LoopFinish, LoopComplete, LoopCrash
  <2>2. runs[l] # None /\ mid[runs[l]] # i
    BY <1>1, <2>1 DEF LoopInv, ThreadsWork
  <2>3. UNCHANGED <<registry, mid>>
    BY <1>6 DEF LoopStep, LoopInit, LoopRun, LoopRunFails, LoopAdopt, LoopElect, LoopCheck,
                LoopTop, LoopAnswered, LoopSilence, LoopFinish, LoopComplete, LoopCrash,
                SetStatus, objVars
  <2>4. docker'[i] = docker[i]
    <3>1. \/ UNCHANGED docker
          \/ \E c : docker' = [docker EXCEPT ![mid[runs[l]]] = c]
      BY <1>6 DEF LoopStep, LoopInit, LoopRun, LoopRunFails, LoopAdopt, LoopElect, LoopCheck,
                  LoopTop, LoopAnswered, LoopSilence, LoopFinish, LoopComplete, LoopCrash
    <3> QED
      BY <1>1, <2>2, <3>1 DEF TypeOK
  <2> QED
    BY <1>1, <1>6, <2>3, <2>4, OneThread
<1>7. ASSUME \/ \E o \in Objs : Destroy(o)
             \/ \E j \in Missions : GcRemove(j)
      PROVE  \/ docker'[i] = None
             \/ Orphaned(i)' /\ docker'[i] = docker[i]
  <2>1. UNCHANGED <<registry, mid, runs>>
    BY <1>7 DEF Destroy, GcRemove, objVars, loopVars
  <2>2. \E x : docker' = [docker EXCEPT ![x] = None]
    BY <1>7 DEF Destroy, GcRemove
  <2> QED
    BY <1>1, <2>1, <2>2 DEF TypeOK
<1>8. ASSUME \/ GcStart \/ GcList \/ GcQueryFails \/ GcDone
             \/ SaveSnapshot \/ WatchdogSave
             \/ \E s \in saves : SaveWrite(s)
             \/ UNCHANGED vars
      PROVE  UNCHANGED <<docker, registry, mid, runs>>
  BY <1>8 DEF GcStart, GcList, GcQueryFails, GcDone, SaveSnapshot, WatchdogSave,
              SaveWrite, vars, objVars, loopVars
<1> QED
  BY <1>2, <1>3, <1>4, <1>5, <1>6, <1>7, <1>8 DEF Next, Facade

\* The stages in numbers.
LEMMA CollectionCounts ==
  ASSUME NEW m \in Nat, NEW a \in 1..5, NEW b \in 1..5, NEW x \in 0..m, NEW y \in 0..m, a < b
  PROVE  a * (m + 1) + x < b * (m + 1) + y
<1>1. \/ b = 2 /\ a = 1
      \/ b = 3 /\ a \in {1, 2}
      \/ b = 4 /\ a \in {1, 2, 3}
      \/ b = 5 /\ a \in {1, 2, 3, 4}
  OBVIOUS
<1> QED
  BY <1>1

\* A collector that is at it and goes on without i has not left i out.
LEMMA CollectionStep ==
  ASSUME TypeOK, [Next]_vars, NEW i \in Missions, Orphaned(i), Orphaned(i)', ~Restart
  PROVE  \/ GcQueryFails
         \/ CollectionLeft(i)' < CollectionLeft(i)
         \/ ~Collects /\ CollectionLeft(i)' = CollectionLeft(i)
<1> DEFINE m == Cardinality(Missions)
           x == IF gcPc = "rm" THEN Cardinality(gcSet) ELSE 0
<1>1. m \in Nat /\ Cardinality(gcSet) \in 0..m /\ IsFiniteSet(gcSet)
  BY FiniteAssumption, FS_Subset, FS_CardinalityType DEF TypeOK
<1>2. x \in 0..m /\ Stage(i) \in 1..5
  BY <1>1 DEF Stage
<1>3. TypeOK'
  BY TypeStep
<1>4. Cardinality(gcSet') \in 0..m
  BY <1>3, FiniteAssumption, FS_Subset, FS_CardinalityType DEF TypeOK
<1>5. x' \in 0..m /\ Stage(i)' \in 1..5
  BY <1>1, <1>4 DEF Stage
<1>6. ASSUME Stage(i)' < Stage(i) PROVE CollectionLeft(i)' < CollectionLeft(i)
  <2>1. Stage(i)' * (m + 1) + x' < Stage(i) * (m + 1) + x
    BY <1>1, <1>2, <1>5, <1>6, CollectionCounts
  <2> QED
    BY <2>1 DEF CollectionLeft
<1>7. CASE GcStart
  BY <1>6, <1>7 DEF GcStart, Stage, Registered, Orphaned
<1>8. CASE GcList
  BY <1>6, <1>8 DEF GcList, Stage, Orphaned
<1>9. CASE GcDone
  BY <1>6, <1>9 DEF GcDone, Stage
<1>10. ASSUME NEW j \in Missions, GcRemove(j) PROVE CollectionLeft(i)' < CollectionLeft(i)
  <2>1. gcPc = "rm" /\ gcPc' = "rm" /\ j \in gcSet /\ gcSet' = gcSet \ {j}
    BY <1>10 DEF GcRemove
  <2>2. j # i
    BY <1>10 DEF GcRemove, Orphaned, TypeOK
  <2>3. Stage(i)' = Stage(i)
    BY <2>1, <2>2 DEF Stage
  <2>4. Cardinality(gcSet') = Cardinality(gcSet) - 1
    BY <1>1, <2>1, FS_RemoveElement
  <2>5. x' = x - 1
    BY <2>1, <2>4
  <2>6. Stage(i) * (m + 1) \in Int
    BY <1>1, <1>2
  <2>7. Stage(i)' * (m + 1) + x' < Stage(i) * (m + 1) + x
    BY <1>2, <2>3, <2>5, <2>6
  <2> QED
    BY <2>7 DEF CollectionLeft
<1>11. ASSUME UNCHANGED gcVars
       PROVE  CollectionLeft(i)' = CollectionLeft(i)
  BY <1>11 DEF gcVars, CollectionLeft, Stage
<1>12. ASSUME ~Collects, ~GcQueryFails
       PROVE  UNCHANGED gcVars
  <2>1. ASSUME NEW j \in Missions, Facade(j) PROVE UNCHANGED gcVars
    <3>1. CASE StartNew(j)
      BY <3>1 DEF StartNew, gcVars
    <3>2. CASE ~StartNew(j)
      BY <2>1, <3>2 DEF Facade, StartAgain, Pause, Resume, Stop, Delete, gcVars
    <3> QED
      BY <3>1, <3>2
  <2>2. ASSUME NEW l \in Loops, LoopStep(l) \/ LoopCrash(l) PROVE UNCHANGED gcVars
    BY <2>2 DEF LoopStep, LoopInit, LoopRun, LoopRunFails, LoopAdopt, LoopElect, LoopCheck,
                LoopTop, LoopAnswered, LoopSilence, LoopFinish, LoopComplete, LoopCrash, gcVars
  <2>3. ASSUME \/ \E o \in Objs : Destroy(o)
               \/ SaveSnapshot \/ WatchdogSave
               \/ \E s \in saves : SaveWrite(s)
               \/ UNCHANGED vars
        PROVE  UNCHANGED gcVars
    BY <2>3 DEF Destroy, SaveSnapshot, WatchdogSave, SaveWrite, vars, gcVars
  <2> QED
    BY <1>12, <2>1, <2>2, <2>3 DEF Next, Collects
<1> QED
  BY <1>7, <1>8, <1>9, <1>10, <1>11, <1>12 DEF Collects

\* A container nobody will use keeps its name to itself until it is removed, unless the
\* user starts the mission again or nCore restarts: no loop of any mission finds its way
\* to it. And whatever collection is under way when it is orphaned, also one that began
\* while its mission was registered, the one after reaches it if its query succeeds.
THEOREM OrphansAreReached == Spec => [][OrphansFade]_vars
<1>1. IInv /\ OwnName /\ [Next]_vars => [OrphansFade]_vars
  BY OrphanStep, CollectionStep DEF OrphansFade, IInv
<1>2. Init => OwnName
  BY DEF Init, OwnName
<1>3. Spec => []OwnName
  BY <1>2, OwnNameStep, TypeCorrect, PTL DEF Spec
<1> QED
  BY <1>1, <1>3, Inductive, PTL DEF Spec

----------------------------------------------------------------------------
(* The file follows: what DiskFollows rests on besides fairness.            *)

\* A set of ids tells of i what the registry does.
Agrees(s, i) == i \in s <=> registry[i] # None

\* Snapshots under way that say otherwise.
Stale(i) == {s \in saves : ~Agrees(s, i)}

\* As long as a mission stays registered, or stays deleted, no snapshot is added that says
\* otherwise, and one that is written is gone. Only such a snapshot brings the file back
\* from what the registry says; any other that is written brings it there.
FileCatchesUp ==
  \A i \in Missions : (registry[i] = None <=> registry'[i] = None) =>
    /\ Stale(i)' \subseteq Stale(i)
    /\ \A s \in Stale(i) : SaveWrite(s) => s \notin Stale(i)'
    /\ Agrees(disk, i) /\ Stale(i) = {} => Agrees(disk, i)'
    /\ \A s \in saves \ Stale(i) : SaveWrite(s) => Agrees(disk, i)'

\* Saves overtake one another, but a mission that stays registered, or stays deleted, is
\* in the end in the file, or out of it, also across restarts: the old snapshots run out,
\* and after the last of them every save that is written says so.
THEOREM TheFileCatchesUp == Spec => [][FileCatchesUp]_vars
<1>1. TypeOK /\ [Next]_vars => FileCatchesUp
  <2> SUFFICES ASSUME TypeOK, [Next]_vars, NEW i \in Missions,
                      registry[i] = None <=> registry'[i] = None
               PROVE  /\ Stale(i)' \subseteq Stale(i)
                      /\ \A s \in Stale(i) : SaveWrite(s) => s \notin Stale(i)'
                      /\ Agrees(disk, i) /\ Stale(i) = {} => Agrees(disk, i)'
                      /\ \A s \in saves \ Stale(i) : SaveWrite(s) => Agrees(disk, i)'
    BY DEF FileCatchesUp
  <2>1. ASSUME NEW s PROVE Agrees(s, i) <=> (i \in s <=> registry'[i] # None)
    BY DEF Agrees
  <2>2. \A s \in saves : SaveWrite(s) => disk' = s /\ saves' = saves \ {s}
    BY DEF SaveWrite
  <2>3. \/ UNCHANGED <<saves, disk>>
        \/ saves' = saves \cup {Registered} /\ UNCHANGED disk
        \/ saves' = {} /\ UNCHANGED disk
        \/ \E s \in saves : disk' = s /\ saves' = saves \ {s}
    <3>1. ASSUME NEW j \in Missions, Facade(j) PROVE UNCHANGED <<saves, disk>>
      <4>1. CASE StartNew(j)
        BY <4>1 DEF StartNew, PersistDue
      <4>2. CASE ~StartNew(j)
        BY <3>1, <4>2 DEF Facade, StartAgain, Pause, Resume, Stop, Delete, PersistDue
      <4> QED
        BY <4>1, <4>2
    <3>2. ASSUME NEW l \in Loops, LoopStep(l) \/ LoopCrash(l) PROVE UNCHANGED <<saves, disk>>
      BY <3>2 DEF LoopStep, LoopInit, LoopRun, LoopRunFails, LoopAdopt, LoopElect, LoopCheck,
                  LoopTop, LoopAnswered, LoopSilence, LoopFinish, LoopComplete, LoopCrash,
                  saveVars
    <3>3. ASSUME \/ \E o \in Objs : Destroy(o)
                 \/ GcStart \/ GcList \/ GcQueryFails \/ GcDone
                 \/ \E j \in Missions : GcRemove(j)
                 \/ WatchdogSave
                 \/ UNCHANGED vars
          PROVE  UNCHANGED <<saves, disk>>
      BY <3>3 DEF Destroy, GcStart, GcList, GcQueryFails, GcDone, GcRemove, WatchdogSave,
                  PersistDue, vars, saveVars
    <3>4. CASE SaveSnapshot
      BY <3>4 DEF SaveSnapshot
    <3>5. CASE Restart
      BY <3>5 DEF Restart
    <3> QED
      BY <2>2, <3>1, <3>2, <3>3, <3>4, <3>5 DEF Next
  <2>4. Agrees(Registered, i)
    BY DEF Agrees, Registered
  <2>5. Stale(i)' = {s \in saves' : ~Agrees(s, i)}
    BY <2>1 DEF Stale, Agrees
  <2>6. Agrees(disk, i)' <=> Agrees(disk', i)
    BY <2>1 DEF Agrees
  <2>7. Stale(i)' \subseteq Stale(i)
    BY <2>3, <2>4, <2>5 DEF Stale
  <2>8. \A s \in Stale(i) : SaveWrite(s) => s \notin Stale(i)'
    BY <2>2, <2>5 DEF Stale
  <2>9. Agrees(disk, i) /\ Stale(i) = {} => Agrees(disk, i)'
    BY <2>3, <2>6 DEF Stale
  <2>10. \A s \in saves \ Stale(i) : SaveWrite(s) => Agrees(disk, i)'
    BY <2>2, <2>6 DEF Stale
  <2> QED
    BY <2>7, <2>8, <2>9, <2>10
<1> QED
  BY <1>1, TypeCorrect, PTL DEF Spec
=============================================================================
