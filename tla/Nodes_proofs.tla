------------------------------ MODULE Nodes_proofs ------------------------------
(***************************************************************************)
(* Proofs about what runs on a node: the local agent that nCore starts     *)
(* (LocalAgent), for any number of calls, and the model servers of an      *)
(* agent (ModelServer), for any devices, models, threads and commands.     *)
(* Both sections first state what the steps in between rely on, then that  *)
(* every step keeps it. The last section is about the three parts of a     *)
(* node side by side, as they are model-checked (MCNodes).                 *)
(***************************************************************************)
EXTENDS MCNodes, Pairing_proofs, FiniteSetTheorems

----------------------------------------------------------------------------
(* LocalAgent.                                                              *)

\* An agent that lives, may go on and has no valid token is one whose token went.
Keyed == \A p \in Calls_ : Loose(p) /\ p \notin keys => struck
Shown == entry = "local" \/ struck

\* What the steps of a call know of the loose agents: between two calls the only one is
\* the one nCore knows; a start has told all to end before it launches another, and a
\* stop has told the one there was. (A restart of nCore may find one.) Those that no
\* start can end come on top.
KnownAgent ==
  /\ UnderWay = {} => /\ \A p \in Calls_ : Loose(p) => p = proc \/ p \in left
                      /\ Alive(proc) => Shown
                      /\ Keyed
  /\ \A c \in UnderWay :
       /\ \A b \in UnderWay : b = c
       /\ localAt[c] \in {"launch", "set"} => Shown
       /\ localAt[c] = "launch" => c \in keys \/ struck
       /\ localAt[c] \notin {"sweep", "enrol"} => Keyed
       /\ \A p \in Calls_ : Loose(p) => \/ localAt[c] = "sweep"
                                       \/ (localAt[c] = "set" /\ p = c)
                                       \/ p \in left
       /\ localAt[c] = "sweep" =>
            \A p, q \in Calls_ : Loose(p) /\ Loose(q) => p = q \/ p \in left \/ q \in left

\* An agent past the pid file is the one in it, and while another is about to write it
\* there is none.
OneWriter ==
  /\ \A p \in Calls_ : process[p] = "run" => pidFile = p
  /\ \A p, q \in Calls_ : process[p] = "checked" /\ p \notin termed => process[q] # "run"

\* An agent that could not be ended is past the pid file, and on a host without /proc.
Stray == \A p \in left : process[p] = "run" /\ ~sweeps

\* A start that has not come to its launch has no process.
Unborn ==
  \A c \in Calls_ : localAt[c] \in {"idle", "sweep", "enrol", "launch"} => process[c] = "none"

LocalSound == KnownAgent /\ OneWriter /\ Stray /\ Unborn

\* The inductive invariant.
LocalInv == LocalTypeOK /\ (~overlap => LocalSound)

\* At the start nothing runs.
LEMMA LocalStarts == LocalInit => LocalInv
<1> SUFFICES ASSUME LocalInit PROVE LocalInv
  OBVIOUS
<1>1. LocalTypeOK
  <2>1. 0 \in 0..MaxLocalFaults /\ Nobody \in Processes
    BY LocalAssumption DEF Processes
  <2> QED
    BY <2>1 DEF LocalInit, LocalTypeOK
<1>2. LocalSound
  BY LocalAssumption DEF LocalInit, LocalSound, KnownAgent, OneWriter, Stray, Unborn, Keyed,
     UnderWay, Loose, Alive
<1> QED
  BY <1>1, <1>2 DEF LocalInv

\* Every step keeps the types.
LEMMA LocalTypeStep == ASSUME LocalTypeOK, [LocalNext]_localVars PROVE LocalTypeOK'
<1> USE LocalAssumption DEF LocalTypeOK, Processes, callVars, processVars, nodeVars, observers,
                            Calm
<1>1. ASSUME NEW c \in Calls_, StartAgent(c) \/ StopAgent(c) PROVE LocalTypeOK'
  <2>1. CASE StartAgent(c)
    BY <2>1 DEF StartAgent, Enters, Moves
  <2>2. CASE StopAgent(c)
    <3>1. /\ \E t \in {"wait", "done"} : localAt' = [localAt EXCEPT ![c] = t]
          /\ target' = target \/ (proc # Nobody /\ target' = [target EXCEPT ![c] = proc])
          /\ termed' = termed \/ (proc # Nobody /\ termed' = termed \cup {proc})
          /\ proc' \in {proc, Nobody} /\ overlap' \in BOOLEAN
          /\ UNCHANGED <<watched, process, pidFile, nodeVars, left, struck, sweeps, localFaults>>
      BY <2>2 DEF StopAgent, Enters, Moves, Alive
    <3>2. localAt' \in [Calls_ -> {"idle", "sweep", "enrol", "launch", "set", "wait", "strike",
                                  "clear", "done"}]
      BY <3>1
    <3>3. target' \in [Calls_ -> Calls_ \cup {Nobody}] /\ termed' \subseteq Calls_
      BY <3>1
    <3> QED
      BY <3>1, <3>2, <3>3
  <2> QED
    BY <1>1, <2>1, <2>2
<1>2. ASSUME NEW c \in Calls_, CallStep(c) PROVE LocalTypeOK'
  <2>1. CASE KillOrphans(c)
    <3>1. /\ localAt' = [localAt EXCEPT ![c] = "enrol"]
          /\ termed' \subseteq Calls_ /\ left' \subseteq Calls_ /\ overlap' \in BOOLEAN
          /\ UNCHANGED <<target, proc, watched, process, pidFile, nodeVars, struck, sweeps,
                         localFaults>>
      BY <2>1 DEF KillOrphans, Moves
    <3> QED
      BY <3>1
  <2>2. CASE Enrol(c) \/ Launch(c) \/ Track(c)
    BY <2>2 DEF Enrol, Launch, Track, Moves
  <2>3. CASE AwaitEnd(c) \/ Strike(c) \/ ClearProc(c)
    BY <2>3 DEF AwaitEnd, Strike, ClearProc, Moves
  <2> QED
    BY <1>2, <2>1, <2>2, <2>3 DEF CallStep
<1>3. ASSUME NEW c \in Calls_, RestartLocal(c) PROVE LocalTypeOK'
  <2>1. localAt' \in [Calls_ -> {"idle", "sweep", "done"}]
    BY <1>3 DEF RestartLocal
  <2>2. localFaults' \in 0..MaxLocalFaults /\ keys' \subseteq keys
    BY <1>3 DEF RestartLocal, LocalFault
  <2> QED
    BY <1>3, <2>1, <2>2 DEF RestartLocal
<1>4. ASSUME NEW p \in Calls_,
             Notice(p) \/ ProcessStep(p) \/ Beat_(p) \/ Reregister(p) \/ CrashAgent(p)
      PROVE  LocalTypeOK'
  <2>1. CASE Notice(p) \/ Beat_(p) \/ Reregister(p)
    BY <2>1 DEF Notice, Beat_, Reregister
  <2>2. CASE ProcessStep(p)
    BY <2>2 DEF ProcessStep, PidCheck, PidWrite, ObeyTerm, Becomes, Dies, Released
  <2>3. CASE CrashAgent(p)
    BY <2>3 DEF CrashAgent, LocalFault, Dies
  <2> QED
    BY <1>4, <2>1, <2>2, <2>3
<1>5. CASE BeatServed \/ DeleteLocal \/ RevokeLocal \/ UNCHANGED localVars
  <2>1. CASE BeatServed \/ UNCHANGED localVars
    BY <2>1 DEF BeatServed, localVars
  <2>2. CASE DeleteLocal \/ RevokeLocal
    <3>1. localFaults' \in 0..MaxLocalFaults
      BY <2>2 DEF DeleteLocal, RevokeLocal, LocalFault
    <3>2. /\ UNCHANGED <<callVars, processVars, beating, left, overlap, sweeps>>
          /\ keys' = {} /\ struck' = TRUE /\ entry' \in {entry, "none"}
      BY <2>2 DEF DeleteLocal, RevokeLocal
    <3> QED
      BY <3>1, <3>2
  <2> QED
    BY <1>5, <2>1, <2>2
<1> QED
  BY <1>1, <1>2, <1>3, <1>4, <1>5 DEF LocalNext

\* As long as calls do not overlap, a call that enters is alone.
LEMMA LocalStep ==
  ASSUME LocalInv, [LocalNext]_localVars, ~overlap'
  PROVE  LocalSound'
<1> USE DEF callVars, processVars, nodeVars, observers, Calm
<1>1. /\ LocalTypeOK /\ LocalTypeOK' /\ Nobody \notin Calls_
      /\ \A c \in Calls_ : localAt[c] \in {"idle", "sweep", "enrol", "launch", "set", "wait",
                                           "strike", "clear", "done"}
      /\ left \subseteq Calls_ /\ keys \subseteq Calls_ /\ termed \subseteq Calls_
  BY LocalTypeStep, LocalAssumption DEF LocalInv, LocalTypeOK
<1>2. ~overlap /\ KnownAgent /\ OneWriter /\ Stray /\ Unborn
  <2>1. ~overlap
    BY DEF LocalNext, localVars, StartAgent, StopAgent, Enters, CallStep, KillOrphans, Enrol,
           Launch, Track, AwaitEnd, Strike, ClearProc, RestartLocal, Notice, ProcessStep, PidCheck,
           PidWrite, ObeyTerm, Beat_, Reregister, CrashAgent, BeatServed, DeleteLocal, RevokeLocal
  <2> QED
    BY <2>1 DEF LocalInv, LocalSound
<1>3. \A c \in UnderWay : UnderWay = {c}
  BY <1>2 DEF KnownAgent
<1>4. ASSUME UNCHANGED <<localAt, proc>>,
             \/ entry' = entry \/ entry = "none" \/ struck'
             \/ \E p \in Calls_ : Loose(p) /\ p \notin keys,
             struck => struck',
             \A p \in Calls_ : Loose(p)' => Loose(p),
             \A p \in Calls_ : Alive(p)' => Alive(p),
             \A p \in Calls_ : Loose(p)' /\ p \in left => p \in left',
             \/ struck'
             \/ keys \subseteq keys'
             \/ \E p \in Calls_ : process[p] # "none" /\ ~Alive(p)' /\ keys \ {p} \subseteq keys'
      PROVE  KnownAgent'
  <2>1. UnderWay' = UnderWay
    BY <1>4 DEF UnderWay
  <2>2. Alive(proc)' => Alive(proc)
    BY <1>1, <1>4 DEF LocalTypeOK, Processes, Alive
  <2>3. Keyed => Keyed'
    BY <1>4 DEF Keyed, Loose
  <2>4. Shown /\ Keyed => Shown'
    BY <1>4 DEF Shown, Keyed
  <2>5. ASSUME UnderWay = {}
        PROVE  /\ \A p \in Calls_ : Loose(p)' => p = proc' \/ p \in left'
               /\ Alive(proc)' => Shown'
               /\ Keyed'
    BY <1>2, <1>4, <2>2, <2>3, <2>4, <2>5 DEF KnownAgent
  <2>6. ASSUME NEW c \in UnderWay
        PROVE  /\ localAt[c] \in {"launch", "set"} => Shown'
               /\ localAt[c] = "launch" => c \in keys' \/ struck'
               /\ localAt[c] \notin {"sweep", "enrol"} => Keyed'
    <3>1. c \in Calls_
      BY DEF UnderWay
    <3>2. localAt[c] = "launch" => c \in keys' \/ struck'
      BY <1>2, <1>4, <3>1 DEF KnownAgent, Unborn
    <3> QED
      BY <1>2, <2>3, <2>4, <3>2 DEF KnownAgent
  <2>7. ASSUME NEW c \in UnderWay
        PROVE  /\ \A p \in Calls_ : Loose(p)' => \/ localAt[c] = "sweep"
                                                \/ (localAt[c] = "set" /\ p = c)
                                                \/ p \in left'
               /\ localAt[c] = "sweep" =>
                    \A p, q \in Calls_ :
                      Loose(p)' /\ Loose(q)' => p = q \/ p \in left' \/ q \in left'
    BY <1>2, <1>4 DEF KnownAgent
  <2> QED
    BY <1>2, <1>4, <2>1, <2>5, <2>6, <2>7 DEF KnownAgent
<1>5. ASSUME UNCHANGED <<process, pidFile>>, termed \cap Calls_ \subseteq termed'
      PROVE  OneWriter'
  BY <1>2, <1>5 DEF OneWriter
<1>6. ASSUME UNCHANGED <<process, left, sweeps>> PROVE Stray'
  BY <1>2, <1>6 DEF Stray
<1>7. ASSUME UNCHANGED process, NEW c \in Calls_, NEW s, localAt' = [localAt EXCEPT ![c] = s],
             \/ s \notin {"idle", "sweep", "enrol", "launch"}
             \/ localAt[c] \in {"idle", "sweep", "enrol", "launch"}
      PROVE  Unborn'
  BY <1>1, <1>2, <1>7 DEF Unborn, LocalTypeOK
<1>8. ASSUME UNCHANGED localAt, \A c \in Calls_ : process[c] = "none" => process'[c] = "none"
      PROVE  Unborn'
  BY <1>2, <1>8 DEF Unborn
<1>9. ASSUME NEW c \in Calls_, StartAgent(c) PROVE LocalSound'
  <2>1. /\ UnderWay = {} /\ UNCHANGED <<process, termed, proc, pidFile, entry, keys, left, struck,
                                        sweeps>>
        /\ localAt[c] = "idle"
        /\ localAt' = [localAt EXCEPT ![c] = IF Alive(proc) THEN "done" ELSE "sweep"]
    BY <1>9 DEF StartAgent, Enters, Moves
  <2>2. OneWriter' /\ Stray' /\ Unborn'
    <3> DEFINE s == IF Alive(proc) THEN "done" ELSE "sweep"
    <3> HIDE DEF s
    <3>1. Unborn'
      BY <1>7, <2>1 DEF s
    <3> QED
      BY <1>5, <1>6, <2>1, <3>1
  <2>3. CASE Alive(proc)
    <3>1. UnderWay' = {}
      BY <1>1, <2>1, <2>3 DEF UnderWay, LocalTypeOK
    <3> QED
      BY <1>2, <2>1, <2>2, <3>1 DEF LocalSound, KnownAgent, Loose, Alive, Keyed, Shown
  <2>4. CASE ~Alive(proc)
    <3>1. UnderWay' = {c} /\ localAt'[c] = "sweep"
      BY <1>1, <2>1, <2>4 DEF UnderWay, LocalTypeOK
    <3>2. KnownAgent'
      BY <1>2, <2>1, <3>1 DEF KnownAgent, Loose, Alive
    <3> QED
      BY <2>2, <3>2 DEF LocalSound
  <2> QED
    BY <2>3, <2>4
<1>10. ASSUME NEW c \in Calls_, StopAgent(c) PROVE LocalSound'
  <2>1. UnderWay = {} /\ UNCHANGED <<process, pidFile, entry, keys, left, struck, sweeps>>
    BY <1>10 DEF StopAgent, Enters
  <2>2. CASE Alive(proc)
    <3>1. /\ localAt' = [localAt EXCEPT ![c] = "wait"]
          /\ termed' = termed \cup {proc} /\ proc' = proc
      BY <1>10, <2>2 DEF StopAgent, Enters, Moves
    <3>2. UnderWay' = {c} /\ localAt'[c] = "wait"
      BY <1>1, <2>1, <3>1 DEF UnderWay, LocalTypeOK
    <3>3. \A p \in Calls_ : Loose(p)' => Loose(p) /\ p \in left
      BY <1>2, <2>1, <3>1 DEF KnownAgent, Loose, Alive
    <3>4. Keyed'
      BY <1>2, <2>1, <3>3 DEF KnownAgent, Keyed
    <3>5. KnownAgent'
      BY <2>1, <3>2, <3>3, <3>4 DEF KnownAgent
    <3> QED
      BY <1>5, <1>6, <1>7, <2>1, <3>1, <3>5 DEF LocalSound
  <2>3. CASE ~Alive(proc)
    <3>1. localAt' = [localAt EXCEPT ![c] = "done"] /\ proc' = Nobody /\ termed' = termed
      BY <1>10, <2>3 DEF StopAgent, Enters, Moves
    <3>2. UnderWay' = {}
      BY <1>1, <2>1, <3>1 DEF UnderWay, LocalTypeOK
    <3>3. \A p \in Calls_ : Loose(p)' => Loose(p) /\ p \in left
      BY <1>2, <2>1, <2>3, <3>1 DEF KnownAgent, Loose, Alive
    <3>4. Keyed' /\ ~Alive(proc)'
      BY <1>2, <2>1, <3>1, <3>3 DEF KnownAgent, Keyed, Alive
    <3>5. KnownAgent'
      BY <2>1, <3>2, <3>3, <3>4 DEF KnownAgent
    <3> QED
      BY <1>5, <1>6, <1>7, <2>1, <3>1, <3>5 DEF LocalSound
  <2> QED
    BY <2>2, <2>3
<1>11. ASSUME NEW c \in Calls_, CallStep(c) PROVE LocalSound'
  <2>1. c \in UnderWay /\ UnderWay = {c}
    BY <1>3, <1>11 DEF CallStep, KillOrphans, Enrol, Launch, Track, AwaitEnd, Strike, ClearProc,
                       Moves, UnderWay
  <2>2. \A b \in Calls_ \ {c} : localAt[b] \in {"idle", "done"}
    BY <1>1, <2>1 DEF UnderWay
  <2>3. ASSUME NEW s \in {"enrol", "launch", "set", "strike", "clear"},
               localAt' = [localAt EXCEPT ![c] = s]
        PROVE  UnderWay' = {c} /\ localAt'[c] = s
    BY <1>1, <2>2, <2>3 DEF UnderWay, LocalTypeOK
  <2>4. ASSUME localAt' = [localAt EXCEPT ![c] = "done"] PROVE UnderWay' = {}
    BY <1>1, <2>2, <2>4 DEF UnderWay, LocalTypeOK
  <2>5. CASE KillOrphans(c)
    <3>0. /\ localAt[c] = "sweep" /\ localAt' = [localAt EXCEPT ![c] = "enrol"]
          /\ UNCHANGED <<process, pidFile, keys, struck, sweeps>>
          /\ termed \subseteq termed'
      BY <2>5 DEF KillOrphans, Moves
    <3>1. UnderWay' = {c} /\ localAt'[c] = "enrol"
      BY <2>3, <3>0
    <3>2. \A p \in Calls_ : Loose(p)' => p \in left'
      BY <2>5, <3>0 DEF KillOrphans, Loose, Alive
    <3>3. OneWriter' /\ Unborn'
      BY <1>5, <1>7, <3>0
    <3>4. Stray'
      <4>1. CASE sweeps
        BY <1>6, <2>5, <4>1 DEF KillOrphans
      <4>2. CASE ~sweeps
        <5>1. /\ left' = left \cup {p \in Calls_ : Loose(p)}
              /\ \A p \in Calls_ : Loose(p) => process[p] = "run"
          BY <2>5, <4>2 DEF KillOrphans
        <5> QED
          BY <1>2, <3>0, <4>2, <5>1 DEF Stray
      <4> QED
        BY <4>1, <4>2
    <3>5. KnownAgent'
      BY <3>1, <3>2 DEF KnownAgent
    <3> QED
      BY <3>3, <3>4, <3>5 DEF LocalSound
  <2>6. CASE Enrol(c)
    <3>0. /\ localAt[c] = "enrol" /\ localAt' = [localAt EXCEPT ![c] = "launch"]
          /\ entry' = "local" /\ keys' = keys \cup {c}
          /\ struck' = (\E p \in Calls_ : Loose(p) /\ p \notin keys)
          /\ UNCHANGED <<process, pidFile, termed, left, sweeps>>
      BY <2>6 DEF Enrol, Moves
    <3>1. UnderWay' = {c} /\ localAt'[c] = "launch"
      BY <2>3, <3>0
    <3>2. \A p \in Calls_ : Loose(p)' <=> Loose(p)
      BY <3>0 DEF Loose, Alive
    <3>3. \A p \in Calls_ : Loose(p)' => p \in left'
      BY <1>2, <2>1, <3>0, <3>2 DEF KnownAgent
    <3>4. Shown' /\ Keyed' /\ c \in keys'
      BY <3>0, <3>2 DEF Shown, Keyed
    <3>5. KnownAgent'
      BY <3>1, <3>3, <3>4 DEF KnownAgent
    <3> QED
      BY <1>5, <1>6, <1>7, <3>0, <3>5 DEF LocalSound
  <2>7. CASE Launch(c)
    <3>1. /\ localAt[c] = "launch" /\ localAt' = [localAt EXCEPT ![c] = "set"]
          /\ UNCHANGED <<entry, keys, struck, left, sweeps, termed, pidFile>>
          /\ process' = [process EXCEPT ![c] = "boot"]
      BY <2>7 DEF Launch, Moves
    <3>2. UnderWay' = {c} /\ localAt'[c] = "set"
      BY <2>3, <3>1
    <3>3. (\A p \in Calls_ \ {c} : process'[p] = process[p]) /\ process'[c] = "boot"
      BY <1>1, <3>1 DEF LocalTypeOK
    <3>4. Shown /\ Keyed /\ (c \in keys \/ struck) /\ \A p \in Calls_ : Loose(p) => p \in left
      BY <1>2, <2>1, <3>1 DEF KnownAgent
    <3>5. \A p \in Calls_ \ {c} : Loose(p)' <=> Loose(p)
      BY <3>1, <3>3 DEF Loose, Alive
    <3>6. Shown' /\ Keyed'
      BY <3>1, <3>4, <3>5 DEF Shown, Keyed
    <3>7. KnownAgent'
      BY <3>1, <3>2, <3>4, <3>5, <3>6 DEF KnownAgent
    <3>8. OneWriter'
      BY <1>2, <3>1, <3>3 DEF OneWriter
    <3>9. Stray'
      BY <1>1, <1>2, <3>1, <3>3 DEF Stray, Unborn
    <3>10. Unborn'
      BY <1>1, <1>2, <3>1, <3>3 DEF Unborn, LocalTypeOK
    <3> QED
      BY <3>7, <3>8, <3>9, <3>10 DEF LocalSound
  <2>8. CASE Track(c)
    <3>1. /\ localAt[c] = "set" /\ localAt' = [localAt EXCEPT ![c] = "done"] /\ proc' = c
          /\ UNCHANGED <<entry, keys, struck, left, sweeps, termed, process, pidFile>>
      BY <2>8 DEF Track, Moves
    <3>2. UnderWay' = {}
      BY <2>4, <3>1
    <3>3. Shown /\ Keyed /\ \A p \in Calls_ : Loose(p) => p = c \/ p \in left
      BY <1>2, <2>1, <3>1 DEF KnownAgent
    <3>4. \A p \in Calls_ : Loose(p)' => p = proc' \/ p \in left'
      BY <3>1, <3>3 DEF Loose, Alive
    <3>5. Shown' /\ Keyed'
      BY <3>1, <3>3 DEF Shown, Keyed, Loose, Alive
    <3>6. KnownAgent'
      BY <3>2, <3>4, <3>5 DEF KnownAgent
    <3> QED
      BY <1>5, <1>6, <1>7, <3>1, <3>6 DEF LocalSound
  <2>9. CASE AwaitEnd(c) \/ Strike(c)
    <3>1. \E s \in {"strike", "clear"} :
            /\ localAt[c] \in {"wait", "strike"} /\ localAt' = [localAt EXCEPT ![c] = s]
            /\ UNCHANGED <<keys, struck, left, sweeps, termed, process, pidFile>>
      BY <2>9 DEF AwaitEnd, Strike, Moves
    <3>2. UnderWay' = {c} /\ localAt'[c] \in {"strike", "clear"}
      BY <2>3, <3>1
    <3>3. Keyed /\ \A p \in Calls_ : Loose(p) => p \in left
      BY <1>2, <2>1, <3>1 DEF KnownAgent
    <3>4. Keyed' /\ \A p \in Calls_ : Loose(p)' => p \in left'
      BY <3>1, <3>3 DEF Keyed, Loose, Alive
    <3>5. KnownAgent'
      BY <3>2, <3>4 DEF KnownAgent
    <3> QED
      BY <1>5, <1>6, <1>7, <3>1, <3>5 DEF LocalSound
  <2>10. CASE ClearProc(c)
    <3>1. /\ localAt[c] = "clear" /\ localAt' = [localAt EXCEPT ![c] = "done"] /\ proc' = Nobody
          /\ UNCHANGED <<keys, struck, left, sweeps, termed, process, pidFile>>
      BY <2>10 DEF ClearProc, Moves
    <3>2. UnderWay' = {}
      BY <2>4, <3>1
    <3>3. Keyed /\ \A p \in Calls_ : Loose(p) => p \in left
      BY <1>2, <2>1, <3>1 DEF KnownAgent
    <3>4. Keyed' /\ ~Alive(proc)' /\ \A p \in Calls_ : Loose(p)' => p \in left'
      BY <3>1, <3>3 DEF Keyed, Loose, Alive
    <3>5. KnownAgent'
      BY <3>2, <3>4 DEF KnownAgent
    <3> QED
      BY <1>5, <1>6, <1>7, <3>1, <3>5 DEF LocalSound
  <2> QED
    BY <1>11, <2>5, <2>6, <2>7, <2>8, <2>9, <2>10 DEF CallStep
<1>12. ASSUME NEW c \in Calls_, RestartLocal(c) PROVE LocalSound'
  <2>1. /\ UnderWay' = {c} /\ localAt'[c] = "sweep"
        /\ UNCHANGED <<process, termed, pidFile, left, sweeps>>
    BY <1>12 DEF RestartLocal, UnderWay
  <2>2. \A p, q \in Calls_ : Loose(p) /\ Loose(q) => p = q \/ p \in left \/ q \in left
    <3>1. CASE UnderWay = {}
      BY <1>2, <3>1 DEF KnownAgent
    <3>2. ASSUME NEW b \in UnderWay
          PROVE  \A p, q \in Calls_ : Loose(p) /\ Loose(q) => p = q \/ p \in left \/ q \in left
      BY <1>2 DEF KnownAgent
    <3> QED
      BY <3>1, <3>2
  <2>3. KnownAgent'
    BY <2>1, <2>2 DEF KnownAgent, Loose, Alive
  <2>4. Unborn'
    <3>1. localAt[c] = "idle"
          /\ \A b \in Calls_ : localAt'[b] = IF b = c THEN "sweep"
                                             ELSE IF localAt[b] = "idle" THEN "idle" ELSE "done"
      BY <1>12 DEF RestartLocal
    <3> QED
      BY <1>2, <2>1, <3>1 DEF Unborn
  <2> QED
    BY <1>5, <1>6, <2>1, <2>3, <2>4 DEF LocalSound
<1>13. ASSUME NEW p \in Calls_, Notice(p) PROVE LocalSound'
  <2>1. /\ ~Alive(p) /\ proc' \in {proc, Nobody} /\ (proc' # proc => proc = p)
        /\ UNCHANGED <<localAt, process, termed, pidFile, entry, keys, struck, left, sweeps>>
    BY <1>13 DEF Notice
  <2>2. UnderWay' = UnderWay /\ (\A q \in Calls_ : Loose(q)' <=> Loose(q))
    BY <2>1 DEF UnderWay, Loose, Alive
  <2>3. Alive(proc)' => Alive(proc)
    BY <2>1 DEF Alive
  <2>4. Keyed' = Keyed /\ Shown' = Shown
    BY <2>1, <2>2 DEF Keyed, Shown
  <2>5. \A q \in Calls_ : Loose(q) => q # p
    BY <2>1 DEF Loose
  <2>6. KnownAgent'
    BY <1>2, <2>1, <2>2, <2>3, <2>4, <2>5 DEF KnownAgent
  <2> QED
    BY <1>5, <1>6, <1>8, <2>1, <2>6 DEF LocalSound
<1>14. ASSUME NEW p \in Calls_, Alive(p), Dies(p), UNCHANGED <<localAt, proc, entry, struck, sweeps>>,
              pidFile' = pidFile \/ (pidFile = p /\ pidFile' = Nobody)
       PROVE  LocalSound'
  <2>1. (\A q \in Calls_ \ {p} : process'[q] = process[q]) /\ process'[p] = "dead"
    BY <1>1, <1>14 DEF LocalTypeOK, Dies
  <2>2. \A q \in Calls_ : (Alive(q)' => Alive(q) /\ q # p) /\ (Loose(q)' => Loose(q) /\ q # p)
    BY <1>1, <1>14, <2>1 DEF Loose, Alive, Dies
  <2>3. OneWriter'
    BY <1>2, <1>14, <2>1 DEF OneWriter, Dies
  <2>4. Stray' /\ Unborn'
    BY <1>1, <1>2, <1>14, <2>1 DEF Stray, Unborn, Dies, Alive
  <2>5. KnownAgent'
    <3>1. process[p] # "none" /\ ~Alive(p)' /\ keys \ {p} \subseteq keys'
      BY <1>14, <2>2 DEF Dies, Alive
    <3>2. \A q \in Calls_ : Loose(q)' /\ q \in left => q \in left'
      BY <1>14, <2>2 DEF Dies
    <3> QED
      BY <1>4, <1>14, <2>2, <3>1, <3>2
  <2> QED
    BY <2>3, <2>4, <2>5 DEF LocalSound
<1>15. ASSUME NEW p \in Calls_, PidCheck(p) PROVE LocalSound'
  <2>1. CASE Alive(pidFile)
    <3>1. /\ Alive(p) /\ Dies(p)
          /\ UNCHANGED <<localAt, proc, entry, struck, sweeps, pidFile>>
      BY <1>1, <1>15, <2>1 DEF PidCheck, Alive
    <3> QED
      BY <1>14, <3>1
  <2>2. CASE ~Alive(pidFile)
    <3>1. /\ p \notin termed /\ process[p] = "boot"
          /\ process' = [process EXCEPT ![p] = "checked"]
          /\ UNCHANGED <<localAt, termed, proc, pidFile, entry, keys, struck, left, sweeps>>
      BY <1>15, <2>2 DEF PidCheck, Becomes
    <3>2. (\A q \in Calls_ \ {p} : process'[q] = process[q]) /\ process'[p] = "checked"
      BY <1>1, <3>1 DEF LocalTypeOK
    <3>3. \A q \in Calls_ : (Alive(q)' => Alive(q)) /\ (Loose(q)' => Loose(q))
      BY <1>1, <3>1, <3>2 DEF Loose, Alive
    <3>4. OneWriter'
      <4>1. \A q \in Calls_ : process[q] # "run"
        BY <1>1, <1>2, <2>2 DEF OneWriter, Alive
      <4> QED
        BY <1>2, <3>1, <3>2, <4>1 DEF OneWriter
    <3>5. Stray' /\ Unborn'
      BY <1>1, <1>2, <3>1, <3>2 DEF Stray, Unborn
    <3>6. KnownAgent'
      BY <1>4, <3>1, <3>3
    <3> QED
      BY <3>4, <3>5, <3>6 DEF LocalSound
  <2> QED
    BY <2>1, <2>2
<1>16. ASSUME NEW p \in Calls_, PidWrite(p) PROVE LocalSound'
  <2>1. /\ p \notin termed /\ process[p] = "checked" /\ pidFile' = p
        /\ process' = [process EXCEPT ![p] = "run"]
        /\ UNCHANGED <<localAt, termed, proc, entry, keys, struck, left, sweeps>>
    BY <1>16 DEF PidWrite, Becomes
  <2>2. (\A q \in Calls_ \ {p} : process'[q] = process[q]) /\ process'[p] = "run"
    BY <1>1, <2>1 DEF LocalTypeOK
  <2>3. \A q \in Calls_ : (Alive(q)' => Alive(q)) /\ (Loose(q)' => Loose(q))
    BY <1>1, <2>1, <2>2 DEF Loose, Alive
  <2>4. \A q \in Calls_ : process[q] # "run"
    BY <1>2, <2>1 DEF OneWriter
  <2>5. \A q \in Calls_ : Loose(q) => q = p
    <3>1. Loose(p) /\ left = {}
      BY <1>1, <1>2, <2>1, <2>4 DEF Loose, Alive, Stray
    <3> QED
      BY <1>2, <3>1 DEF KnownAgent
  <2>6. OneWriter'
    <3>1. \A q \in Calls_ \ {p} : process[q] = "checked" => q \in termed
      BY <1>1, <2>5 DEF Loose, Alive
    <3> QED
      BY <2>1, <2>2, <2>4, <3>1 DEF OneWriter
  <2>7. Stray' /\ Unborn'
    BY <1>1, <1>2, <2>1, <2>2 DEF Stray, Unborn
  <2>8. KnownAgent'
    BY <1>4, <2>1, <2>3
  <2> QED
    BY <2>6, <2>7, <2>8 DEF LocalSound
<1>17. ASSUME NEW p \in Calls_, ObeyTerm(p) \/ CrashAgent(p) PROVE LocalSound'
  BY <1>14, <1>17 DEF ObeyTerm, CrashAgent, Released
<1>18. ASSUME \/ \E p \in Calls_ : Beat_(p) \/ Reregister(p)
              \/ BeatServed \/ DeleteLocal \/ RevokeLocal
              \/ UNCHANGED localVars
       PROVE  LocalSound'
  <2>1. UNCHANGED <<localAt, proc, process, termed, pidFile, left, sweeps>>
    BY <1>18 DEF Beat_, Reregister, BeatServed, DeleteLocal, RevokeLocal, localVars
  <2>2. /\ struck => struck'
        /\ struck' \/ keys \subseteq keys'
    BY <1>18 DEF Beat_, Reregister, BeatServed, DeleteLocal, RevokeLocal, localVars
  <2>3. \/ entry' = entry \/ entry = "none" \/ struck'
        \/ \E p \in Calls_ : Loose(p) /\ p \notin keys
    BY <1>1, <1>18 DEF Beat_, Reregister, BeatServed, DeleteLocal, RevokeLocal, localVars, Loose,
                       Alive
  <2>4. \A q \in Calls_ : (Alive(q)' => Alive(q)) /\ (Loose(q)' => Loose(q))
    BY <2>1 DEF Loose, Alive
  <2>5. KnownAgent'
    BY <1>4, <2>1, <2>2, <2>3, <2>4
  <2> QED
    BY <1>5, <1>6, <1>8, <2>1, <2>5 DEF LocalSound
<1> QED
  BY <1>9, <1>10, <1>11, <1>12, <1>13, <1>15, <1>16, <1>17, <1>18 DEF LocalNext, ProcessStep

\* The invariant holds always.
THEOREM LocalInvariant == LocalSpec => []LocalInv
<1>1. LocalInv /\ [LocalNext]_localVars => LocalInv'
  BY LocalTypeStep, LocalStep DEF LocalInv
<1> QED
  BY LocalStarts, <1>1, PTL DEF LocalSpec

\* Every variable keeps its type.
THEOREM LocalTypes == LocalSpec => []LocalTypeOK
<1>1. LocalInv => LocalTypeOK
  BY DEF LocalInv
<1> QED
  BY LocalInvariant, <1>1, PTL

\* As long as calls do not overlap, at most one agent is past the pid file, and one that
\* lives between two calls is the one nCore knows and lists, or has been told to end, or
\* is one that a host without /proc cannot end; deletions and revocations included.
THEOREM OneAgentAtATime == LocalSpec => []OneTrackedAgent
<1>1. LocalInv => OneTrackedAgent
  <2> SUFFICES ASSUME LocalInv, ~overlap PROVE OneTrackedAgent
    BY DEF OneTrackedAgent, OneAgent, Tracked
  <2>1. KnownAgent /\ OneWriter
    BY DEF LocalInv, LocalSound
  <2>2. Tracked
    <3>1. \A p \in left : ~sweeps
      BY DEF LocalInv, LocalSound, Stray
    <3> QED
      BY <2>1, <3>1 DEF Tracked, KnownAgent, Shown
  <2> DEFINE R == {p \in Calls_ : process[p] = "run"}
  <2>3. R \subseteq {pidFile}
    BY <2>1 DEF OneWriter
  <2>4. Cardinality(R) <= 1
    <3>1. R = {} \/ R = {pidFile}
      BY <2>3
    <3> HIDE DEF R
    <3>2. Cardinality(R) = 0 \/ Cardinality(R) = 1
      BY <3>1, FS_EmptySet, FS_Singleton, Zenon
    <3> QED
      BY <3>2
  <2> QED
    BY <2>2, <2>4 DEF OneTrackedAgent, OneAgent
<1> QED
  BY LocalInvariant, <1>1, PTL

----------------------------------------------------------------------------
(* ModelServer: what the proof rests on.                                   *)

\* The steps of a load.
Working == {"fetch", "stop", "spawn", "wait", "record", "fail"}

\* Who works at a device knows which, a load its model too, only "off" wakes models, and
\* only the heartbeat checks.
Placed ==
  \A a \in Actors :
    /\ th[a].pc \in Working \cup {"lock", "kill", "halt", "drop"} => th[a].dev \in Devices
    /\ th[a].pc \in {"lock", "fetch", "spawn"} => th[a].model \in Models
    /\ th[a].pc = "wake" => th[a].op = "off"
    /\ th[a].pc = "check" => th[a].op = "beat"

\* A load or download of a command, and a restart by the heartbeat, hold the lock of
\* their device.
LocksHeld == \A a \in Actors :
               th[a].op \in {"load", "fetch", "beat"} /\ th[a].pc \in Working \cup {"kill"} =>
                 locks[th[a].dev] = a

\* Whoever waits, and whatever was left behind, there is a process.
Present(s) == s.owner # None \/ s.left => s.model # None

\* A process that is not yet ready is waited for by the thread that started it, unless
\* that thread ended with its agent.
OwnersWait == \A d \in Devices :
                /\ Present(srv[d])
                /\ LET a == srv[d].owner IN
                   a \in Actors => th[a].pc = "wait" /\ th[a].dev = d

\* The agent of RecordTrue.
Plain == link = "pull" /\ menu = Serial \cup {"prompt"} /\ ~auto

\* What runs on a device with server s and recorded model m is registered and recorded,
\* or an earlier agent left it and it is neither, or recorded as what it is.
Honest(s, m) == s.model # None => IF s.left THEN s.reg = "none" /\ m \in {None, s.model}
                                  ELSE s.reg = "live" /\ m = s.model

\* There, only the thread of the heartbeats, b, touches servers, so that what runs is
\* recorded but on the device it is at.
Known(s, m, b, d) ==
  IF b.dev = d /\ (b.pc \in {"spawn", "drop"} \/ (b.op = "beat" /\ b.pc \in {"stop", "fail"}))
  THEN s.model = None
  ELSE IF b.dev = d /\ b.pc = "wait"
  THEN s.model # None => s.model = b.model /\ s.owner = Beat /\ ~s.left
  ELSE IF b.dev = d /\ b.pc = "record"
  THEN Honest(s, b.model)
  ELSE /\ Honest(s, m)
       /\ b.pc = "sweep" /\ d \notin b.todo => s.reg = "none"
       /\ b.pc = "clear" => s.model = None

\* What that thread does there.
Runner(b) == /\ b.op \in Serial \cup {"none", "beat"}
             /\ b.pc \notin {"gen", "fetch", "doze", "wake"}
             /\ b.pc = "lock" => b.op = "load"

OneByOne ==
  Plain => /\ primed = Nothing
           /\ \A a \in Threads : th[a].pc \in {"idle", "gen"}
           /\ Runner(th[Beat])
           /\ \A d \in Devices : Known(srv[d], devs[d], th[Beat], d)

\* The inductive invariant.
ServerInv == ServerTypeOK /\ Placed /\ LocksHeld /\ OwnersWait /\ OneByOne

----------------------------------------------------------------------------
(* ModelServer: the types.                                                  *)

\* A device, a server or a thread that changes keeps its type.
LEMMA SetType ==
  ASSUME NEW D, NEW X, NEW f \in [D -> X], NEW d \in D, NEW x \in X
  PROVE  Set(f, d, x) \in [D -> X]
BY DEF Set

\* Stopping and pruning servers yields servers.
LEMMA ServerTypes ==
  /\ Stopped \in Server
  /\ \A s \in Server : StopServer(s) \in Server /\ Killed(s) \in Server
  /\ srv \in [Devices -> Server] => Pruned \in [Devices -> Server]
BY DEF Server, Stopped, StopServer, Killed, Pruned

\* At the start all is stopped and free.
LEMMA ServerStarts == ServerInit => ServerInv
<1> SUFFICES ASSUME ServerInit PROVE ServerInv
  OBVIOUS
<1>1. Free \in Thread /\ Nothing \in [Devices -> Models \cup {None}]
  BY ServerAssumption DEF Free, Nothing, Thread
<1>2. ServerTypeOK
  <2>1. 0 \in 0..MaxCommands /\ 0 \in 0..MaxServerFaults
    BY ServerAssumption
  <2>2. locks \in [Devices -> Actors \cup {None}]
    BY DEF ServerInit, Nothing
  <2> QED
    BY <1>1, <2>1, <2>2, ServerTypes DEF ServerInit, ServerTypeOK
<1>3. \A a \in Actors : th[a] = Free
  BY DEF ServerInit
<1>4. Beat \in Actors /\ \A a \in Threads : a \in Actors
  BY DEF Actors
<1>5. Placed /\ LocksHeld
  BY <1>3 DEF Placed, LocksHeld, Working, Free
<1>6. OwnersWait
  BY ServerAssumption DEF ServerInit, OwnersWait, Present, Stopped, Actors
<1>7. OneByOne
  BY <1>3, <1>4 DEF ServerInit, OneByOne, Runner, Known, Honest, Stopped, Free, Nothing
<1> QED
  BY <1>2, <1>5, <1>6, <1>7 DEF ServerInv

\* A thread whose step or locals change stays a thread.
LEMMA ThreadTypes ==
  /\ Free \in Thread
  /\ \A t \in Thread :
       /\ \A pc \in {"idle", "lock", "fetch", "kill", "stop", "spawn", "wait", "record",
                     "fail", "gen", "halt", "drop", "sweep", "clear", "check", "doze", "wake"} :
            [t EXCEPT !.pc = pc] \in Thread
       /\ \A S \in SUBSET Devices : [t EXCEPT !.todo = S] \in Thread
       /\ \A d \in Devices \cup {None} : [t EXCEPT !.dev = d] \in Thread
       /\ \A m \in Models \cup {None} : [t EXCEPT !.model = m] \in Thread
       /\ \A n \in 0..Retries : [t EXCEPT !.tries = n] \in Thread
<1>1. Free \in Thread
  BY ServerAssumption DEF Free, Nothing, Thread
<1>2. ASSUME NEW t \in Thread,
             NEW pc \in {"idle", "lock", "fetch", "kill", "stop", "spawn", "wait", "record",
                         "fail", "gen", "halt", "drop", "sweep", "clear", "check", "doze", "wake"}
      PROVE  [t EXCEPT !.pc = pc] \in Thread
  BY <1>2 DEF Thread
<1>3. ASSUME NEW t \in Thread, NEW S \in SUBSET Devices PROVE [t EXCEPT !.todo = S] \in Thread
  BY <1>3 DEF Thread
<1>4. ASSUME NEW t \in Thread, NEW d \in Devices \cup {None} PROVE [t EXCEPT !.dev = d] \in Thread
  BY <1>4 DEF Thread
<1>5. ASSUME NEW t \in Thread, NEW m \in Models \cup {None} PROVE [t EXCEPT !.model = m] \in Thread
  BY <1>5 DEF Thread
<1>6. ASSUME NEW t \in Thread, NEW n \in 0..Retries PROVE [t EXCEPT !.tries = n] \in Thread
  BY <1>6 DEF Thread
<1> QED
  BY <1>1, <1>2, <1>3, <1>4, <1>5, <1>6

\* Every step keeps the types.
LEMMA ServerTypeStep ==
  ASSUME ServerTypeOK, Placed, [ServerNext]_serverVars
  PROVE  ServerTypeOK'
<1>1. /\ Free \in Thread /\ None \notin Devices /\ Gpu0 \in Devices /\ Beat \in Actors
      /\ \A a \in Threads : a \in Actors
      /\ \A a \in Actors : th[a] \in Thread
      /\ \A d \in Devices : srv[d] \in Server
      /\ Nothing \in [Devices -> Models \cup {None}]
      /\ Nothing \in [Devices -> Actors \cup {None}]
  BY ServerAssumption, ThreadTypes DEF ServerTypeOK, Actors, Nothing
<1>19. ASSUME NEW a \in Actors, NEW op, Execute(a, op)
      PROVE  /\ link' \in {"pull", "push"} /\ menu' \in Menus
             /\ quietLong' \in BOOLEAN /\ locks' \in [Devices -> Actors \cup {None}]
             /\ commands' \in 0..MaxCommands /\ serverFaults' \in 0..MaxServerFaults
  <2>1. commands' \in 0..MaxCommands
    BY <1>19, ServerAssumption DEF Execute, ServerTypeOK
  <2> QED
    BY <1>19, <2>1 DEF Execute, ServerTypeOK
<1>2. ASSUME NEW a \in Actors, NEW m \in Models, NEW d \in Devices, NEW op \in {"load", "fetch"},
             Load(a, op, m, d)
      PROVE  ServerTypeOK'
  <2>1. [Free EXCEPT !.op = op, !.pc = "lock", !.dev = d, !.model = m] \in Thread
    BY <1>1, <1>2 DEF Free, Nothing, Thread, AllCommands, Serial
  <2>2. Execute(a, op) /\ UNCHANGED <<srv, devs, primed, files, auto>>
    BY <1>2 DEF Load, recordVars
  <2>3. th' \in [Actors -> Thread]
    BY <1>2, <2>1 DEF Load, Become, ServerTypeOK
  <2> QED
    BY <1>19, <2>2, <2>3 DEF ServerTypeOK
<1>3. ASSUME NEW a \in Actors, NEW m \in Models, Unload(a, m) PROVE ServerTypeOK'
  <2>1. \A d \in Devices : [Free EXCEPT !.op = "unload", !.pc = "halt", !.dev = d, !.model = m] \in Thread
    BY <1>1 DEF Free, Nothing, Thread, AllCommands, Serial
  <2>2. devs' \in [Devices -> Models \cup {None}]
    <3>1. \A mute : Adopted(mute) \in [Devices -> Models \cup {None}]
      BY <1>1 DEF Adopted, Set, ServerTypeOK, Server
    <3> QED
      BY <1>3, <3>1 DEF Unload
  <2>3. srv' \in [Devices -> Server]
    BY <1>3, ServerTypes DEF Unload, ServerTypeOK
  <2>4. primed' \in [Devices -> Models \cup {None}]
    BY <1>3 DEF Unload, Set, Asleep, ServerTypeOK
  <2>5. th' \in [Actors -> Thread]
    <3>1. th' = th \/ \E d \in Devices : Become(a, [Free EXCEPT !.op = "unload", !.pc = "halt",
                                                                !.dev = d, !.model = m])
      BY <1>3 DEF Unload, Active
    <3> QED
      BY <2>1, <3>1 DEF Become, ServerTypeOK
  <2> QED
    BY <1>3, <1>19, <2>2, <2>3, <2>4, <2>5 DEF Unload, ServerTypeOK
<1>4. ASSUME NEW a \in Actors, NEW m \in Models, DeleteModel(a, m) PROVE ServerTypeOK'
  <2>1. \A d \in Devices : [Free EXCEPT !.op = "delete", !.pc = "halt", !.dev = d, !.model = m] \in Thread
    BY <1>1 DEF Free, Nothing, Thread, AllCommands
  <2>2. th' \in [Actors -> Thread]
    BY <1>4, <2>1 DEF DeleteModel, Become, ServerTypeOK
  <2> QED
    BY <1>4, <1>19, <2>2 DEF DeleteModel, Erase, ServerTypeOK, recordVars
<1>5. ASSUME NEW a \in Actors, NEW m \in Models, Prompt(a, m) PROVE ServerTypeOK'
  <2>1. \A d \in Devices, x \in Models \cup {None}, pc \in {"gen", "stop"} :
          [Free EXCEPT !.op = "prompt", !.pc = pc, !.dev = d, !.model = x] \in Thread
    BY <1>1 DEF Free, Nothing, Thread, AllCommands
  <2>2. /\ primed' = primed \/ \E d \in Devices : primed' = Set(primed, d, None)
        /\ \/ th' = th
           \/ \E d \in Devices, x \in Models \cup {None}, pc \in {"gen", "stop"} :
                Become(a, [Free EXCEPT !.op = "prompt", !.pc = pc, !.dev = d, !.model = x])
    BY <1>5 DEF Prompt, Loaded, ServerTypeOK
  <2>3. primed' \in [Devices -> Models \cup {None}]
    BY <2>2 DEF Set, ServerTypeOK
  <2>4. th' \in [Actors -> Thread]
    <3>1. ASSUME NEW t \in Thread, Become(a, t) PROVE th' \in [Actors -> Thread]
      BY <3>1 DEF Become, ServerTypeOK
    <3>2. CASE th' = th
      BY <3>2 DEF ServerTypeOK
    <3> QED
      BY <2>1, <2>2, <3>1, <3>2
  <2> QED
    BY <1>5, <1>19, <2>3, <2>4 DEF Prompt, ServerTypeOK
<1>6. ASSUME NEW a \in Actors, UnloadAll(a) PROVE ServerTypeOK'
  <2>1. \A S \in SUBSET Devices :
          [Free EXCEPT !.op = "unload_all", !.pc = "sweep", !.todo = S] \in Thread
    BY <1>1 DEF Free, Nothing, Thread, AllCommands, Serial
  <2>2. th' \in [Actors -> Thread]
    BY <1>6, <2>1 DEF UnloadAll, Become, ServerTypeOK
  <2> QED
    BY <1>1, <1>6, <1>19, <2>2 DEF UnloadAll, ServerTypeOK
<1>7. ASSUME NEW a \in Actors, NEW op \in {"on", "off"}, Configure(a, op) PROVE ServerTypeOK'
  <2>1. \A S \in SUBSET Devices, f \in [Devices -> Models \cup {None}] :
          [Free EXCEPT !.op = "off", !.pc = "wake", !.todo = S, !.seen = f] \in Thread
    BY <1>1 DEF Free, Nothing, Thread, AllCommands
  <2>2. Loaded(primed) \subseteq Devices
    BY DEF Loaded
  <2>3. th' \in [Actors -> Thread]
    <3>1. [Free EXCEPT !.op = "off", !.pc = "wake", !.todo = Loaded(primed), !.seen = primed]
          \in Thread
      BY <2>1, <2>2 DEF ServerTypeOK
    <3> QED
      BY <1>7, <3>1 DEF Configure, Become, ServerTypeOK
  <2>4. auto' \in BOOLEAN
    BY <1>7 DEF Configure
  <2> QED
    BY <1>7, <1>19, <2>3, <2>4 DEF Configure, ServerTypeOK, recordVars
<1>8. ASSUME NEW a \in Actors, NEW d \in Devices, Reload(a, d) PROVE ServerTypeOK'
  <2>1. [Free EXCEPT !.op = "reload", !.pc = "stop", !.dev = d, !.model = devs[d]] \in Thread
    BY <1>1 DEF Free, Nothing, Thread, AllCommands, ServerTypeOK
  <2>2. th' \in [Actors -> Thread]
    BY <1>8, <2>1 DEF Reload, Become, ServerTypeOK
  <2> QED
    BY <1>8, <1>19, <2>2 DEF Reload, ServerTypeOK, recordVars
<1>9. ASSUME NEW a \in Actors, NEW pc \in {"idle", "lock", "fetch", "kill", "stop", "spawn", "wait",
               "record", "fail", "gen", "halt", "drop", "sweep", "clear", "check", "doze", "wake"},
             GoOn(a, pc)
      PROVE  th' \in [Actors -> Thread]
  <2>1. th' = [th EXCEPT ![a] = [th[a] EXCEPT !.pc = pc]]
    BY <1>9 DEF GoOn
  <2>2. [th[a] EXCEPT !.pc = pc] \in Thread
    BY <1>1, ThreadTypes
  <2> QED
    BY <2>1, <2>2 DEF ServerTypeOK
<1>10. ASSUME NEW a \in Actors, NEW t \in Thread, Become(a, t) PROVE th' \in [Actors -> Thread]
  BY <1>10 DEF Become, ServerTypeOK
<1>11. ASSUME NEW a \in Actors, Return(a) PROVE th' \in [Actors -> Thread]
  <2> DEFINE t == th[a]
  <2>1. /\ [t EXCEPT !.pc = "gen"] \in Thread
        /\ [t EXCEPT !.pc = "check", !.dev = None, !.model = None, !.tries = 0] \in Thread
        /\ [t EXCEPT !.pc = "wake", !.dev = None, !.model = None, !.tries = 0] \in Thread
    <3>1. t \in Thread /\ 0 \in 0..Retries
      BY <1>1, ServerAssumption
    <3> HIDE DEF t
    <3>2. [t EXCEPT !.pc = "gen"] \in Thread
      BY <3>1, ThreadTypes
    <3>3. ASSUME NEW pc \in {"check", "wake"}
          PROVE  [t EXCEPT !.pc = pc, !.dev = None, !.model = None, !.tries = 0] \in Thread
      <4> DEFINE u == [t EXCEPT !.pc = pc]
                 v == [u EXCEPT !.dev = None]
                 w == [v EXCEPT !.model = None]
      <4>1. u \in Thread
        BY <3>1, ThreadTypes
      <4>2. v \in Thread
        BY <4>1, ThreadTypes
      <4>3. w \in Thread
        BY <4>2, ThreadTypes
      <4>4. [w EXCEPT !.tries = 0] \in Thread
        BY <3>1, <4>3, ThreadTypes
      <4>5. [w EXCEPT !.tries = 0] = [t EXCEPT !.pc = pc, !.dev = None, !.model = None, !.tries = 0]
        BY <3>1 DEF Thread
      <4> QED
        BY <4>4, <4>5
    <3> QED
      BY <3>2, <3>3
  <2> HIDE DEF t
  <2> QED
    BY <1>1, <1>10, <1>11, <2>1 DEF Return, t
<1>12. ServerFault => serverFaults' \in 0..MaxServerFaults
  BY ServerAssumption DEF ServerFault, ServerTypeOK
<1>13. ASSUME NEW a \in Actors, LoadStep(a) PROVE ServerTypeOK'
  <2>1. /\ th[a].model \in Models \cup {None} /\ th[a].tries \in 0..Retries
        /\ a \in Actors \cup {None}
    BY <1>1 DEF Thread
  <2>2. Unlock(a) \in [Devices -> Actors \cup {None}]
    BY DEF Unlock, Set, ServerTypeOK
  <2>3. CASE Lock(a)
    <3>1. th' \in [Actors -> Thread]
      BY <1>1, <1>9, <1>10, <2>3 DEF Lock
    <3>2. locks' \in [Devices -> Actors \cup {None}]
      BY <2>3 DEF Lock, Set, ServerTypeOK
    <3> QED
      BY <2>3, <3>1, <3>2 DEF Lock, recordVars, otherVars, ServerTypeOK
  <2>4. CASE Fetch(a)
    <3>1. th' \in [Actors -> Thread] /\ serverFaults' \in 0..MaxServerFaults
      BY <1>9, <1>12, <2>4 DEF Fetch, ServerTypeOK
    <3>2. th[a].model \in Models
      BY <2>4 DEF Fetch, At, Placed
    <3> QED
      BY <2>4, <3>1, <3>2 DEF Fetch, recordVars, ServerTypeOK
  <2>5. CASE StopOld(a)
    <3>1. th' \in [Actors -> Thread]
      BY <1>9, <2>5 DEF StopOld
    <3>2. srv' \in [Devices -> Server]
      BY <1>1, <2>5, ServerTypes DEF StopOld, Set, ServerTypeOK
    <3> QED
      BY <2>5, <3>1, <3>2 DEF StopOld, recordVars, otherVars, ServerTypeOK
  <2>6. CASE Spawn(a)
    <3>1. th' \in [Actors -> Thread]
      BY <1>9, <2>6 DEF Spawn
    <3>2. ASSUME NEW d \in Devices
          PROVE  [srv[d] EXCEPT !.model = th[a].model, !.owner = a] \in Server
      BY <1>1, <2>1 DEF Server
    <3>3. srv' \in [Devices -> Server]
      <4> DEFINE d == th[a].dev
      <4>1. \/ srv' = srv
            \/ srv' = [srv EXCEPT ![d] = [srv[d] EXCEPT !.model = th[a].model, !.owner = a]]
        BY <2>6 DEF Spawn
      <4>2. d \in Devices
        BY <2>6 DEF Spawn, At, Placed, Working
      <4> QED
        BY <3>2, <4>1, <4>2 DEF ServerTypeOK
    <3> QED
      BY <2>6, <3>1, <3>3 DEF Spawn, recordVars, otherVars, ServerTypeOK
  <2>7. CASE Ready(a)
    <3>1. th' \in [Actors -> Thread]
      BY <1>9, <2>7 DEF Ready
    <3>2. srv' \in [Devices -> Server]
      <4> DEFINE d == th[a].dev
                 s == [srv[d] EXCEPT !.reg = IF Mine(a) THEN "live" ELSE "dead",
                                     !.owner = IF Mine(a) THEN None ELSE @]
      <4>1. srv' = [srv EXCEPT ![d] = s]
        BY <2>7 DEF Ready
      <4>2. d \in Devices
        BY <2>7 DEF Ready, At, Placed, Working
      <4>3. s \in Server
        <5>1. srv[d] \in Server /\ srv[d].owner \in Actors \cup {None, Orphan}
          BY <1>1, <4>2 DEF Server
        <5>2. \A reg \in {"live", "dead"}, x \in Actors \cup {None, Orphan} :
                [srv[d] EXCEPT !.reg = reg, !.owner = x] \in Server
          BY <5>1 DEF Server
        <5>3. s \in {[srv[d] EXCEPT !.reg = "live", !.owner = None],
                     [srv[d] EXCEPT !.reg = "dead", !.owner = srv[d].owner]}
          OBVIOUS
        <5> QED
          BY <5>1, <5>2, <5>3
      <4> QED
        BY <4>1, <4>2, <4>3 DEF ServerTypeOK
    <3> QED
      BY <2>7, <3>1, <3>2 DEF Ready, recordVars, otherVars, ServerTypeOK
  <2>8. CASE NotReady(a)
    <3>1. th' \in [Actors -> Thread]
      <4>1. th[a].tries < Retries => [th[a] EXCEPT !.pc = "stop", !.tries = @ + 1] \in Thread
        <5> SUFFICES ASSUME th[a].tries < Retries
                     PROVE  [th[a] EXCEPT !.pc = "stop", !.tries = @ + 1] \in Thread
          OBVIOUS
        <5>1. th[a].tries + 1 \in 0..Retries
          BY <2>1, ServerAssumption
        <5> DEFINE u == [th[a] EXCEPT !.pc = "stop"]
        <5>2. u \in Thread
          BY <1>1, ThreadTypes
        <5>3. [u EXCEPT !.tries = th[a].tries + 1] \in Thread
          BY <5>1, <5>2, ThreadTypes
        <5>4. [u EXCEPT !.tries = th[a].tries + 1] = [th[a] EXCEPT !.pc = "stop", !.tries = @ + 1]
          BY <1>1 DEF Thread
        <5> QED
          BY <5>3, <5>4
      <4> QED
        BY <1>9, <1>10, <2>8, <4>1 DEF NotReady
    <3>2. srv' \in [Devices -> Server] /\ serverFaults' \in 0..MaxServerFaults
      BY <1>1, <1>12, <2>8, ServerTypes DEF NotReady, Set, ServerTypeOK
    <3> QED
      BY <2>8, <3>1, <3>2 DEF NotReady, recordVars, ServerTypeOK
  <2>9. CASE Record(a) \/ LoadFails(a)
    <3>1. th' \in [Actors -> Thread] /\ locks' \in [Devices -> Actors \cup {None}]
      BY <1>11, <2>2, <2>9 DEF Record, LoadFails
    <3>2. devs' \in [Devices -> Models \cup {None}]
      BY <2>1, <2>9 DEF Record, LoadFails, Set, ServerTypeOK
    <3> QED
      BY <2>9, <3>1, <3>2 DEF Record, LoadFails, otherVars, ServerTypeOK
  <2> QED
    BY <1>13, <2>3, <2>4, <2>5, <2>6, <2>7, <2>8, <2>9 DEF LoadStep
<1>14. ASSUME NEW a \in Actors, Generate(a) \/ Halt(a) \/ Drop(a) \/ Sweep(a) \/ Clear(a) \/ Wake(a)
       PROVE  ServerTypeOK'
  <2>1. CASE Generate(a)
    BY <1>1, <1>10, <2>1 DEF Generate, recordVars, otherVars, ServerTypeOK
  <2>2. CASE Halt(a)
    <3>1. th' \in [Actors -> Thread]
      BY <1>9, <2>2 DEF Halt
    <3>2. srv' \in [Devices -> Server]
      BY <1>1, <2>2, ServerTypes DEF Halt, Set, ServerTypeOK
    <3> QED
      BY <2>2, <3>1, <3>2 DEF Halt, recordVars, otherVars, ServerTypeOK
  <2>3. CASE Drop(a)
    <3>1. th' \in [Actors -> Thread]
      BY <1>1, <1>10, <2>3 DEF Drop
    <3>2. devs' \in [Devices -> Models \cup {None}] /\ files' \subseteq Models
      BY <2>3 DEF Drop, Erase, Set, ServerTypeOK
    <3> QED
      BY <2>3, <3>1, <3>2 DEF Drop, ServerTypeOK
  <2>4. CASE Sweep(a)
    <3>1. \A d \in Devices : [th[a] EXCEPT !.todo = @ \ {d}] \in Thread
      BY <1>1 DEF Thread
    <3>2. \A d \in th[a].todo : d \in Devices
      BY <1>1 DEF Thread
    <3>3. th' \in [Actors -> Thread]
      BY <1>9, <1>10, <2>4, <3>1, <3>2 DEF Sweep
    <3>4. srv' \in [Devices -> Server]
      <4>1. [d \in Devices |-> Stopped] \in [Devices -> Server]
        BY ServerTypes
      <4>2. \A d \in Devices : Set(srv, d, StopServer(srv[d])) \in [Devices -> Server]
        BY <1>1, ServerTypes DEF Set, ServerTypeOK
      <4> QED
        BY <2>4, <3>2, <4>1, <4>2 DEF Sweep, ServerTypeOK
    <3> QED
      BY <2>4, <3>3, <3>4 DEF Sweep, recordVars, otherVars, ServerTypeOK
  <2>5. CASE Clear(a)
    <3>1. th' \in [Actors -> Thread]
      BY <1>1, <1>10, <2>5 DEF Clear
    <3> QED
      BY <1>1, <2>5, <3>1 DEF Clear, otherVars, ServerTypeOK
  <2>6. CASE Wake(a)
    <3>1. \A d \in th[a].todo : d \in Devices /\ th[a].seen[d] \in Models \cup {None}
      BY <1>1 DEF Thread
    <3>2. \A d \in th[a].todo :
            [th[a] EXCEPT !.pc = "stop", !.dev = d, !.model = th[a].seen[d], !.todo = @ \ {d}]
            \in Thread
      BY <1>1, <3>1 DEF Thread
    <3>3. th' \in [Actors -> Thread]
      BY <1>1, <1>10, <2>6, <3>2 DEF Wake
    <3>4. primed' \in [Devices -> Models \cup {None}]
      BY <1>1, <2>6 DEF Wake, ServerTypeOK
    <3> QED
      BY <2>6, <3>3, <3>4 DEF Wake, otherVars, ServerTypeOK
  <2> QED
    BY <1>14, <2>1, <2>2, <2>3, <2>4, <2>5, <2>6
<1>15. ASSUME NEW a \in Actors, BeginBeat(a) \/ BeatStep(a) PROVE ServerTypeOK'
  <2>1. /\ Loaded(devs) \subseteq Devices /\ {d \in Devices : srv[d].reg # "live"} \subseteq Devices
        /\ devs \in [Devices -> Models \cup {None}]
        /\ th[a] \in Thread
    BY <1>1 DEF Loaded, ServerTypeOK
  <2>2. CASE BeginBeat(a)
    <3>1. [Free EXCEPT !.op = "beat", !.pc = "check", !.todo = Loaded(devs), !.seen = devs,
                       !.down = {d \in Devices : srv[d].reg # "live"}] \in Thread
      BY <1>1, <2>1 DEF Free, Nothing, Thread
    <3>2. th' \in [Actors -> Thread]
      BY <1>1, <1>10, <2>2, <3>1 DEF BeginBeat
    <3> QED
      BY <2>2, <3>2, ServerTypes DEF BeginBeat, recordVars, otherVars, ServerTypeOK
  <2>3. ASSUME NEW d \in Devices, CheckDevice(a, d) PROVE ServerTypeOK'
    <3> DEFINE t == th[a]
    <3>1. /\ [t EXCEPT !.pc = "kill", !.dev = d, !.model = t.seen[d], !.todo = @ \ {d}] \in Thread
          /\ [t EXCEPT !.todo = @ \ {d}] \in Thread
      <4>1. t.seen[d] \in Models \cup {None} /\ t.todo \ {d} \in SUBSET Devices
        BY <2>1 DEF Thread
      <4> QED
        BY <2>1, <4>1 DEF Thread
    <3>2. th' \in [Actors -> Thread]
      BY <1>1, <1>10, <2>3, <3>1 DEF CheckDevice
    <3>3. locks' \in [Devices -> Actors \cup {None}]
      BY <1>1, <2>3 DEF CheckDevice, Set, ServerTypeOK
    <3> QED
      BY <2>3, <3>2, <3>3 DEF CheckDevice, recordVars, otherVars, ServerTypeOK
  <2>4. CASE Kill(a)
    <3>1. th' \in [Actors -> Thread]
      BY <1>1, <1>9, <2>4 DEF Kill
    <3>2. srv' \in [Devices -> Server]
      BY <1>1, <2>4, ServerTypes DEF Kill, Set, ServerTypeOK
    <3> QED
      BY <2>4, <3>1, <3>2 DEF Kill, recordVars, otherVars, ServerTypeOK
  <2>5. CASE CheckIdle(a)
    <3>1. [Free EXCEPT !.op = "beat", !.pc = "doze", !.todo = Loaded(devs), !.seen = devs] \in Thread
      BY <1>1, <2>1 DEF Free, Nothing, Thread
    <3>2. th' \in [Actors -> Thread]
      BY <1>1, <1>10, <2>5, <3>1 DEF CheckIdle
    <3> QED
      BY <2>5, <3>2 DEF CheckIdle, recordVars, otherVars, ServerTypeOK
  <2>6. CASE Doze(a)
    <3> DEFINE t == th[a]
    <3>1. \A d \in t.todo : /\ [t EXCEPT !.todo = @ \ {d}] \in Thread
                            /\ d \in Devices /\ t.seen[d] \in Models \cup {None}
      BY <2>1 DEF Thread
    <3>2. th' \in [Actors -> Thread]
      BY <1>1, <1>10, <2>6, <3>1 DEF Doze
    <3>3. srv' \in [Devices -> Server]
      <4>1. \A d \in Devices : Set(srv, d, StopServer(srv[d])) \in [Devices -> Server]
        BY <1>1, ServerTypes DEF Set, ServerTypeOK
      <4> QED
        BY <2>6, <3>1, <4>1 DEF Doze, ServerTypeOK
    <3>4. /\ primed' \in [Devices -> Models \cup {None}]
          /\ devs' \in [Devices -> Models \cup {None}]
      BY <1>1, <2>6, <3>1 DEF Doze, Set, ServerTypeOK
    <3> QED
      BY <2>6, <3>2, <3>3, <3>4 DEF Doze, otherVars, ServerTypeOK
  <2> QED
    BY <1>15, <2>2, <2>3, <2>4, <2>5, <2>6 DEF BeatStep
<1>16. CASE QuietPasses \/ UNCHANGED serverVars
  BY <1>16 DEF QuietPasses, recordVars, serverVars, ServerTypeOK
<1>17. CASE RestartAgent
  <2>1. /\ \A d \in Devices :
              [srv[d] EXCEPT !.owner = Orphan, !.reg = "none", !.left = TRUE] \in Server
        /\ Stopped \in Server
    BY <1>1, ServerTypes DEF Server
  <2>2. srv' \in [Devices -> Server]
    BY <1>17, <2>1 DEF RestartAgent
  <2>3. th' \in [Actors -> Thread]
    BY <1>1, <1>17 DEF RestartAgent
  <2> QED
    BY <1>1, <1>12, <1>17, <2>2, <2>3 DEF RestartAgent, ServerTypeOK
<1>20. ASSUME NEW d \in Devices, Settle(d) PROVE ServerTypeOK'
  <2>1. [srv[d] EXCEPT !.owner = None] \in Server
    BY <1>1 DEF Server
  <2>2. srv' \in [Devices -> Server]
    BY <1>20, <2>1 DEF Settle, ServerTypeOK
  <2> QED
    BY <1>20, <2>2 DEF Settle, recordVars, otherVars, ServerTypeOK
<1>18. ASSUME NEW d \in Devices, Crash(d) \/ Hang(d) PROVE ServerTypeOK'
  <2>1. /\ [Stopped EXCEPT !.reg = IF srv[d].reg = "live" THEN "dead" ELSE srv[d].reg] \in Server
        /\ [srv[d] EXCEPT !.hung = TRUE] \in Server
    BY <1>1, ServerTypes DEF Server
  <2>2. srv' \in [Devices -> Server]
    BY <1>18, <2>1 DEF Crash, Hang, Set, ServerTypeOK
  <2>3. serverFaults' \in 0..MaxServerFaults
    BY <1>12, <1>18 DEF Crash, Hang
  <2> QED
    BY <1>18, <2>2, <2>3 DEF Crash, Hang, recordVars, ServerTypeOK
<1> QED
  BY <1>2, <1>3, <1>4, <1>5, <1>6, <1>7, <1>8, <1>13, <1>14, <1>15, <1>16, <1>17, <1>18,
     <1>20 DEF ServerNext, CommandStep

----------------------------------------------------------------------------
(* ModelServer: locks.                                                      *)

\* Who works at a device still knows which.
LEMMA PlacedStep == ASSUME ServerTypeOK, Placed, [ServerNext]_serverVars PROVE Placed'
<1> DEFINE P(t) == /\ t.pc \in Working \cup {"lock", "kill", "halt", "drop"} => t.dev \in Devices
                   /\ t.pc \in {"lock", "fetch", "spawn"} => t.model \in Models
                   /\ t.pc = "wake" => t.op = "off"
                   /\ t.pc = "check" => t.op = "beat"
<1>1. /\ \A a \in Actors : th[a] \in Thread /\ P(th[a])
      /\ Beat \in Actors
      /\ \A a \in Threads : a \in Actors
      /\ P(Free)
  BY DEF ServerTypeOK, Placed, Actors, Free, Working
<1>2. ASSUME NEW a \in Actors, NEW t, P(t), Become(a, t) PROVE Placed'
  BY <1>1, <1>2 DEF Become, Placed, ServerTypeOK
<1>3. ASSUME NEW a \in Actors, NEW pc, GoOn(a, pc), th[a].dev \in Devices,
             pc \in {"lock", "fetch", "spawn"} => th[a].model \in Models, pc \notin {"wake", "check"}
      PROVE  Placed'
  <2> DEFINE t == [th[a] EXCEPT !.pc = pc]
  <2>1. t.dev = th[a].dev /\ t.model = th[a].model /\ t.pc = pc
    BY <1>1 DEF Thread
  <2>2. Become(a, t)
    BY <1>3 DEF GoOn, Become
  <2> HIDE DEF t
  <2> QED
    BY <1>2, <1>3, <2>1, <2>2
<1>4. CASE th' = th
  BY <1>4 DEF Placed
<1>5. ASSUME NEW a \in Actors, NEW m \in Models, Unload(a, m) \/ DeleteModel(a, m) \/ Prompt(a, m)
      PROVE  Placed'
  <2>1. \/ th' = th
        \/ \E op, pc, x : \E d \in Devices :
             /\ pc \in {"halt", "gen", "stop"}
             /\ Become(a, [Free EXCEPT !.op = op, !.pc = pc, !.dev = d, !.model = x])
    BY <1>5 DEF Unload, DeleteModel, Prompt, Active, Loaded
  <2>2. \A op, pc, x : \A d \in Devices :
          pc \in {"halt", "gen", "stop"}
          => P([Free EXCEPT !.op = op, !.pc = pc, !.dev = d, !.model = x])
    BY DEF Free
  <2> HIDE DEF P
  <2> QED
    BY <1>2, <1>4, <2>1, <2>2
<1>6. ASSUME NEW a \in Actors, NEW m \in Models, NEW d \in Devices, NEW op, Load(a, op, m, d)
      PROVE  Placed'
  <2>1. P([Free EXCEPT !.op = op, !.pc = "lock", !.dev = d, !.model = m])
    BY DEF Free
  <2> QED
    BY <1>2, <1>6, <2>1 DEF Load
<1>7. ASSUME NEW a \in Actors,
             UnloadAll(a) \/ (\E op : Configure(a, op)) \/ (\E d \in Devices : Reload(a, d))
      PROVE  Placed'
  <2>1. /\ \A S : P([Free EXCEPT !.op = "unload_all", !.pc = "sweep", !.todo = S])
        /\ \A S, f : P([Free EXCEPT !.op = "off", !.pc = "wake", !.todo = S, !.seen = f])
        /\ \A d \in Devices : \A x :
             P([Free EXCEPT !.op = "reload", !.pc = "stop", !.dev = d, !.model = x])
    BY DEF Free, Working
  <2>2. CASE UnloadAll(a)
    BY <1>2, <2>1, <2>2 DEF UnloadAll
  <2>3. ASSUME NEW op, Configure(a, op) PROVE Placed'
    BY <1>2, <1>4, <2>1, <2>3 DEF Configure
  <2>4. ASSUME NEW d \in Devices, Reload(a, d) PROVE Placed'
    BY <1>2, <2>1, <2>4 DEF Reload
  <2> QED
    BY <1>7, <2>2, <2>3, <2>4
<1>8. ASSUME NEW a \in Actors, LoadStep(a) PROVE Placed'
  <2>1. th[a].dev \in Devices /\ (th[a].pc = "lock" => th[a].model \in Models)
    BY <1>8 DEF LoadStep, Lock, Fetch, StopOld, Spawn, Ready, NotReady, Record, LoadFails, At,
                Placed, Working
  <2>2. CASE Record(a) \/ LoadFails(a)
    <3>1. \A pc \in {"check", "wake"} :
            th[a].op = (IF pc = "check" THEN "beat" ELSE "off")
            => P([th[a] EXCEPT !.pc = pc, !.dev = None, !.model = None, !.tries = 0])
      BY <1>1 DEF Thread, Working
    <3>2. P([th[a] EXCEPT !.pc = "gen"])
      BY <1>1 DEF Thread, Working
    <3> HIDE DEF P
    <3> QED
      BY <1>1, <1>2, <2>2, <3>1, <3>2 DEF Record, LoadFails, Return
  <2>3. CASE Lock(a)
    BY <1>1, <1>2, <1>3, <2>1, <2>3 DEF Lock, At
  <2>4. CASE Fetch(a) \/ StopOld(a) \/ Spawn(a) \/ Ready(a)
    BY <1>3, <2>1, <2>4 DEF Fetch, StopOld, Spawn, Ready, ServerTypeOK
  <2>5. CASE NotReady(a)
    <3>1. P([th[a] EXCEPT !.pc = "stop", !.tries = @ + 1])
      BY <1>1, <2>1 DEF Thread
    <3> HIDE DEF P
    <3> QED
      BY <1>2, <1>3, <2>1, <2>5, <3>1 DEF NotReady
  <2> QED
    BY <1>8, <2>2, <2>3, <2>4, <2>5 DEF LoadStep
<1>9. ASSUME NEW a \in Actors, Generate(a) \/ Halt(a) \/ Drop(a) \/ Sweep(a) \/ Clear(a) \/ Wake(a)
      PROVE  Placed'
  <2>1. CASE Generate(a) \/ Drop(a) \/ Clear(a)
    BY <1>1, <1>2, <2>1 DEF Generate, Drop, Clear
  <2>2. CASE Halt(a)
    BY <1>3, <2>2 DEF Halt, At, Placed
  <2>3. CASE Sweep(a)
    <3>1. \A S : P([th[a] EXCEPT !.todo = S])
      BY <1>1 DEF Thread
    <3>2. th[a].pc = "sweep" => P([th[a] EXCEPT !.pc = "clear"])
      BY <1>1 DEF Thread, Working
    <3> HIDE DEF P
    <3> QED
      BY <1>2, <2>3, <3>1, <3>2 DEF Sweep, At, GoOn, Become
  <2>4. CASE Wake(a)
    <3>1. \A d \in Devices : \A m, S :
            P([th[a] EXCEPT !.pc = "stop", !.dev = d, !.model = m, !.todo = S])
      BY <1>1 DEF Thread
    <3>2. \A d \in th[a].todo : d \in Devices
      BY <1>1 DEF Thread
    <3> HIDE DEF P
    <3> QED
      BY <1>1, <1>2, <2>4, <3>1, <3>2 DEF Wake
  <2> QED
    BY <1>9, <2>1, <2>2, <2>3, <2>4
<1>10. ASSUME NEW a \in Actors, BeginBeat(a) \/ BeatStep(a) PROVE Placed'
  <2> DEFINE t == th[a]
  <2>1. /\ \A S : P([t EXCEPT !.todo = S])
        /\ \A d \in Devices : \A m, S : P([t EXCEPT !.pc = "kill", !.dev = d, !.model = m, !.todo = S])
        /\ \A S, f, D : P([Free EXCEPT !.op = "beat", !.pc = "check", !.todo = S, !.seen = f,
                                       !.down = D])
        /\ \A S, f : P([Free EXCEPT !.op = "beat", !.pc = "doze", !.todo = S, !.seen = f])
    BY <1>1 DEF Thread, Free, Working
  <2>2. CASE Kill(a)
    BY <1>1, <1>3, <2>2 DEF Kill, At, Placed
  <2> HIDE DEF P
  <2>3. CASE BeginBeat(a) \/ CheckIdle(a) \/ Doze(a)
    BY <1>1, <1>2, <2>1, <2>3 DEF BeginBeat, CheckIdle, Doze
  <2>4. ASSUME NEW d \in Devices, CheckDevice(a, d) PROVE Placed'
    BY <1>1, <1>2, <2>1, <2>4 DEF CheckDevice, At, ServerTypeOK
  <2> QED
    BY <1>10, <2>2, <2>3, <2>4 DEF BeatStep
<1>11. CASE RestartAgent
  BY <1>1, <1>11 DEF RestartAgent, Placed
<1>12. ASSUME QuietPasses \/ (\E d \in Devices : Crash(d) \/ Hang(d) \/ Settle(d))
              \/ UNCHANGED serverVars
       PROVE  th' = th
  BY <1>12 DEF QuietPasses, Crash, Hang, Settle, serverVars
<1> QED
  BY <1>4, <1>5, <1>6, <1>7, <1>8, <1>9, <1>10, <1>11, <1>12 DEF ServerNext, CommandStep

\* A lock is released only by the thread that holds it, at the end of its work.
LEMMA LocksStep ==
  ASSUME ServerTypeOK, Placed, LocksHeld, [ServerNext]_serverVars
  PROVE  LocksHeld'
<1> DEFINE G(t) == t.op \in {"load", "fetch", "beat"} /\ t.pc \in Working \cup {"kill"}
<1>1. /\ None \notin Actors /\ Beat \in Actors
      /\ \A a \in Threads : a \in Actors
      /\ \A a \in Actors : /\ th[a] \in Thread
                           /\ G(th[a]) => th[a].dev \in Devices /\ locks[th[a].dev] = a
      /\ ~G(Free)
  BY ServerAssumption DEF ServerTypeOK, Placed, LocksHeld, Actors, Free, Working
<1>2. ASSUME NEW a \in Actors, NEW t, Become(a, t), locks' = locks,
             G(t) => locks[t.dev] = a
      PROVE  LocksHeld'
  BY <1>1, <1>2 DEF Become, LocksHeld, ServerTypeOK
<1>3. ASSUME NEW a \in Actors, NEW t, Become(a, t), NEW d \in Devices, NEW x,
             locks[d] \in {None, a}, locks' = Set(locks, d, x),
             G(t) => locks'[t.dev] = a
      PROVE  LocksHeld'
  BY <1>1, <1>3 DEF Become, LocksHeld, Set, ServerTypeOK
<1>4. ASSUME NEW a \in Actors, NEW pc, GoOn(a, pc), locks' = locks,
             pc \in Working => th[a].pc \in Working \cup {"kill"}, pc # "kill"
      PROVE  LocksHeld'
  <2> DEFINE t == [th[a] EXCEPT !.pc = pc]
  <2>1. t.dev = th[a].dev /\ t.op = th[a].op /\ t.pc = pc
    BY <1>1 DEF Thread
  <2>2. Become(a, t)
    BY <1>4 DEF GoOn, Become
  <2> HIDE DEF t
  <2>3. G(t) => locks[t.dev] = a
    BY <1>1, <1>4, <2>1
  <2> QED
    BY <1>2, <1>4, <2>2, <2>3
<1>5. CASE UNCHANGED <<th, locks>>
  BY <1>5 DEF LocksHeld
<1>6. ASSUME NEW a \in Actors, NEW m \in Models,
             \/ \E op, d : Load(a, op, m, d)
             \/ Unload(a, m) \/ DeleteModel(a, m) \/ Prompt(a, m)
      PROVE  LocksHeld'
  <2>1. locks' = locks
    BY <1>6 DEF Load, Unload, DeleteModel, Prompt, Execute
  <2>2. \/ th' = th
        \/ \E op, pc, d, x :
             /\ pc \in {"halt", "gen", "lock"} \/ op = "prompt"
             /\ Become(a, [Free EXCEPT !.op = op, !.pc = pc, !.dev = d, !.model = x])
    BY <1>6 DEF Load, Unload, DeleteModel, Prompt
  <2>3. \A op, pc, d, x :
          pc \in {"halt", "gen", "lock"} \/ op = "prompt"
          => ~G([Free EXCEPT !.op = op, !.pc = pc, !.dev = d, !.model = x])
    BY DEF Free, Working
  <2> HIDE DEF G
  <2> QED
    BY <1>2, <1>5, <2>1, <2>2, <2>3
<1>7. ASSUME NEW a \in Actors,
             UnloadAll(a) \/ (\E op : Configure(a, op)) \/ (\E d \in Devices : Reload(a, d))
      PROVE  LocksHeld'
  <2>1. /\ \A S : ~G([Free EXCEPT !.op = "unload_all", !.pc = "sweep", !.todo = S])
        /\ \A S, f : ~G([Free EXCEPT !.op = "off", !.pc = "wake", !.todo = S, !.seen = f])
        /\ \A d \in Devices : \A x :
             ~G([Free EXCEPT !.op = "reload", !.pc = "stop", !.dev = d, !.model = x])
    BY DEF Free, Working
  <2>2. locks' = locks
    BY <1>7 DEF UnloadAll, Configure, Reload, Execute
  <2> HIDE DEF G
  <2>3. CASE UnloadAll(a)
    BY <1>2, <2>1, <2>2, <2>3 DEF UnloadAll
  <2>4. ASSUME NEW op, Configure(a, op) PROVE LocksHeld'
    BY <1>2, <1>5, <2>1, <2>2, <2>4 DEF Configure
  <2>5. ASSUME NEW d \in Devices, Reload(a, d) PROVE LocksHeld'
    BY <1>2, <2>1, <2>2, <2>5 DEF Reload
  <2> QED
    BY <1>7, <2>3, <2>4, <2>5
<1>8. ASSUME NEW a \in Actors, LoadStep(a) PROVE LocksHeld'
  <2>1. th[a].dev \in Devices
    BY <1>8 DEF LoadStep, Lock, Fetch, StopOld, Spawn, Ready, NotReady, Record, LoadFails, At,
                Placed, Working
  <2>2. CASE Record(a) \/ LoadFails(a)
    <3>1. \A pc \in {"check", "wake"} :
            ~G([th[a] EXCEPT !.pc = pc, !.dev = None, !.model = None, !.tries = 0])
      BY <1>1 DEF Thread, Working
    <3>2. ~G([th[a] EXCEPT !.pc = "gen"])
      BY <1>1 DEF Thread, Working
    <3> HIDE DEF G
    <3>3. \E t : Become(a, t) /\ ~G(t)
      BY <1>1, <2>2, <3>1, <3>2 DEF Record, LoadFails, Return
    <3>4. \/ locks' = locks
          \/ locks[th[a].dev] = a /\ locks' = Set(locks, th[a].dev, None)
      BY <2>2 DEF Record, LoadFails, Unlock
    <3> QED
      BY <1>2, <1>3, <2>1, <3>3, <3>4
  <2>3. CASE Lock(a)
    <3>1. CASE Become(a, Free) /\ locks' = locks
      BY <1>1, <1>2, <3>1
    <3>2. ASSUME NEW pc, GoOn(a, pc), locks' = Set(locks, th[a].dev, a), locks[th[a].dev] = None
          PROVE  LocksHeld'
      <4> DEFINE t == [th[a] EXCEPT !.pc = pc]
      <4>1. t.dev = th[a].dev /\ Become(a, t)
        BY <1>1, <3>2 DEF Thread, GoOn, Become
      <4>2. locks'[t.dev] = a
        BY <2>1, <3>2, <4>1 DEF Set, ServerTypeOK
      <4> HIDE DEF t
      <4> QED
        BY <1>3, <2>1, <3>2, <4>1, <4>2
    <3> QED
      BY <2>3, <3>1, <3>2 DEF Lock
  <2>4. CASE Fetch(a) \/ StopOld(a) \/ Spawn(a) \/ Ready(a)
    BY <1>4, <2>4 DEF Fetch, StopOld, Spawn, Ready, At, Working, otherVars
  <2>5. CASE NotReady(a)
    <3> DEFINE t == [th[a] EXCEPT !.pc = "stop", !.tries = @ + 1]
    <3>1. t.dev = th[a].dev /\ t.op = th[a].op
      BY <1>1 DEF Thread
    <3>2. th[a].pc = "wait" /\ locks' = locks /\ (Become(a, t) \/ GoOn(a, "fail"))
      BY <2>5 DEF NotReady, At
    <3> HIDE DEF t
    <3>3. G(t) => locks[t.dev] = a
      BY <1>1, <3>1, <3>2 DEF Working
    <3> QED
      BY <1>2, <1>4, <3>2, <3>3 DEF Working
  <2> QED
    BY <1>8, <2>2, <2>3, <2>4, <2>5 DEF LoadStep
<1>9. ASSUME NEW a \in Actors, Generate(a) \/ Halt(a) \/ Drop(a) \/ Sweep(a) \/ Clear(a) \/ Wake(a)
      PROVE  LocksHeld'
  <2>1. CASE Generate(a) \/ Drop(a) \/ Clear(a)
    BY <1>1, <1>2, <2>1 DEF Generate, Drop, Clear
  <2>2. CASE Halt(a)
    BY <1>4, <2>2 DEF Halt, Working
  <2>3. CASE Sweep(a)
    <3>1. \A S : th[a].pc = "sweep" => ~G([th[a] EXCEPT !.todo = S])
      BY <1>1 DEF Thread, Working
    <3>2. CASE GoOn(a, "clear")
      BY <1>4, <2>3, <3>2 DEF Sweep, Working
    <3> HIDE DEF G
    <3> QED
      BY <1>2, <2>3, <3>1, <3>2 DEF Sweep, At
  <2>4. CASE Wake(a)
    <3>1. th[a].op = "off" /\ locks' = locks
      BY <2>4 DEF Wake, At, Placed
    <3>2. \A d, m, S : ~G([th[a] EXCEPT !.pc = "stop", !.dev = d, !.model = m, !.todo = S])
      BY <1>1, <3>1 DEF Thread
    <3> HIDE DEF G
    <3> QED
      BY <1>1, <1>2, <2>4, <3>1, <3>2 DEF Wake
  <2> QED
    BY <1>9, <2>1, <2>2, <2>3, <2>4
<1>10. ASSUME NEW a \in Actors, BeginBeat(a) \/ BeatStep(a) PROVE LocksHeld'
  <2> DEFINE t == th[a]
  <2>1. CASE Kill(a)
    BY <1>1, <1>4, <2>1 DEF Kill, At
  <2>2. ASSUME NEW d \in Devices, CheckDevice(a, d) PROVE LocksHeld'
    <3>1. CASE (d \in t.down \/ Fails(d)) /\ locks[d] = None
      <4> DEFINE k == [t EXCEPT !.pc = "kill", !.dev = d, !.model = t.seen[d], !.todo = @ \ {d}]
      <4>1. k.dev = d
        BY <1>1 DEF Thread
      <4>2. Become(a, k) /\ locks' = Set(locks, d, a)
        BY <2>2, <3>1 DEF CheckDevice
      <4>3. locks'[d] = a
        BY <4>2 DEF Set, ServerTypeOK
      <4> HIDE DEF k
      <4> QED
        BY <1>1, <1>3, <3>1, <4>1, <4>2, <4>3
    <3>2. CASE ~((d \in t.down \/ Fails(d)) /\ locks[d] = None)
      <4>1. \A S : t.pc = "check" => ~G([t EXCEPT !.todo = S])
        BY <1>1 DEF Thread, Working
      <4> HIDE DEF G
      <4> QED
        BY <1>1, <1>2, <2>2, <3>2, <4>1 DEF CheckDevice, At
    <3> QED
      BY <3>1, <3>2
  <2>3. CASE BeginBeat(a) \/ CheckIdle(a) \/ Doze(a)
    <3>1. /\ \A S : t.pc = "doze" => ~G([t EXCEPT !.todo = S])
          /\ \A S, f, D : ~G([Free EXCEPT !.op = "beat", !.pc = "check", !.todo = S, !.seen = f,
                                          !.down = D])
          /\ \A S, f : ~G([Free EXCEPT !.op = "beat", !.pc = "doze", !.todo = S, !.seen = f])
      BY <1>1 DEF Thread, Free, Working
    <3> HIDE DEF G
    <3> QED
      BY <1>1, <1>2, <2>3, <3>1 DEF BeginBeat, CheckIdle, Doze, At
  <2> QED
    BY <1>10, <2>1, <2>2, <2>3 DEF BeatStep
<1>11. CASE RestartAgent
  BY <1>1, <1>11 DEF RestartAgent, LocksHeld
<1>12. ASSUME QuietPasses \/ (\E d \in Devices : Crash(d) \/ Hang(d) \/ Settle(d))
              \/ UNCHANGED serverVars
       PROVE  UNCHANGED <<th, locks>>
  BY <1>12 DEF QuietPasses, Crash, Hang, Settle, serverVars
<1> QED
  BY <1>5, <1>6, <1>7, <1>8, <1>9, <1>10, <1>11, <1>12 DEF ServerNext, CommandStep

\* Only the thread that waits for a process owns it.
LEMMA OwnersStep ==
  ASSUME ServerTypeOK, Placed, OwnersWait, [ServerNext]_serverVars
  PROVE  OwnersWait'
<1> DEFINE May(o, s) == s.owner \in {o, None} /\ Present(s)
           Keeps == \A d \in Devices : May(srv[d].owner, srv'[d])
<1>1. /\ \A d \in Devices : /\ srv[d] \in Server /\ Present(srv[d])
                            /\ srv[d].owner \in Actors => /\ th[srv[d].owner].pc = "wait"
                                                          /\ th[srv[d].owner].dev = d
      /\ \A a \in Actors : th[a] \in Thread
      /\ Beat \in Actors /\ None \notin Actors /\ Orphan \notin Actors
  BY ServerAssumption DEF ServerTypeOK, OwnersWait, Actors, Server
<1>2. /\ \A o : May(o, Stopped)
      /\ \A s \in Server : Present(s) => May(s.owner, Killed(s)) /\ May(s.owner, StopServer(s))
      /\ \A d \in Devices : May(srv[d].owner, srv[d]) /\ May(srv[d].owner, Pruned[d])
  BY <1>1 DEF Stopped, Killed, StopServer, Pruned, Server, Present
<1> HIDE DEF May
<1>3. /\ srv' = srv => Keeps
      /\ srv' = Pruned => Keeps
      /\ \A d \in Devices : \A s : May(srv[d].owner, s) /\ srv' = Set(srv, d, s) => Keeps
  BY <1>2 DEF ServerTypeOK, Set
<1>4. ASSUME NEW a \in Actors, NEW t, Become(a, t), Keeps, \A d \in Devices : srv'[d].owner # a
      PROVE  OwnersWait'
  BY <1>1, <1>4 DEF Become, OwnersWait, ServerTypeOK, May
<1>5. ASSUME th' = th, Keeps PROVE OwnersWait'
  BY <1>1, <1>5 DEF OwnersWait, May
<1>6. ASSUME NEW a \in Actors, th[a].pc # "wait", Keeps PROVE \A d \in Devices : srv'[d].owner # a
  BY <1>1, <1>6 DEF May
<1> HIDE DEF Keeps
<1>7. ASSUME NEW a \in Actors, NEW t, Become(a, t), Keeps, th[a].pc # "wait" PROVE OwnersWait'
  BY <1>4, <1>6, <1>7
<1>8. ASSUME NEW a \in Actors, NEW op, Execute(a, op) PROVE th[a].pc # "wait"
  BY <1>8 DEF Execute, Free
<1>9. ASSUME NEW a \in Actors, NEW m \in Models,
             \/ \E op, d : Load(a, op, m, d)
             \/ Unload(a, m) \/ DeleteModel(a, m) \/ Prompt(a, m)
      PROVE  OwnersWait'
  <2>1. srv' = srv \/ srv' = Pruned
    BY <1>9 DEF Load, Unload, DeleteModel, Prompt
  <2>2. th[a].pc # "wait"
    BY <1>8, <1>9 DEF Load, Unload, DeleteModel, Prompt
  <2>3. th' = th \/ \E t : Become(a, t)
    BY <1>9 DEF Load, Unload, DeleteModel, Prompt
  <2> QED
    BY <1>3, <1>5, <1>7, <2>1, <2>2, <2>3
<1>10. ASSUME NEW a \in Actors,
              UnloadAll(a) \/ (\E op : Configure(a, op)) \/ (\E d \in Devices : Reload(a, d))
       PROVE  OwnersWait'
  <2>1. srv' = srv
    BY <1>10 DEF UnloadAll, Configure, Reload
  <2>2. th[a].pc # "wait"
    BY <1>8, <1>10 DEF UnloadAll, Configure, Reload
  <2>3. th' = th \/ \E t : Become(a, t)
    BY <1>10 DEF UnloadAll, Configure, Reload
  <2> QED
    BY <1>3, <1>5, <1>7, <2>1, <2>2, <2>3
<1>11. ASSUME NEW a \in Actors, NEW pc, GoOn(a, pc) PROVE \E t : Become(a, t)
  BY <1>11 DEF GoOn, Become
<1>12. ASSUME NEW a \in Actors, LoadStep(a) PROVE OwnersWait'
  <2>1. th[a].dev \in Devices
    BY <1>12 DEF LoadStep, Lock, Fetch, StopOld, Spawn, Ready, NotReady, Record, LoadFails, At,
                 Placed, Working
  <2>2. CASE Lock(a) \/ Fetch(a) \/ StopOld(a) \/ Record(a) \/ LoadFails(a)
    <3>1. th[a].pc # "wait"
      BY <2>2 DEF Lock, Fetch, StopOld, Record, LoadFails, At
    <3>2. \E t : Become(a, t)
      BY <1>11, <2>2 DEF Lock, Fetch, StopOld, Record, LoadFails, Return
    <3>3. \/ srv' = srv
          \/ srv' = Set(srv, th[a].dev, StopServer(srv[th[a].dev]))
      BY <2>2 DEF Lock, Fetch, StopOld, Record, LoadFails
    <3>4. May(srv[th[a].dev].owner, StopServer(srv[th[a].dev]))
      BY <1>1, <1>2, <2>1
    <3>5. Keeps
      BY <1>3, <2>1, <3>3, <3>4
    <3> QED
      BY <1>7, <3>1, <3>2, <3>5
  <2>3. CASE Spawn(a)
    <3> DEFINE d == th[a].dev
    <3>1. th[a].pc = "spawn" /\ GoOn(a, "wait")
      BY <2>3 DEF Spawn, At
    <3>2. CASE srv' = srv
      <4>1. Keeps
        BY <1>3, <3>2
      <4> QED
        BY <1>7, <1>11, <3>1, <4>1
    <3>3. CASE srv' = [srv EXCEPT ![d].model = th[a].model, ![d].owner = a]
      <4>1. srv'[d].owner = a /\ \A x \in Devices \ {d} : srv'[x] = srv[x]
        BY <1>1, <2>1, <3>3 DEF ServerTypeOK, Server
      <4>5. Present(srv'[d])
        <5>1. th[a].model \in Models
          BY <3>1 DEF Placed
        <5>2. srv'[d].model = th[a].model
          BY <1>1, <2>1, <3>3 DEF ServerTypeOK, Server
        <5> QED
          BY <5>1, <5>2, ServerAssumption DEF Present
      <4>2. th'[a].pc = "wait" /\ th'[a].dev = d /\ \A b \in Actors \ {a} : th'[b] = th[b]
        BY <1>1, <3>1 DEF GoOn, ServerTypeOK, Thread
      <4>3. \A x \in Devices : srv[x].owner # a
        BY <1>1, <3>1
      <4> HIDE DEF d
      <4> QED
        BY <1>1, <4>1, <4>2, <4>3, <4>5 DEF OwnersWait
    <3> QED
      BY <2>3, <3>2, <3>3 DEF Spawn
  <2>4. CASE Ready(a) \/ NotReady(a)
    <3>1. \E t : Become(a, t)
      BY <1>11, <2>4 DEF Ready, NotReady
    <3>2. \A x \in Devices \ {th[a].dev} : srv'[x] = srv[x]
      BY <2>4 DEF Ready, NotReady, Set, ServerTypeOK
    <3>3. /\ IF srv[th[a].dev].owner = a THEN srv'[th[a].dev].owner = None
             ELSE srv'[th[a].dev].owner = srv[th[a].dev].owner
          /\ Present(srv'[th[a].dev])
      <4>1. CASE Ready(a)
        BY <1>1, <2>1, <4>1 DEF Ready, Mine, ServerTypeOK, Server, Present
      <4>2. CASE NotReady(a)
        BY <1>1, <1>2, <2>1, <4>2 DEF NotReady, Mine, ServerTypeOK, Set, Killed, Stopped, Present
      <4> QED
        BY <2>4, <4>1, <4>2
    <3>4. Keeps
      BY <1>1, <3>2, <3>3 DEF Keeps, May
    <3>5. \A x \in Devices : srv'[x].owner # a
      BY <1>1, <3>2, <3>3
    <3> QED
      BY <1>4, <3>1, <3>4, <3>5
  <2> QED
    BY <1>12, <2>2, <2>3, <2>4 DEF LoadStep
<1>13. ASSUME NEW a \in Actors, Generate(a) \/ Halt(a) \/ Drop(a) \/ Sweep(a) \/ Clear(a) \/ Wake(a)
       PROVE  OwnersWait'
  <2>1. th[a].pc # "wait"
    BY <1>13 DEF Generate, Halt, Drop, Sweep, Clear, Wake, At
  <2>2. \E t : Become(a, t)
    BY <1>11, <1>13 DEF Generate, Halt, Drop, Sweep, Clear, Wake
  <2>3. \/ srv' = srv
        \/ \E d \in Devices : srv' = Set(srv, d, StopServer(srv[d]))
        \/ srv' = [d \in Devices |-> Stopped]
    BY <1>1, <1>13 DEF Generate, Halt, Drop, Sweep, Clear, Wake, Placed, At, Thread
  <2>4. \A d \in Devices : May(srv[d].owner, StopServer(srv[d]))
    BY <1>1, <1>2
  <2>5. Keeps
    BY <1>2, <1>3, <2>3, <2>4 DEF Keeps
  <2> QED
    BY <1>7, <2>1, <2>2, <2>5
<1>14. ASSUME NEW a \in Actors, BeginBeat(a) \/ BeatStep(a) PROVE OwnersWait'
  <2>1. th[a].pc # "wait"
    <3>1. \/ th[a] = Free \/ At(a, "check") \/ At(a, "kill") \/ At(a, "doze")
      BY <1>14 DEF BeatStep, BeginBeat, CheckDevice, Kill, CheckIdle, Doze
    <3> QED
      BY <3>1 DEF At, Free
  <2>2. \E t : Become(a, t)
    BY <1>1, <1>11, <1>14 DEF BeatStep, BeginBeat, CheckDevice, Kill, CheckIdle, Doze
  <2>3. \/ srv' = srv \/ srv' = Pruned
        \/ \E d \in Devices : srv' = Set(srv, d, StopServer(srv[d]))
    BY <1>1, <1>14 DEF BeatStep, BeginBeat, CheckDevice, Kill, CheckIdle, Doze, Placed, At, Thread
  <2>4. \A d \in Devices : May(srv[d].owner, StopServer(srv[d]))
    BY <1>1, <1>2
  <2>5. Keeps
    BY <1>3, <2>3, <2>4
  <2> QED
    BY <1>1, <1>7, <2>1, <2>2, <2>5
<1>15. CASE RestartAgent
  <2>1. \A d \in Devices : srv'[d].owner \notin Actors /\ Present(srv'[d])
    <3>1. ASSUME NEW d \in Devices
          PROVE  /\ Stopped.owner \notin Actors /\ Present(Stopped)
                 /\ srv[d].owner # None =>
                      LET s == [srv[d] EXCEPT !.owner = Orphan, !.reg = "none", !.left = TRUE]
                      IN  s.owner \notin Actors /\ Present(s)
      BY <1>1 DEF Server, Stopped, Present
    <3> QED
      BY <1>15, <3>1 DEF RestartAgent
  <2> QED
    BY <2>1 DEF OwnersWait
<1>16. ASSUME QuietPasses \/ (\E d \in Devices : Crash(d) \/ Hang(d) \/ Settle(d))
              \/ UNCHANGED serverVars
       PROVE  OwnersWait'
  <2>1. th' = th
    BY <1>16 DEF QuietPasses, Crash, Hang, Settle, serverVars
  <2>2. Keeps
    <3>1. CASE QuietPasses \/ UNCHANGED serverVars
      BY <1>3, <3>1 DEF QuietPasses, serverVars
    <3>2. ASSUME NEW d \in Devices, Crash(d) PROVE Keeps
      <4>1. \A r : May(srv[d].owner, [Stopped EXCEPT !.reg = r])
        BY DEF Stopped, May, Present
      <4>2. \E r : srv' = Set(srv, d, [Stopped EXCEPT !.reg = r])
        BY <3>2 DEF Crash
      <4> QED
        BY <1>3, <4>1, <4>2
    <3>3. ASSUME NEW d \in Devices, Hang(d) PROVE Keeps
      BY <1>1, <3>3 DEF Hang, Keeps, May, Present, ServerTypeOK, Server
    <3>4. ASSUME NEW d \in Devices, Settle(d) PROVE Keeps
      BY <1>1, <3>4 DEF Settle, Keeps, May, Present, ServerTypeOK, Server
    <3> QED
      BY <1>16, <3>1, <3>2, <3>3, <3>4
  <2> QED
    BY <1>5, <2>1, <2>2
<1> QED
  BY <1>9, <1>10, <1>12, <1>13, <1>14, <1>15, <1>16 DEF ServerNext, CommandStep

\* A pull agent that only loads, unloads and prompts works on its servers in one thread.
LEMMA OneByOneStep ==
  ASSUME ServerTypeOK, Placed, OwnersWait, OneByOne, [ServerNext]_serverVars
  PROVE  OneByOne'
<1> DEFINE b == th[Beat]
<1> DEFINE At0(d) == Known(srv[d], devs[d], b, d)
<1>1. Plain' => Plain
  <2> DEFINE Same == UNCHANGED <<link, menu>> /\ (auto' = auto \/ {"on", "off"} \cap menu # {})
  <2>1. ASSUME NEW a \in Actors, NEW m \in Models,
               \/ \E op \in {"load", "fetch"}, d \in Devices : Load(a, op, m, d)
               \/ Unload(a, m) \/ DeleteModel(a, m) \/ Prompt(a, m)
        PROVE  Same
    BY <2>1 DEF Load, Unload, DeleteModel, Prompt, Execute
  <2>2. ASSUME NEW a \in Actors,
               \/ UnloadAll(a) \/ (\E op \in {"on", "off"} : Configure(a, op))
               \/ \E d \in Devices : Reload(a, d)
        PROVE  Same
    BY <2>2 DEF UnloadAll, Configure, Reload, Execute, recordVars
  <2>3. ASSUME NEW a \in Actors, CommandStep(a) PROVE Same
    BY <2>3 DEF CommandStep, LoadStep, Lock, Fetch, StopOld, Spawn, Ready, NotReady, Record,
                LoadFails, Generate, Halt, Drop, Sweep, Clear, Wake, otherVars
  <2>4. ASSUME NEW a \in Actors, BeginBeat(a) \/ BeatStep(a) PROVE Same
    BY <2>4 DEF BeatStep, BeginBeat, CheckDevice, Kill, CheckIdle, Doze, otherVars
  <2>5. ASSUME \/ QuietPasses \/ RestartAgent \/ UNCHANGED serverVars
               \/ \E d \in Devices : Crash(d) \/ Hang(d) \/ Settle(d)
        PROVE  Same
    BY <2>5 DEF QuietPasses, RestartAgent, Crash, Hang, Settle, otherVars, serverVars
  <2> HIDE DEF Same
  <2>6. Same
    BY <2>1, <2>2, <2>3, <2>4, <2>5 DEF ServerNext
  <2> QED
    BY <2>6 DEF Same, Plain, Serial
<1> SUFFICES ASSUME Plain, Plain' PROVE OneByOne'
  BY <1>1 DEF OneByOne
<1>2. /\ primed = Nothing /\ Runner(b) /\ b \in Thread
      /\ \A a \in Threads : th[a].pc \in {"idle", "gen"}
      /\ \A d \in Devices : srv[d] \in Server /\ At0(d) /\ Present(srv[d])
      /\ Beat \in Actors /\ Beat # Orphan /\ Beat \notin Threads /\ None \notin Models /\ None \notin Devices
      /\ Actors = Threads \cup {Beat} /\ Gpu0 \in Devices
  BY ServerAssumption DEF OneByOne, ServerTypeOK, OwnersWait, Actors
<1>3. /\ link = "pull" /\ ~auto
      /\ \A op : op \in menu => op \in Serial \cup {"prompt"}
  BY DEF Plain
\* What a step of the thread of the heartbeats leaves to show.
<1>4. ASSUME NEW t, Become(Beat, t), primed' \in {primed, Nothing}, Runner(t),
             \A d \in Devices : Known(srv'[d], devs'[d], t, d)
      PROVE  OneByOne'
  BY <1>2, <1>4 DEF Become, OneByOne, ServerTypeOK
<1>5. ASSUME NEW a \in Threads, NEW t, Become(a, t), primed' = primed, t.pc \in {"idle", "gen"},
             UNCHANGED <<srv, devs>>
      PROVE  OneByOne'
  BY <1>2, <1>5 DEF Become, OneByOne, ServerTypeOK
<1>6. ASSUME th' = th, primed' = primed,
             \A d \in Devices : Known(srv'[d], devs'[d], b, d)
      PROVE  OneByOne'
  BY <1>2, <1>6 DEF OneByOne
<1>7. /\ \A d \in Devices : \A s, m, t : t.dev # d /\ t.pc \notin {"sweep", "clear"} =>
           (Known(s, m, t, d) <=> Honest(s, m))
      /\ \A d, s, m, t : \/ t.pc \in {"idle", "lock", "halt", "check", "kill"}
                         \/ t.op # "beat" /\ t.pc \in {"stop", "fail"}
                         => (Known(s, m, t, d) <=> Honest(s, m))
  BY DEF Known
\* What stays as it was on the other devices.
<1>8. ASSUME NEW t, Become(Beat, t), primed' = primed, Runner(t), t.dev = b.dev,
             b.dev \in Devices,
             b.pc \notin {"sweep", "clear"}, t.pc \notin {"sweep", "clear"},
             \A d \in Devices \ {b.dev} : srv'[d] = srv[d] /\ devs'[d] = devs[d],
             Known(srv'[b.dev], devs'[b.dev], t, b.dev)
      PROVE  OneByOne'
  <2>1. \A d \in Devices \ {b.dev} : Known(srv'[d], devs'[d], t, d)
    BY <1>2, <1>7, <1>8
  <2> HIDE DEF b
  <2> QED
    BY <1>4, <1>8, <2>1
<1>9. \A d \in Devices : \A m :
        /\ StopServer(srv[d]).reg = "none"
        /\ Honest(srv[d], m) \/ srv[d].model = None => StopServer(srv[d]).model = None
        /\ Honest(srv[d], m) => Honest(Pruned[d], m)
  BY <1>2 DEF StopServer, Stopped, Pruned, Honest, Server
<1>10. \A s, m : s.model = None => Honest(s, m)
  BY DEF Honest
<1> HIDE DEF b
\* A command arrives.
<1>11. ASSUME NEW a \in Actors, NEW op, Execute(a, op)
       PROVE  /\ a \in Threads => op = "prompt"
              /\ a = Beat => op \in Serial /\ b = Free
              /\ op \in Serial \cup {"prompt"}
  BY <1>2, <1>3, <1>11 DEF Execute, Runs, b, Serial
<1>12. /\ \A d \in Devices : b = Free => Honest(srv[d], devs[d])
       /\ Free.pc = "idle" /\ Free.op = "none" /\ Runner(Free)
       /\ b = Free => \A d \in Devices : \A mute : Honest(srv[d], Adopted(mute)[d])
       /\ \A m \in Models : Asleep(m) = {}
       /\ Loaded(primed) = {}
  <2>1. Free.pc = "idle" /\ Free.op = "none" /\ Runner(Free)
    BY DEF Free, Runner
  <2>2. \A d \in Devices : b = Free => Honest(srv[d], devs[d])
    BY <1>2, <1>7, <2>1
  <2>3. ASSUME b = Free, NEW d \in Devices, NEW mute PROVE Honest(srv[d], Adopted(mute)[d])
    <3>1. Adopted(mute)[d] \in {devs[d], srv[d].model}
      BY <1>2 DEF Adopted, Set, ServerTypeOK
    <3>2. Adopted(mute)[d] # devs[d] => devs[d] = None
      BY <1>2 DEF Adopted, Set, Loaded, ServerTypeOK
    <3> QED
      BY <2>2, <2>3, <3>1, <3>2 DEF Honest
  <2>4. (\A m \in Models : Asleep(m) = {}) /\ Loaded(primed) = {}
    BY <1>2 DEF Asleep, Loaded, Nothing
  <2> QED
    BY <2>1, <2>2, <2>3, <2>4
<1>13. ASSUME NEW a \in Actors, NEW m \in Models, NEW d \in Devices, NEW op \in {"load", "fetch"},
              Load(a, op, m, d)
       PROVE  OneByOne'
  <2>1. a = Beat /\ op = "load" /\ b = Free
    BY <1>2, <1>11, <1>13 DEF Load, Serial
  <2> DEFINE t == [Free EXCEPT !.op = op, !.pc = "lock", !.dev = d, !.model = m]
  <2>2. t.pc = "lock" /\ Runner(t)
    BY <2>1 DEF Free, Runner, Serial
  <2>3. Become(Beat, t) /\ UNCHANGED <<srv, devs, primed>>
    BY <1>13, <2>1 DEF Load, recordVars
  <2> HIDE DEF t
  <2> QED
    BY <1>4, <1>7, <1>12, <2>1, <2>2, <2>3
<1>14. ASSUME NEW a \in Actors, NEW m \in Models, Unload(a, m) PROVE OneByOne'
  <2>1. a = Beat /\ b = Free
    <3>1. Execute(a, "unload")
      BY <1>14 DEF Unload
    <3> QED
      BY <1>2, <1>11, <3>1
  <2>2. (\E mute : devs' = Adopted(mute)) /\ srv' \in {srv, Pruned} /\ primed' = primed
    BY <1>12, <1>14 DEF Unload
  <2>3. \A d \in Devices : Honest(srv'[d], devs'[d])
    BY <1>9, <1>12, <2>1, <2>2
  <2>4. \/ th' = th
        \/ \E d : Become(Beat, [Free EXCEPT !.op = "unload", !.pc = "halt", !.dev = d, !.model = m])
    BY <1>14, <2>1 DEF Unload
  <2>5. CASE th' = th
    BY <1>6, <1>7, <1>12, <2>1, <2>2, <2>3, <2>5
  <2>6. ASSUME NEW d, Become(Beat, [Free EXCEPT !.op = "unload", !.pc = "halt", !.dev = d,
                                                !.model = m])
        PROVE  OneByOne'
    <3> DEFINE t == [Free EXCEPT !.op = "unload", !.pc = "halt", !.dev = d, !.model = m]
    <3>1. t.pc = "halt" /\ Runner(t)
      BY DEF Free, Runner, Serial
    <3>2. Become(Beat, t)
      BY <2>6
    <3> HIDE DEF t
    <3> QED
      BY <1>4, <1>7, <2>2, <2>3, <3>1, <3>2
  <2> QED
    BY <2>4, <2>5, <2>6
<1>15. ASSUME NEW a \in Actors, UnloadAll(a) PROVE OneByOne'
  <2>1. a = Beat /\ b = Free
    BY <1>2, <1>11, <1>15 DEF UnloadAll
  <2> DEFINE S == {d \in Devices : srv[d].reg # "none"}
  <2> DEFINE t == [Free EXCEPT !.op = "unload_all", !.pc = "sweep", !.todo = S]
  <2>2. t.pc = "sweep" /\ t.todo = S /\ Runner(t)
    BY DEF Free, Runner, Serial
  <2>3. Become(Beat, t) /\ UNCHANGED <<srv, devs>> /\ primed' = Nothing
    BY <1>15, <2>1 DEF UnloadAll
  <2>4. \A d \in Devices : d \notin S => srv[d].reg = "none"
    OBVIOUS
  <2> HIDE DEF t, S
  <2>5. \A d \in Devices : Known(srv[d], devs[d], t, d)
    BY <1>12, <2>1, <2>2, <2>4 DEF Known
  <2> QED
    BY <1>4, <2>2, <2>3, <2>5
<1>16. ASSUME NEW a \in Actors, NEW m \in Models, Prompt(a, m) PROVE OneByOne'
  <2>1. a \in Threads
    BY <1>2, <1>11, <1>16 DEF Prompt, Serial
  <2>2. \A d \in Devices : primed[d] # m
    BY <1>2 DEF Nothing
  <2>3. /\ UNCHANGED <<srv, devs, primed>>
        /\ \/ th' = th
           \/ \E d, x : Become(a, [Free EXCEPT !.op = "prompt", !.pc = "gen", !.dev = d,
                                               !.model = x])
    BY <1>12, <1>16, <2>2 DEF Prompt
  <2>4. \A d, x : [Free EXCEPT !.op = "prompt", !.pc = "gen", !.dev = d, !.model = x].pc = "gen"
    BY DEF Free
  <2> QED
    BY <1>2, <1>5, <1>6, <2>1, <2>3, <2>4
<1>17. ASSUME NEW a \in Actors,
              \/ \E m \in Models : DeleteModel(a, m)
              \/ \E op \in {"on", "off"} : Configure(a, op)
              \/ \E d \in Devices : Reload(a, d)
       PROVE  FALSE
  BY <1>11, <1>17 DEF DeleteModel, Configure, Reload, Serial
\* The steps of a load, which run in the thread of the heartbeats.
<1>18. ASSUME NEW pc, GoOn(Beat, pc) PROVE Become(Beat, [b EXCEPT !.pc = pc])
  BY <1>18 DEF GoOn, Become, b
<1>19. /\ \A pc : /\ [b EXCEPT !.pc = pc].pc = pc
                  /\ [b EXCEPT !.pc = pc].dev = b.dev
                  /\ [b EXCEPT !.pc = pc].op = b.op
                  /\ [b EXCEPT !.pc = pc].model = b.model
                  /\ [b EXCEPT !.pc = pc].todo = b.todo
       /\ \A pc, n : /\ [b EXCEPT !.pc = pc, !.tries = n].pc = pc
                     /\ [b EXCEPT !.pc = pc, !.tries = n].dev = b.dev
                     /\ [b EXCEPT !.pc = pc, !.tries = n].op = b.op
                     /\ [b EXCEPT !.pc = pc, !.tries = n].model = b.model
  BY <1>2 DEF Thread
<1>20. \A t : /\ t.op = b.op
              /\ t.pc \notin {"lock", "gen", "fetch", "doze", "wake"}
              => Runner(t)
  BY <1>2 DEF Runner
<1>21. ASSUME NEW a \in Actors, LoadStep(a) PROVE a = Beat /\ b.dev \in Devices
  <2>1. th[a].pc \notin {"idle", "gen"}
    BY <1>21 DEF LoadStep, Lock, Fetch, StopOld, Spawn, Ready, NotReady, Record, LoadFails, At
  <2>2. a = Beat
    BY <1>2, <2>1
  <2>3. b.pc \in Working \cup {"lock"}
    BY <1>21, <2>2 DEF LoadStep, Lock, Fetch, StopOld, Spawn, Ready, NotReady, Record, LoadFails,
                       At, Working, b
  <2> QED
    BY <1>2, <2>2, <2>3 DEF Placed, b
<1>22. ASSUME NEW d \in Devices, NEW s, srv' = Set(srv, d, s)
       PROVE  srv'[d] = s /\ \A x \in Devices \ {d} : srv'[x] = srv[x]
  BY <1>22 DEF Set, ServerTypeOK
<1>23. ASSUME Lock(Beat) PROVE OneByOne'
  <2>1. b.pc = "lock" /\ b.op = "load" /\ UNCHANGED <<srv, devs, primed>>
    BY <1>2, <1>23 DEF Lock, At, Runner, recordVars, b
  <2>2. \A d \in Devices : Honest(srv[d], devs[d])
    BY <1>2, <1>7, <2>1
  <2>3. Become(Beat, Free) \/ GoOn(Beat, "stop")
    BY <1>23, <2>1 DEF Lock, b
  <2>4. CASE Become(Beat, Free)
    BY <1>4, <1>7, <1>12, <2>1, <2>2, <2>4
  <2>5. CASE GoOn(Beat, "stop")
    <3> DEFINE t == [b EXCEPT !.pc = "stop"]
    <3>1. t.pc = "stop" /\ t.op = b.op /\ Become(Beat, t)
      BY <1>18, <1>19, <2>5
    <3> HIDE DEF t
    <3> QED
      BY <1>4, <1>7, <1>20, <2>1, <2>2, <3>1
  <2> QED
    BY <2>3, <2>4, <2>5
<1>24. ASSUME StopOld(Beat), b.dev \in Devices PROVE OneByOne'
  <2>1. b.pc = "stop" /\ UNCHANGED <<devs, primed>>
    BY <1>24 DEF StopOld, At, recordVars, b
  <2>2. IF b.op = "beat" THEN srv[b.dev].model = None ELSE Honest(srv[b.dev], devs[b.dev])
    BY <1>2, <1>24, <2>1 DEF Known
  <2>3. CASE GoOn(Beat, "fail") /\ srv' = srv
    <3> DEFINE t == [b EXCEPT !.pc = "fail"]
    <3>1. t.pc = "fail" /\ t.op = b.op /\ t.dev = b.dev /\ Become(Beat, t)
      BY <1>18, <1>19, <2>3
    <3> HIDE DEF t
    <3>2. Known(srv[b.dev], devs[b.dev], t, b.dev)
      BY <2>2, <3>1 DEF Known
    <3> QED
      BY <1>8, <1>20, <1>24, <2>1, <2>3, <3>1, <3>2
  <2>4. CASE GoOn(Beat, "spawn") /\ srv' = Set(srv, b.dev, StopServer(srv[b.dev]))
    <3> DEFINE t == [b EXCEPT !.pc = "spawn"]
    <3>1. t.pc = "spawn" /\ t.op = b.op /\ t.dev = b.dev /\ Become(Beat, t)
      BY <1>18, <1>19, <2>4
    <3> HIDE DEF t
    <3>2. srv'[b.dev].model = None /\ \A d \in Devices \ {b.dev} : srv'[d] = srv[d]
      BY <1>9, <1>22, <1>24, <2>2, <2>4
    <3>3. Known(srv'[b.dev], devs'[b.dev], t, b.dev)
      BY <3>1, <3>2 DEF Known
    <3> QED
      BY <1>8, <1>20, <1>24, <2>1, <3>1, <3>2, <3>3
  <2> QED
    BY <1>24, <2>3, <2>4 DEF StopOld, b
<1>25. ASSUME Spawn(Beat), b.dev \in Devices PROVE OneByOne'
  <2> DEFINE t == [b EXCEPT !.pc = "wait"]
  <2>1. b.pc = "spawn" /\ UNCHANGED <<devs, primed>> /\ GoOn(Beat, "wait")
    BY <1>25 DEF Spawn, At, recordVars, b
  <2>2. t.pc = "wait" /\ t.op = b.op /\ t.dev = b.dev /\ t.model = b.model /\ Become(Beat, t)
    BY <1>18, <1>19, <2>1
  <2>3. srv[b.dev].model = None /\ ~srv[b.dev].left
    BY <1>2, <1>25, <2>1 DEF Known, Present, Server
  <2>4. srv' = [srv EXCEPT ![b.dev].model = b.model, ![b.dev].owner = Beat]
    BY <1>25, <2>3 DEF Spawn, b
  <2>5. /\ srv'[b.dev].model = b.model /\ srv'[b.dev].owner = Beat /\ ~srv'[b.dev].left
        /\ \A d \in Devices \ {b.dev} : srv'[d] = srv[d]
    BY <1>2, <1>25, <2>3, <2>4 DEF ServerTypeOK, Server
  <2> HIDE DEF t
  <2>6. Known(srv'[b.dev], devs'[b.dev], t, b.dev)
    BY <2>2, <2>5 DEF Known
  <2> QED
    BY <1>8, <1>20, <1>25, <2>1, <2>2, <2>5, <2>6
<1>26. ASSUME Ready(Beat), b.dev \in Devices PROVE OneByOne'
  <2> DEFINE t == [b EXCEPT !.pc = "record"]
  <2>1. b.pc = "wait" /\ UNCHANGED <<devs, primed>> /\ GoOn(Beat, "record") /\ srv[b.dev].model # None
    BY <1>26 DEF Ready, At, recordVars, b
  <2>2. t.pc = "record" /\ t.op = b.op /\ t.dev = b.dev /\ t.model = b.model /\ Become(Beat, t)
    BY <1>18, <1>19, <2>1
  <2>3. srv[b.dev].model = b.model /\ srv[b.dev].owner = Beat /\ ~srv[b.dev].left
    BY <1>2, <1>26, <2>1 DEF Known
  <2>4. srv' = [srv EXCEPT ![b.dev].reg = "live", ![b.dev].owner = None]
    BY <1>26, <2>3 DEF Ready, Mine, b
  <2>5. /\ srv'[b.dev].model = b.model /\ ~srv'[b.dev].left /\ srv'[b.dev].reg = "live"
        /\ \A d \in Devices \ {b.dev} : srv'[d] = srv[d]
    BY <1>2, <1>26, <2>3, <2>4 DEF ServerTypeOK, Server
  <2> HIDE DEF t
  <2>6. Known(srv'[b.dev], devs'[b.dev], t, b.dev)
    BY <2>2, <2>5 DEF Known, Honest
  <2> QED
    BY <1>8, <1>20, <1>26, <2>1, <2>2, <2>5, <2>6
<1>27. ASSUME NotReady(Beat), b.dev \in Devices PROVE OneByOne'
  <2>1. b.pc = "wait" /\ UNCHANGED <<devs, primed>>
    BY <1>27 DEF NotReady, At, recordVars, b
  <2>2. srv[b.dev].model # None => srv[b.dev].owner = Beat
    BY <1>2, <1>27, <2>1 DEF Known
  <2>3. srv'[b.dev].model = None /\ \A d \in Devices \ {b.dev} : srv'[d] = srv[d]
    <3>1. CASE srv' = Set(srv, b.dev, Killed(srv[b.dev]))
      BY <1>22, <1>27, <3>1 DEF Killed, Stopped
    <3>2. CASE ~Mine(Beat) /\ srv' = srv
      BY <2>2, <3>2 DEF Mine, b
    <3> QED
      BY <1>27, <3>1, <3>2 DEF NotReady, b
  <2>4. \E t : /\ Become(Beat, t) /\ t.pc \in {"stop", "fail"} /\ t.op = b.op /\ t.dev = b.dev
    <3>1. CASE Become(Beat, [b EXCEPT !.pc = "stop", !.tries = @ + 1])
      <4> DEFINE t == [b EXCEPT !.pc = "stop", !.tries = @ + 1]
      <4>1. t.pc = "stop" /\ t.op = b.op /\ t.dev = b.dev
        BY <1>2 DEF Thread
      <4>2. Become(Beat, t)
        BY <3>1
      <4> HIDE DEF t
      <4> QED
        BY <4>1, <4>2
    <3>2. CASE GoOn(Beat, "fail")
      <4> DEFINE t == [b EXCEPT !.pc = "fail"]
      <4>1. Become(Beat, t) /\ t.pc = "fail" /\ t.op = b.op /\ t.dev = b.dev
        BY <1>18, <1>19, <3>2
      <4> HIDE DEF t
      <4> QED
        BY <4>1
    <3> QED
      BY <1>27, <3>1, <3>2 DEF NotReady, b
  <2>5. PICK t : /\ Become(Beat, t) /\ t.pc \in {"stop", "fail"} /\ t.op = b.op /\ t.dev = b.dev
    BY <2>4
  <2>6. Known(srv'[b.dev], devs'[b.dev], t, b.dev)
    BY <1>10, <2>3, <2>5 DEF Known
  <2> QED
    BY <1>8, <1>20, <1>27, <2>1, <2>3, <2>5, <2>6
<1>28. ASSUME Record(Beat) \/ LoadFails(Beat), b.dev \in Devices PROVE OneByOne'
  <2>1. \E t : Become(Beat, t) /\ t.pc \in {"idle", "check"} /\ Runner(t)
    <3>1. Return(Beat)
      BY <1>28 DEF Record, LoadFails
    <3>2. b.op \notin {"prompt", "off"}
      BY <1>2 DEF Runner, Serial
    <3> DEFINE t == [b EXCEPT !.pc = "check", !.dev = None, !.model = None, !.tries = 0]
    <3>3. t.pc = "check" /\ t.op = b.op
      BY <1>2 DEF Thread
    <3>4. Become(Beat, t) \/ Become(Beat, Free)
      BY <3>1, <3>2 DEF Return, b
    <3> HIDE DEF t
    <3> QED
      BY <1>12, <1>20, <3>3, <3>4
  <2>2. PICK t : Become(Beat, t) /\ t.pc \in {"idle", "check"} /\ Runner(t)
    BY <2>1
  <2>3. b.pc \in {"record", "fail"} /\ UNCHANGED <<srv, primed>>
    BY <1>28 DEF Record, LoadFails, At, b
  <2>4. \A d \in Devices \ {b.dev} : devs'[d] = devs[d] /\ Honest(srv[d], devs[d])
    <3>1. \A d \in Devices \ {b.dev} : devs'[d] = devs[d]
      BY <1>28 DEF Record, LoadFails, Set, ServerTypeOK, b
    <3> QED
      BY <1>2, <1>7, <2>3, <3>1
  <2>5. Honest(srv[b.dev], devs'[b.dev])
    <3>1. CASE Record(Beat)
      <4>1. devs'[b.dev] = b.model
        BY <1>28, <3>1 DEF Record, Set, ServerTypeOK, b
      <4>2. b.pc = "record"
        BY <3>1 DEF Record, At, b
      <4> QED
        BY <1>2, <1>28, <4>1, <4>2 DEF Known
    <3>2. CASE LoadFails(Beat)
      <4>1. b.pc = "fail"
        BY <3>2 DEF LoadFails, At, b
      <4>2. b.op # "beat" => devs' = devs
        BY <3>2 DEF LoadFails, b
      <4> QED
        BY <1>2, <1>28, <1>10, <4>1, <4>2 DEF Known
    <3> QED
      BY <1>28, <3>1, <3>2
  <2>6. \A d \in Devices : Honest(srv[d], devs'[d])
    BY <2>4, <2>5
  <2> QED
    BY <1>4, <1>7, <2>2, <2>3, <2>6
<1>29. ASSUME NEW a \in Actors, LoadStep(a) PROVE OneByOne'
  <2>1. a = Beat /\ b.dev \in Devices
    BY <1>21, <1>29
  <2>2. ~Fetch(Beat)
    BY <1>2 DEF Fetch, At, Runner, b
  <2> QED
    BY <1>23, <1>24, <1>25, <1>26, <1>27, <1>28, <1>29, <2>1, <2>2 DEF LoadStep
\* The other steps of commands and the heartbeat.
<1>30. ASSUME NEW a \in Threads, Generate(a) PROVE OneByOne'
  <2>1. Become(a, Free) /\ UNCHANGED <<srv, devs, primed>>
    BY <1>30 DEF Generate, recordVars
  <2> QED
    BY <1>5, <1>12, <2>1
<1>31. ASSUME Halt(Beat) PROVE OneByOne'
  <2> DEFINE t == [b EXCEPT !.pc = "drop"]
  <2>1. b.pc = "halt" /\ UNCHANGED <<devs, primed>> /\ GoOn(Beat, "drop")
    BY <1>31 DEF Halt, At, recordVars, b
  <2>2. b.dev \in Devices
    BY <1>2, <2>1 DEF Placed, b
  <2>3. t.pc = "drop" /\ t.op = b.op /\ t.dev = b.dev /\ Become(Beat, t)
    BY <1>18, <1>19, <2>1
  <2> HIDE DEF t
  <2>4. srv' = Set(srv, b.dev, StopServer(srv[b.dev]))
    BY <1>31 DEF Halt, b
  <2>5. Honest(srv[b.dev], devs[b.dev])
    BY <1>2, <1>7, <2>1, <2>2
  <2>6. srv'[b.dev].model = None /\ \A d \in Devices \ {b.dev} : srv'[d] = srv[d]
    BY <1>9, <1>22, <2>2, <2>4, <2>5
  <2>7. Known(srv'[b.dev], devs'[b.dev], t, b.dev)
    BY <2>3, <2>6 DEF Known
  <2> QED
    BY <1>8, <1>20, <2>1, <2>2, <2>3, <2>6, <2>7
<1>32. ASSUME Drop(Beat) PROVE OneByOne'
  <2>1. b.pc = "drop" /\ UNCHANGED <<srv, primed>> /\ Become(Beat, Free)
    BY <1>32 DEF Drop, At, b
  <2>2. b.dev \in Devices
    BY <1>2, <2>1 DEF Placed, b
  <2>3. srv[b.dev].model = None
    BY <1>2, <2>1, <2>2 DEF Known
  <2>4. \A d \in Devices \ {b.dev} : devs'[d] = devs[d]
    BY <1>32 DEF Drop, Set, ServerTypeOK, b
  <2>5. \A d \in Devices : Honest(srv[d], devs'[d])
    BY <1>2, <1>7, <1>10, <2>1, <2>3, <2>4
  <2> QED
    BY <1>4, <1>7, <1>12, <2>1, <2>5
<1>33. ASSUME Sweep(Beat) PROVE OneByOne'
  <2>1. b.pc = "sweep" /\ UNCHANGED <<devs, primed>>
    BY <1>33 DEF Sweep, At, recordVars, b
  <2>2. \A d \in Devices : Honest(srv[d], devs[d]) /\ (d \notin b.todo => srv[d].reg = "none")
    BY <1>2, <2>1 DEF Known
  <2>3. ASSUME NEW d \in Devices, srv' = Set(srv, d, StopServer(srv[d])),
               Become(Beat, [b EXCEPT !.todo = @ \ {d}])
        PROVE  OneByOne'
    <3> DEFINE t == [b EXCEPT !.todo = @ \ {d}]
    <3>1. t.pc = "sweep" /\ t.todo = b.todo \ {d} /\ t.op = b.op
      BY <1>2, <2>1 DEF Thread
    <3>2. Become(Beat, t)
      BY <2>3
    <3> HIDE DEF t
    <3>3. /\ srv'[d].model = None /\ srv'[d].reg = "none"
          /\ \A x \in Devices \ {d} : srv'[x] = srv[x]
      BY <1>9, <1>22, <2>2, <2>3
    <3>4. \A x \in Devices : Known(srv'[x], devs'[x], t, x)
      BY <1>10, <2>1, <2>2, <3>1, <3>3 DEF Known
    <3> QED
      BY <1>4, <1>20, <2>1, <3>1, <3>2, <3>4
  <2>4. CASE b.todo = {} /\ GoOn(Beat, "clear") /\ srv' = [d \in Devices |-> Stopped]
    <3> DEFINE t == [b EXCEPT !.pc = "clear"]
    <3>1. t.pc = "clear" /\ t.op = b.op /\ Become(Beat, t)
      BY <1>18, <1>19, <2>4
    <3> HIDE DEF t
    <3>2. \A x \in Devices : srv'[x].model = None
      BY <2>4 DEF Stopped
    <3>3. \A x \in Devices : Known(srv'[x], devs'[x], t, x)
      BY <1>10, <3>1, <3>2 DEF Known
    <3> QED
      BY <1>4, <1>20, <2>1, <3>1, <3>3
  <2>5. b.todo \subseteq Devices
    BY <1>2 DEF Thread
  <2>6. b.todo = {} => \A d \in Devices : srv[d].reg = "none"
    BY <2>2
  <2> QED
    BY <1>33, <2>3, <2>4, <2>5, <2>6 DEF Sweep, b
<1>34. ASSUME Clear(Beat) PROVE OneByOne'
  <2>1. b.pc = "clear" /\ UNCHANGED <<srv, primed>> /\ Become(Beat, Free)
    BY <1>34 DEF Clear, At, b
  <2>2. \A d \in Devices : srv[d].model = None
    BY <1>2, <2>1 DEF Known
  <2> QED
    BY <1>4, <1>7, <1>10, <1>12, <2>1, <2>2
<1>35. ASSUME NEW a \in Actors, CommandStep(a) PROVE OneByOne'
  <2>1. CASE LoadStep(a)
    BY <1>29, <2>1
  <2>2. CASE a \in Threads /\ ~LoadStep(a)
    <3>1. th[a].pc \in {"idle", "gen"}
      BY <1>2, <2>2
    <3>2. Generate(a)
      BY <1>35, <2>2, <3>1 DEF CommandStep, Halt, Drop, Sweep, Clear, Wake, At
    <3> QED
      BY <1>30, <2>2, <3>2
  <2>3. CASE a = Beat /\ ~LoadStep(a)
    <3>1. ~Generate(Beat) /\ ~Wake(Beat)
      BY <1>2 DEF Runner, Generate, Wake, At, b
    <3> QED
      BY <1>31, <1>32, <1>33, <1>34, <1>35, <2>3, <3>1 DEF CommandStep
  <2> QED
    BY <1>2, <2>1, <2>2, <2>3
<1>36. ASSUME BeginBeat(Beat) PROVE OneByOne'
  <2>1. b = Free /\ srv' = Pruned /\ UNCHANGED <<devs, primed>>
    BY <1>36 DEF BeginBeat, recordVars, b
  <2>2. \A d \in Devices : Honest(srv'[d], devs'[d])
    BY <1>9, <1>12, <2>1
  <2>3. \E S, f, D : Become(Beat, [Free EXCEPT !.op = "beat", !.pc = "check", !.todo = S,
                                               !.seen = f, !.down = D])
    BY <1>36 DEF BeginBeat
  <2>4. ASSUME NEW S, NEW f, NEW D
        PROVE  LET t == [Free EXCEPT !.op = "beat", !.pc = "check", !.todo = S, !.seen = f,
                                     !.down = D]
               IN  t.pc = "check" /\ Runner(t)
    BY DEF Free, Runner
  <2>5. PICK t : Become(Beat, t) /\ t.pc = "check" /\ Runner(t)
    BY <2>3, <2>4
  <2> QED
    BY <1>4, <1>7, <2>1, <2>2, <2>5
<1>37. ASSUME NEW d \in Devices, CheckDevice(Beat, d) PROVE OneByOne'
  <2>1. b.pc = "check" /\ UNCHANGED <<srv, devs, primed>>
    BY <1>37 DEF CheckDevice, At, recordVars, b
  <2>2. \A x \in Devices : Honest(srv[x], devs[x])
    BY <1>2, <1>7, <2>1
  <2>3. ASSUME NEW t, Become(Beat, t), t.op = b.op, t.pc \in {"check", "kill"} PROVE OneByOne'
    BY <1>4, <1>7, <1>20, <2>1, <2>2, <2>3
  <2> DEFINE k == [b EXCEPT !.pc = "kill", !.dev = d, !.model = b.seen[d], !.todo = @ \ {d}]
             n == [b EXCEPT !.todo = @ \ {d}]
  <2>4. k.op = b.op /\ k.pc = "kill" /\ n.op = b.op /\ n.pc = "check"
    BY <1>2, <2>1 DEF Thread
  <2>5. Become(Beat, k) \/ Become(Beat, n)
    BY <1>37 DEF CheckDevice, b
  <2> HIDE DEF k, n
  <2> QED
    BY <2>3, <2>4, <2>5
<1>38. ASSUME Kill(Beat) PROVE OneByOne'
  <2> DEFINE t == [b EXCEPT !.pc = "stop"]
  <2>1. b.pc = "kill" /\ UNCHANGED <<devs, primed>> /\ GoOn(Beat, "stop")
    BY <1>38 DEF Kill, At, recordVars, b
  <2>2. b.dev \in Devices
    BY <1>2, <2>1 DEF Placed, b
  <2>3. t.pc = "stop" /\ t.op = b.op /\ t.dev = b.dev /\ Become(Beat, t)
    BY <1>18, <1>19, <2>1
  <2> HIDE DEF t
  <2>4. srv' = Set(srv, b.dev, StopServer(srv[b.dev]))
    BY <1>38 DEF Kill, b
  <2>5. Honest(srv[b.dev], devs[b.dev])
    BY <1>2, <1>7, <2>1, <2>2
  <2>6. srv'[b.dev].model = None /\ \A d \in Devices \ {b.dev} : srv'[d] = srv[d]
    BY <1>9, <1>22, <2>2, <2>4, <2>5
  <2>7. Known(srv'[b.dev], devs'[b.dev], t, b.dev)
    BY <1>10, <2>3, <2>6 DEF Known
  <2> QED
    BY <1>8, <1>20, <2>1, <2>2, <2>3, <2>6, <2>7
<1>39. ASSUME CheckIdle(Beat) PROVE OneByOne'
  <2>1. b.pc = "check" /\ UNCHANGED <<srv, devs, primed>> /\ Become(Beat, Free)
    BY <1>3, <1>39 DEF CheckIdle, At, recordVars, b
  <2>2. \A x \in Devices : Honest(srv[x], devs[x])
    BY <1>2, <1>7, <2>1
  <2> QED
    BY <1>4, <1>7, <1>12, <2>1, <2>2
<1>40. ASSUME NEW a \in Actors, BeginBeat(a) \/ BeatStep(a) PROVE OneByOne'
  <2>1. ~Doze(Beat)
    BY <1>2 DEF Runner, Doze, At, b
  <2>2. a = Beat
    <3>1. BeginBeat(a) => a = Beat
      BY <1>3 DEF BeginBeat
    <3>2. BeatStep(a) => th[a].pc \in {"check", "kill", "doze"}
      BY DEF BeatStep, CheckDevice, Kill, CheckIdle, Doze, At
    <3> QED
      BY <1>2, <1>40, <3>1, <3>2
  <2> QED
    BY <1>36, <1>37, <1>38, <1>39, <1>40, <2>1, <2>2 DEF BeatStep
\* The environment.
<1>41. CASE RestartAgent
  <2>1. th' = [a \in Actors |-> Free] /\ primed' = Nothing
    BY <1>41 DEF RestartAgent
  <2>2. \A d \in Devices : Honest(srv'[d], devs'[d])
    <3>1. ASSUME NEW d \in Devices
          PROVE  /\ Honest(Stopped, None)
                 /\ Honest([srv[d] EXCEPT !.owner = Orphan, !.reg = "none", !.left = TRUE], None)
      BY <1>2 DEF Honest, Stopped, Server
    <3>2. \A d \in Devices : devs'[d] = None
      BY <1>41 DEF RestartAgent, Nothing
    <3> QED
      BY <1>41, <3>1, <3>2 DEF RestartAgent
  <2>3. \A d \in Devices : Known(srv'[d], devs'[d], Free, d)
    BY <1>7, <1>12, <2>2
  <2> QED
    BY <1>2, <1>12, <2>1, <2>3 DEF OneByOne
<1>42. ASSUME NEW d \in Devices, Crash(d) PROVE OneByOne'
  <2>1. UNCHANGED <<th, devs, primed>>
    BY <1>42 DEF Crash, recordVars
  <2>2. /\ srv'[d].model = None /\ (srv[d].reg = "none" => srv'[d].reg = "none")
        /\ \A x \in Devices \ {d} : srv'[x] = srv[x]
    BY <1>2, <1>42 DEF Crash, Set, Stopped, ServerTypeOK
  <2>3. Known(srv'[d], devs'[d], b, d)
    BY <1>2, <1>10, <2>2 DEF Known
  <2>4. \A x \in Devices : Known(srv'[x], devs'[x], b, x)
    BY <1>2, <2>1, <2>2, <2>3
  <2> QED
    BY <1>6, <2>1, <2>4
<1>43. ASSUME NEW d \in Devices, Hang(d) PROVE OneByOne'
  <2>1. UNCHANGED <<th, devs, primed>>
    BY <1>43 DEF Hang, recordVars
  <2>2. \A x \in Devices : /\ srv'[x].model = srv[x].model /\ srv'[x].owner = srv[x].owner
                           /\ srv'[x].reg = srv[x].reg /\ srv'[x].left = srv[x].left
    BY <1>2, <1>43 DEF Hang, Server, ServerTypeOK
  <2>3. \A x \in Devices : Known(srv'[x], devs'[x], b, x)
    BY <1>2, <2>1, <2>2 DEF Known, Honest
  <2> QED
    BY <1>6, <2>1, <2>3
<1>45. ASSUME NEW d \in Devices, Settle(d) PROVE OneByOne'
  <2>1. UNCHANGED <<th, devs, primed>>
    BY <1>45 DEF Settle, recordVars
  <2>2. \A x \in Devices : /\ srv'[x].model = srv[x].model /\ srv'[x].reg = srv[x].reg
                           /\ srv'[x].left = srv[x].left
                           /\ srv[x].owner # Orphan => srv'[x].owner = srv[x].owner
    BY <1>2, <1>45 DEF Settle, Server, ServerTypeOK
  <2>3. \A x \in Devices : Known(srv'[x], devs'[x], b, x)
    BY <1>2, <2>1, <2>2 DEF Known, Honest
  <2> QED
    BY <1>6, <2>1, <2>3
<1>44. CASE QuietPasses \/ UNCHANGED serverVars
  <2>1. UNCHANGED <<th, srv, devs, primed>>
    BY <1>44 DEF QuietPasses, serverVars, recordVars
  <2> QED
    BY <1>2, <1>6, <2>1
<1> QED
  BY <1>13, <1>14, <1>15, <1>16, <1>17, <1>35, <1>40, <1>41, <1>42, <1>43, <1>44,
     <1>45 DEF ServerNext

\* The theorem of the module: all parts hold in every state.
THEOREM ServerInvariant == ServerSpec => []ServerInv
<1>1. ServerInit => ServerInv
  BY ServerStarts
<1>2. ServerInv /\ [ServerNext]_serverVars => ServerInv'
  BY ServerTypeStep, PlacedStep, LocksStep, OwnersStep, OneByOneStep DEF ServerInv
<1> QED
  BY <1>1, <1>2, PTL DEF ServerSpec

\* Every variable keeps its type.
THEOREM ServerTypesHold == ServerSpec => []ServerTypeOK
<1>1. ServerInv => ServerTypeOK
  BY DEF ServerInv
<1> QED
  BY ServerInvariant, <1>1, PTL

\* Between two heartbeats of a pull agent that only loads, unloads and prompts, what runs
\* on a device is the registered process and serves the recorded model, whatever crashes.
THEOREM RecordIsTrue == ServerSpec => []RecordTrue
<1>1. ServerInv => RecordTrue
  BY DEF ServerInv, OneByOne, Plain, Known, Honest, Free, RecordTrue
<1> QED
  BY ServerInvariant, <1>1, PTL

\* A restart by the heartbeat never takes away the process that a load waits for: the
\* lock that both hold keeps them on different devices.
THEOREM RestartSparesLoads == ServerSpec => RecoverySparesJobs
<1>1. ASSUME ServerInv, [ServerNext]_serverVars, NEW d \in Devices, NEW e \in Actors,
             srv[d].owner \in Threads, th[srv[d].owner].op \in {"load", "fetch"},
             th[e].op = "beat", th[e].pc \in {"kill", "stop"}, th'[e] # th[e],
             th' # [x \in Actors |-> Free]
      PROVE  srv'[d].owner = srv[d].owner
  <2> DEFINE a == srv[d].owner
             b == th[e]
  <2>1. a \in Actors /\ a # e /\ b \in Thread
    BY <1>1, ServerAssumption DEF Actors, ServerInv, ServerTypeOK
  <2>2. locks[d] = a /\ locks[b.dev] = e /\ b.dev \in Devices
    BY <1>1, <2>1 DEF ServerInv, OwnersWait, LocksHeld, Placed, Working
  <2>3. b.dev # d
    BY <2>1, <2>2
  <2>4. \A x \in Actors : \A t : Become(x, t) => x = e
    BY <1>1, <2>1 DEF Become, ServerInv, ServerTypeOK
  <2>5. \A x \in Actors : \A pc : GoOn(x, pc) => x = e
    BY <1>1, <2>1 DEF GoOn, ServerInv, ServerTypeOK
  <2>6. th' # th
    BY <1>1
  <2>7. ASSUME NEW x \in Actors, NEW op, Execute(x, op), x = e PROVE FALSE
    BY <1>1, <2>7 DEF Execute, Free
  <2>8. \/ \E x \in Actors : CommandStep(x)
        \/ BeginBeat(e) \/ BeatStep(e)
    <3>1. ASSUME NEW x \in Actors, NEW m \in Models,
                 \/ \E op \in {"load", "fetch"}, y \in Devices : Load(x, op, m, y)
                 \/ Unload(x, m) \/ DeleteModel(x, m) \/ Prompt(x, m)
          PROVE  FALSE
      <4>1. \E op : Execute(x, op)
        BY <3>1 DEF Load, Unload, DeleteModel, Prompt
      <4>2. th' = th \/ \E t : Become(x, t)
        BY <3>1 DEF Load, Unload, DeleteModel, Prompt
      <4> QED
        BY <2>4, <2>6, <2>7, <4>1, <4>2
    <3>2. ASSUME NEW x \in Actors,
                 \/ UnloadAll(x) \/ (\E op \in {"on", "off"} : Configure(x, op))
                 \/ \E y \in Devices : Reload(x, y)
          PROVE  FALSE
      <4>1. \E op : Execute(x, op)
        BY <3>2 DEF UnloadAll, Configure, Reload
      <4>2. th' = th \/ \E t : Become(x, t)
        BY <3>2 DEF UnloadAll, Configure, Reload
      <4> QED
        BY <2>4, <2>6, <2>7, <4>1, <4>2
    <3>3. ~RestartAgent
      BY <1>1 DEF RestartAgent
    <3>4. /\ ~QuietPasses /\ ~UNCHANGED serverVars
          /\ \A y \in Devices : ~Crash(y) /\ ~Hang(y) /\ ~Settle(y)
      BY <2>6 DEF QuietPasses, Crash, Hang, Settle, serverVars
    <3>5. ASSUME NEW x \in Actors, BeginBeat(x) \/ BeatStep(x) PROVE x = e
      <4>1. (\E u : Become(x, u)) \/ (\E pc : GoOn(x, pc))
        BY <3>5 DEF BeginBeat, BeatStep, CheckDevice, Kill, CheckIdle, Doze
      <4> QED
        BY <2>4, <2>5, <4>1
    <3> QED
      BY <1>1, <3>1, <3>2, <3>3, <3>4, <3>5 DEF ServerNext
  <2>9. ASSUME NEW x \in Actors, CommandStep(x) PROVE x = e /\ StopOld(e)
    <3>1. (\E t : Become(x, t)) \/ (\E pc : GoOn(x, pc))
      BY <2>9 DEF CommandStep, LoadStep, Lock, Fetch, StopOld, Spawn, Ready, NotReady, Record,
                  LoadFails, Return, Generate, Halt, Drop, Sweep, Clear, Wake
    <3>2. x = e
      BY <2>4, <2>5, <3>1
    <3> QED
      BY <1>1, <2>9, <3>2 DEF CommandStep, LoadStep, Lock, Fetch, Spawn, Ready, NotReady, Record,
                              LoadFails, Generate, Halt, Drop, Sweep, Clear, Wake, At
  <2>10. ASSUME BeginBeat(e) \/ BeatStep(e) PROVE Kill(e)
    <3>1. Kill(e) \/ b = Free \/ At(e, "check") \/ At(e, "doze")
      BY <2>10 DEF BeatStep, BeginBeat, CheckDevice, CheckIdle, Doze
    <3> QED
      BY <1>1, <3>1 DEF At, Free
  <2>11. srv' = srv \/ srv' = Set(srv, b.dev, StopServer(srv[b.dev]))
    BY <2>8, <2>9, <2>10 DEF StopOld, Kill
  <2> QED
    BY <1>1, <2>3, <2>11 DEF Set, ServerInv, ServerTypeOK
<1>2. ServerInv /\ [ServerNext]_serverVars =>
        [\A d \in Devices, b \in Actors :
           LET a == srv[d].owner IN
           /\ a \in Threads /\ th[a].op \in {"load", "fetch"}
           /\ th[b].op = "beat" /\ th[b].pc \in {"kill", "stop"} /\ th'[b] # th[b]
           /\ th' # [x \in Actors |-> Free]
           => srv'[d].owner = a]_serverVars
  BY <1>1
<1> QED
  BY ServerInvariant, <1>2, PTL DEF ServerSpec, RecoverySparesJobs

----------------------------------------------------------------------------
(* ModelServer: no thread stands still.                                     *)

\* A lock that is taken is held by a thread that is at work on that device, so that it
\* is given back when this work ends: no early return and no failure leaks a lock.
LocksComeBack ==
  \A d \in Devices :
    locks[d] # None => /\ th[locks[d]].dev = d
                       /\ th[locks[d]].pc \in Working \cup {"kill"}

\* Only work on a device takes its lock, and the end of the work gives it back.
LEMMA BackStep ==
  ASSUME ServerTypeOK, Placed, LocksComeBack, [ServerNext]_serverVars
  PROVE  LocksComeBack'
<1> DEFINE G(t) == t.pc \in Working \cup {"kill"}
           H(a) == \E d \in Devices : locks[d] = a
<1>1. /\ None \notin Actors /\ Beat \in Actors
      /\ \A a \in Threads : a \in Actors
      /\ \A a \in Actors : th[a] \in Thread
      /\ \A d \in Devices : locks[d] # None => /\ locks[d] \in Actors
                                               /\ G(th[locks[d]]) /\ th[locks[d]].dev = d
      /\ ~G(Free)
  BY ServerAssumption DEF ServerTypeOK, LocksComeBack, Actors, Free, Working
<1>2. \A a \in Actors : ~G(th[a]) => ~H(a)
  BY <1>1
<1>3. ASSUME NEW a \in Actors, NEW t, Become(a, t), locks' = locks,
             H(a) => G(t) /\ t.dev = th[a].dev
      PROVE  LocksComeBack'
  BY <1>1, <1>3 DEF Become, LocksComeBack, ServerTypeOK
<1>4. ASSUME NEW a \in Actors, NEW t, Become(a, t), locks' = Set(locks, th[a].dev, None)
      PROVE  LocksComeBack'
  BY <1>1, <1>4 DEF Become, LocksComeBack, ServerTypeOK, Set
<1>5. ASSUME NEW a \in Actors, NEW t, NEW d \in Devices, Become(a, t), ~H(a),
             locks' = Set(locks, d, a), G(t), t.dev = d
      PROVE  LocksComeBack'
  BY <1>1, <1>5 DEF Become, LocksComeBack, ServerTypeOK, Set
<1>6. ASSUME NEW a \in Actors, NEW pc, GoOn(a, pc), locks' = locks, pc \in Working \/ ~H(a)
      PROVE  LocksComeBack'
  <2> DEFINE t == [th[a] EXCEPT !.pc = pc]
  <2>1. t.dev = th[a].dev /\ t.pc = pc
    BY <1>1 DEF Thread
  <2>2. Become(a, t)
    BY <1>6 DEF GoOn, Become
  <2> HIDE DEF t
  <2> QED
    BY <1>3, <1>6, <2>1, <2>2
<1>7. CASE UNCHANGED <<th, locks>>
  BY <1>7 DEF LocksComeBack
<1>8. ASSUME NEW a \in Actors, NEW op, Execute(a, op), th' = th \/ \E t : Become(a, t)
      PROVE  LocksComeBack'
  <2>1. locks' = locks /\ th[a] = Free
    BY <1>8 DEF Execute
  <2>2. ~H(a)
    BY <1>1, <1>2, <2>1
  <2> HIDE DEF G, H
  <2> QED
    BY <1>3, <1>7, <1>8, <2>1, <2>2
<1>9. ASSUME NEW a \in Actors, NEW m \in Models,
             \/ \E op, d : Load(a, op, m, d)
             \/ Unload(a, m) \/ DeleteModel(a, m) \/ Prompt(a, m)
      PROVE  LocksComeBack'
  <2>1. \E op : Execute(a, op)
    BY <1>9 DEF Load, Unload, DeleteModel, Prompt
  <2>2. th' = th \/ \E t : Become(a, t)
    BY <1>9 DEF Load, Unload, DeleteModel, Prompt
  <2> QED
    BY <1>8, <2>1, <2>2
<1>10. ASSUME NEW a \in Actors,
              UnloadAll(a) \/ (\E op : Configure(a, op)) \/ (\E d \in Devices : Reload(a, d))
       PROVE  LocksComeBack'
  <2>1. \E op : Execute(a, op)
    BY <1>10 DEF UnloadAll, Configure, Reload
  <2>2. th' = th \/ \E t : Become(a, t)
    BY <1>10 DEF UnloadAll, Configure, Reload
  <2> QED
    BY <1>8, <2>1, <2>2
<1>11. ASSUME NEW a \in Actors, LoadStep(a) PROVE LocksComeBack'
  <2>1. th[a].dev \in Devices
    BY <1>11 DEF LoadStep, Lock, Fetch, StopOld, Spawn, Ready, NotReady, Record, LoadFails, At,
                 Placed, Working
  <2>2. CASE Record(a) \/ LoadFails(a)
    <3>1. \E t : Become(a, t)
      BY <2>2 DEF Record, LoadFails, Return
    <3>2. CASE locks[th[a].dev] = a
      <4>1. locks' = Set(locks, th[a].dev, None)
        BY <2>2, <3>2 DEF Record, LoadFails, Unlock
      <4> QED
        BY <1>4, <3>1, <4>1
    <3>3. CASE locks[th[a].dev] # a
      <4>1. locks' = locks
        BY <2>2, <3>3 DEF Record, LoadFails, Unlock
      <4>2. ~H(a)
        BY <1>1, <3>3
      <4> HIDE DEF G, H
      <4> QED
        BY <1>3, <3>1, <4>1, <4>2
    <3> QED
      BY <3>2, <3>3
  <2>3. CASE Lock(a)
    <3>1. ~H(a)
      BY <1>2, <2>3 DEF Lock, At, Working
    <3>2. CASE Become(a, Free) /\ locks' = locks
      BY <1>3, <3>1, <3>2
    <3>3. ASSUME NEW pc \in {"stop", "fetch"}, GoOn(a, pc), locks' = Set(locks, th[a].dev, a)
          PROVE  LocksComeBack'
      <4> DEFINE t == [th[a] EXCEPT !.pc = pc]
      <4>1. t.dev = th[a].dev /\ t.pc = pc /\ Become(a, t)
        BY <1>1, <3>3 DEF Thread, GoOn, Become
      <4>2. G(t)
        BY <4>1 DEF Working
      <4> HIDE DEF t, G, H
      <4> QED
        BY <1>5, <2>1, <3>1, <3>3, <4>1, <4>2
    <3> QED
      BY <2>3, <3>2, <3>3 DEF Lock
  <2>4. CASE Fetch(a) \/ StopOld(a) \/ Spawn(a) \/ Ready(a)
    BY <1>6, <2>4 DEF Fetch, StopOld, Spawn, Ready, Working, otherVars
  <2>5. CASE NotReady(a)
    <3> DEFINE t == [th[a] EXCEPT !.pc = "stop", !.tries = @ + 1]
    <3>1. t.dev = th[a].dev /\ t.pc = "stop"
      BY <1>1 DEF Thread
    <3>2. locks' = locks /\ (Become(a, t) \/ GoOn(a, "fail"))
      BY <2>5 DEF NotReady
    <3> HIDE DEF t
    <3> QED
      BY <1>3, <1>6, <3>1, <3>2 DEF Working
  <2> QED
    BY <1>11, <2>2, <2>3, <2>4, <2>5 DEF LoadStep
<1>12. ASSUME NEW a \in Actors, Generate(a) \/ Halt(a) \/ Drop(a) \/ Sweep(a) \/ Clear(a) \/ Wake(a)
       PROVE  LocksComeBack'
  <2>1. ~H(a) /\ locks' = locks
    BY <1>2, <1>12 DEF Generate, Halt, Drop, Sweep, Clear, Wake, At, Working
  <2>2. (\E t : Become(a, t)) \/ (\E pc : GoOn(a, pc))
    BY <1>12 DEF Generate, Halt, Drop, Sweep, Clear, Wake
  <2> HIDE DEF G, H
  <2> QED
    BY <1>3, <1>6, <2>1, <2>2
<1>13. ASSUME NEW a \in Actors, BeginBeat(a) \/ BeatStep(a) PROVE LocksComeBack'
  <2> DEFINE b == th[a]
  <2>1. CASE Kill(a)
    BY <1>1, <1>6, <2>1 DEF Kill, Working
  <2>2. ASSUME NEW d \in Devices, CheckDevice(a, d) PROVE LocksComeBack'
    <3>1. ~H(a)
      BY <1>1, <1>2, <2>2 DEF CheckDevice, At, Working
    <3>2. CASE locks' = Set(locks, d, a)
      <4> DEFINE k == [b EXCEPT !.pc = "kill", !.dev = d, !.model = b.seen[d], !.todo = @ \ {d}]
                 u == [b EXCEPT !.todo = @ \ {d}]
      <4>1. k.dev = d /\ k.pc = "kill"
        BY <1>1 DEF Thread
      <4>2. Become(a, k) \/ locks' = locks
        BY <2>2 DEF CheckDevice
      <4>3. Become(a, k) \/ Become(a, u)
        BY <2>2 DEF CheckDevice
      <4> HIDE DEF k, u, H
      <4> QED
        BY <1>1, <1>3, <1>5, <3>1, <3>2, <4>1, <4>2, <4>3
    <3>3. CASE locks' = locks
      <4>1. \E t : Become(a, t)
        BY <2>2 DEF CheckDevice
      <4> HIDE DEF G, H
      <4> QED
        BY <1>1, <1>3, <3>1, <3>3, <4>1
    <3> QED
      BY <2>2, <3>2, <3>3 DEF CheckDevice
  <2>3. CASE BeginBeat(a) \/ CheckIdle(a) \/ Doze(a)
    <3>1. ~H(a) /\ locks' = locks
      BY <1>1, <1>2, <2>3 DEF BeginBeat, CheckIdle, Doze, At, Working
    <3>2. \E t : Become(a, t)
      BY <2>3 DEF BeginBeat, CheckIdle, Doze
    <3> HIDE DEF G, H
    <3> QED
      BY <1>1, <1>3, <3>1, <3>2
  <2> QED
    BY <1>13, <2>1, <2>2, <2>3 DEF BeatStep
<1>14. CASE RestartAgent
  BY <1>14 DEF RestartAgent, LocksComeBack, Nothing
<1>15. ASSUME QuietPasses \/ (\E d \in Devices : Crash(d) \/ Hang(d) \/ Settle(d))
              \/ UNCHANGED serverVars
       PROVE  UNCHANGED <<th, locks>>
  BY <1>15 DEF QuietPasses, Crash, Hang, Settle, serverVars
<1> QED
  BY <1>7, <1>9, <1>10, <1>11, <1>12, <1>13, <1>14, <1>15 DEF ServerNext, CommandStep

\* Whoever waits for the lock of a device waits for a thread that is at work there.
THEOREM NoLockIsLost == ServerSpec => []LocksComeBack
<1>1. ServerInit => LocksComeBack
  BY DEF ServerInit, LocksComeBack, Nothing
<1>2. (ServerInv /\ LocksComeBack) /\ [ServerNext]_serverVars => LocksComeBack'
  BY BackStep DEF ServerInv
<1> QED
  BY <1>1, <1>2, ServerInvariant, PTL DEF ServerSpec

\* How much one device can cost a thread that goes through several.
PerDevice == 3 * Retries + 9

\* How many steps are left at pc with r retries.
PcLeft(pc, r) ==
  CASE pc = "idle"  -> 0
    [] pc = "lock"  -> 3 * r + 8
    [] pc = "fetch" -> 3 * r + 7
    [] pc = "kill"  -> 3 * r + 6
    [] pc = "stop"  -> 3 * r + 5
    [] pc = "spawn" -> 3 * r + 4
    [] pc = "wait"  -> 3 * r + 3
    [] pc \in {"record", "fail", "halt", "sweep"} -> 2
    [] OTHER -> 1

\* A heartbeat that checks may put all the devices to sleep after that.
ThenDoze(t) == IF t.op = "beat" /\ t.pc # "doze" THEN PerDevice * Cardinality(Devices) + 1 ELSE 0

\* How many steps a thread has left at most.
WorkLeft(t) ==
  PcLeft(t.pc, Retries - t.tries) + PerDevice * Cardinality(t.todo) + ThenDoze(t)

\* A command that runs and a heartbeat that checks come nearer to their end with every
\* step, or are at it: start_server gives up after its retries, and whoever goes through
\* the devices goes on to the next.
ThreadsMoveOn ==
  \A a \in Actors :
    \/ th'[a] \in {th[a], Free}
    \/ th[a] = Free
    \/ WorkLeft(th'[a]) < WorkLeft(th[a])

\* A thread is finitely far from its end.
LEMMA WorkType ==
  /\ PerDevice \in Nat /\ PerDevice >= 3 * Retries + 9 /\ PerDevice * Cardinality(Devices) \in Nat
  /\ \A t \in Thread :
       /\ t.tries \in 0..Retries /\ Retries - t.tries \in 0..Retries
       /\ PcLeft(t.pc, Retries - t.tries) \in Nat
       /\ IsFiniteSet(t.todo) /\ Cardinality(t.todo) \in Nat
       /\ PerDevice * Cardinality(t.todo) \in Nat
       /\ PerDevice * Cardinality(t.todo) <= PerDevice * Cardinality(Devices)
       /\ ThenDoze(t) \in Nat
<1>1. PerDevice \in Nat /\ PerDevice >= 3 * Retries + 9 /\ Retries \in Nat
  BY ServerAssumption DEF PerDevice
<1>2. \A p, m, n \in Nat : p * n \in Nat /\ (m <= n => p * m <= p * n)
  OBVIOUS
<1>3. Cardinality(Devices) \in Nat
  BY ServerAssumption, FS_CardinalityType
<1>4. ASSUME NEW t \in Thread
      PROVE  /\ t.tries \in 0..Retries /\ Retries - t.tries \in 0..Retries
             /\ PcLeft(t.pc, Retries - t.tries) \in Nat
             /\ IsFiniteSet(t.todo) /\ Cardinality(t.todo) \in Nat
             /\ Cardinality(t.todo) <= Cardinality(Devices)
  <2>1. t.tries \in 0..Retries /\ t.todo \in SUBSET Devices
    BY DEF Thread
  <2>2. Retries - t.tries \in 0..Retries
    BY <1>1, <2>1
  <2>3. \A r \in Nat : \A pc : PcLeft(pc, r) \in Nat
    BY DEF PcLeft
  <2>4. IsFiniteSet(t.todo) /\ Cardinality(t.todo) <= Cardinality(Devices)
    BY <2>1, ServerAssumption, FS_Subset
  <2> QED
    BY <1>1, <2>1, <2>2, <2>3, <2>4, FS_CardinalityType
<1> QED
  BY <1>1, <1>2, <1>3, <1>4 DEF ThenDoze

\* One step less is less, and so is a device less.
LEMMA WorkFalls ==
  ASSUME NEW t \in Thread, NEW u \in Thread, u.op = t.op, (u.pc = "doze") <=> (t.pc = "doze")
  PROVE  /\ u.todo = t.todo
            /\ PcLeft(u.pc, Retries - u.tries) < PcLeft(t.pc, Retries - t.tries)
            => WorkLeft(u) < WorkLeft(t)
         /\ \A d \in t.todo :
              /\ u.todo = t.todo \ {d}
              /\ PcLeft(u.pc, Retries - u.tries) < PcLeft(t.pc, Retries - t.tries) + PerDevice
              => WorkLeft(u) < WorkLeft(t)
<1>1. ThenDoze(u) = ThenDoze(t)
  BY DEF ThenDoze
<1> DEFINE p(x) == PcLeft(x.pc, Retries - x.tries)
           c(x) == PerDevice * Cardinality(x.todo)
<1>2. /\ p(t) \in Nat /\ p(u) \in Nat /\ c(t) \in Nat /\ c(u) \in Nat
      /\ ThenDoze(t) \in Nat /\ PerDevice \in Nat
      /\ IsFiniteSet(t.todo) /\ Cardinality(t.todo) \in Nat
  BY WorkType
<1>3. \A x : WorkLeft(x) = p(x) + c(x) + ThenDoze(x)
  BY DEF WorkLeft
<1>4. ASSUME NEW d \in t.todo, u.todo = t.todo \ {d} PROVE c(t) = c(u) + PerDevice
  <2>1. Cardinality(u.todo) = Cardinality(t.todo) - 1
    <3>1. IsFiniteSet(t.todo)
      BY <1>2
    <3>2. Cardinality(t.todo \ {d}) = Cardinality(t.todo) - 1
      BY <3>1, FS_RemoveElement
    <3> QED
      BY <1>4, <3>2
  <2>2. \A m, n \in Nat : m * n = m * (n - 1) + m
    OBVIOUS
  <2>3. PerDevice * Cardinality(t.todo) = PerDevice * (Cardinality(t.todo) - 1) + PerDevice
    BY <1>2, <2>2
  <2> QED
    BY <2>1, <2>3
<1>5. u.todo = t.todo => c(u) = c(t)
  OBVIOUS
<1> HIDE DEF p, c
<1>6. ASSUME u.todo = t.todo, p(u) < p(t) PROVE WorkLeft(u) < WorkLeft(t)
  BY <1>1, <1>2, <1>3, <1>5, <1>6
<1>7. ASSUME NEW d \in t.todo, u.todo = t.todo \ {d}, p(u) < p(t) + PerDevice
      PROVE  WorkLeft(u) < WorkLeft(t)
  BY <1>1, <1>2, <1>3, <1>4, <1>7
<1> QED
  BY <1>6, <1>7 DEF p

\* Every step of a thread brings it nearer to its end.
LEMMA WorkStep ==
  ASSUME ServerTypeOK, Placed, [ServerNext]_serverVars, ServerTypeOK'
  PROVE  ThreadsMoveOn
<1> DEFINE Nearer(t, u) == u \in {t, Free} \/ t = Free \/ WorkLeft(u) < WorkLeft(t)
<1>1. /\ Beat \in Actors /\ \A a \in Threads : a \in Actors
      /\ \A a \in Actors : th[a] \in Thread /\ th'[a] \in Thread
  BY DEF ServerTypeOK, Actors
<1>2. ASSUME NEW a \in Actors, NEW t, Become(a, t), Nearer(th[a], t) PROVE ThreadsMoveOn
  <2>1. \A x \in Actors : th'[x] = IF x = a THEN t ELSE th[x]
    BY <1>2 DEF Become, ServerTypeOK
  <2> QED
    BY <1>2, <2>1 DEF ThreadsMoveOn
<1>3. ASSUME NEW a \in Actors, NEW t, Become(a, t) PROVE t \in Thread
  <2>1. th'[a] = t
    BY <1>3 DEF Become, ServerTypeOK
  <2> QED
    BY <1>1, <2>1
<1>4. ASSUME NEW a \in Actors, NEW pc, GoOn(a, pc), pc # "doze", th[a].pc # "doze",
             PcLeft(pc, Retries - th[a].tries) < PcLeft(th[a].pc, Retries - th[a].tries)
      PROVE  ThreadsMoveOn
  <2> DEFINE t == [th[a] EXCEPT !.pc = pc]
  <2>1. t.op = th[a].op /\ t.todo = th[a].todo /\ t.pc = pc /\ t.tries = th[a].tries
    BY <1>1 DEF Thread
  <2>2. Become(a, t)
    BY <1>4 DEF GoOn, Become
  <2> HIDE DEF t
  <2>3. t \in Thread
    BY <1>3, <2>2
  <2>4. WorkLeft(t) < WorkLeft(th[a])
    BY <1>1, <1>4, <2>1, <2>3, WorkFalls
  <2> QED
    BY <1>2, <2>2, <2>4
<1>5. CASE th' = th
  BY <1>5 DEF ThreadsMoveOn
<1>6. ASSUME NEW a \in Actors, NEW op, Execute(a, op), th' = th \/ \E t : Become(a, t)
      PROVE  ThreadsMoveOn
  BY <1>2, <1>5, <1>6 DEF Execute
<1>7. ASSUME NEW a \in Actors, NEW m \in Models,
             \/ \E op, d : Load(a, op, m, d)
             \/ Unload(a, m) \/ DeleteModel(a, m) \/ Prompt(a, m)
      PROVE  ThreadsMoveOn
  <2>1. \E op : Execute(a, op)
    BY <1>7 DEF Load, Unload, DeleteModel, Prompt
  <2>2. th' = th \/ \E t : Become(a, t)
    BY <1>7 DEF Load, Unload, DeleteModel, Prompt
  <2> QED
    BY <1>6, <2>1, <2>2
<1>8. ASSUME NEW a \in Actors,
             UnloadAll(a) \/ (\E op : Configure(a, op)) \/ (\E d \in Devices : Reload(a, d))
      PROVE  ThreadsMoveOn
  <2>1. \E op : Execute(a, op)
    BY <1>8 DEF UnloadAll, Configure, Reload
  <2>2. th' = th \/ \E t : Become(a, t)
    BY <1>8 DEF UnloadAll, Configure, Reload
  <2> QED
    BY <1>6, <2>1, <2>2
<1>9. \A r \in Nat :
        /\ PcLeft("fetch", r) < PcLeft("lock", r) /\ PcLeft("stop", r) < PcLeft("lock", r)
        /\ PcLeft("stop", r) < PcLeft("fetch", r) /\ PcLeft("fail", r) < PcLeft("fetch", r)
        /\ PcLeft("fail", r) < PcLeft("stop", r) /\ PcLeft("spawn", r) < PcLeft("stop", r)
        /\ PcLeft("wait", r) < PcLeft("spawn", r) /\ PcLeft("record", r) < PcLeft("wait", r)
        /\ PcLeft("fail", r) < PcLeft("wait", r) /\ PcLeft("stop", r) < PcLeft("kill", r)
        /\ PcLeft("drop", r) < PcLeft("halt", r) /\ PcLeft("clear", r) < PcLeft("sweep", r)
        /\ r # 0 => PcLeft("stop", r - 1) < PcLeft("wait", r)
  BY DEF PcLeft
<1>10. \A a \in Actors : th[a].tries \in 0..Retries /\ Retries - th[a].tries \in Nat
  BY <1>1, WorkType
<1>11. ASSUME NEW a \in Actors, LoadStep(a) PROVE ThreadsMoveOn
  <2>1. CASE Lock(a)
    BY <1>2, <1>4, <1>9, <1>10, <2>1 DEF Lock, At
  <2>2. CASE Fetch(a) \/ StopOld(a) \/ Spawn(a) \/ Ready(a)
    BY <1>4, <1>9, <1>10, <2>2 DEF Fetch, StopOld, Spawn, Ready, At
  <2>3. CASE NotReady(a)
    <3> DEFINE t == [th[a] EXCEPT !.pc = "stop", !.tries = @ + 1]
    <3>1. /\ t.op = th[a].op /\ t.todo = th[a].todo /\ t.pc = "stop"
          /\ t.tries = th[a].tries + 1
      BY <1>1 DEF Thread
    <3>2. /\ th[a].pc = "wait"
          /\ (th[a].tries < Retries /\ Become(a, t)) \/ GoOn(a, "fail")
      BY <2>3 DEF NotReady, At
    <3>3. ASSUME th[a].tries < Retries
          PROVE  PcLeft("stop", Retries - (th[a].tries + 1)) < PcLeft("wait", Retries - th[a].tries)
      <4>1. /\ Retries - th[a].tries \in Nat /\ Retries - th[a].tries # 0
            /\ Retries - (th[a].tries + 1) = (Retries - th[a].tries) - 1
        BY <1>10, <3>3, ServerAssumption
      <4> QED
        BY <1>9, <4>1
    <3> HIDE DEF t
    <3>4. CASE th[a].tries < Retries /\ Become(a, t)
      <4>1. t \in Thread
        BY <1>3, <3>4
      <4>2. WorkLeft(t) < WorkLeft(th[a])
        BY <1>1, <3>1, <3>2, <3>3, <3>4, <4>1, WorkFalls
      <4> QED
        BY <1>2, <3>4, <4>2
    <3>5. CASE GoOn(a, "fail")
      BY <1>4, <1>9, <1>10, <3>2, <3>5
    <3> QED
      BY <3>2, <3>4, <3>5
  <2>4. CASE Record(a) \/ LoadFails(a)
    <3>1. \A r, s \in Nat : \A pc \in {"gen", "check", "wake"}, old \in {"record", "fail"} :
            PcLeft(pc, r) < PcLeft(old, s)
      BY DEF PcLeft
    <3> DEFINE g == [th[a] EXCEPT !.pc = "gen"]
               u(pc) == [th[a] EXCEPT !.pc = pc, !.dev = None, !.model = None, !.tries = 0]
               Comes(t) == /\ t.pc \in {"gen", "check", "wake"}
                          /\ t.op = th[a].op /\ t.todo = th[a].todo
    <3>5. Comes(g) /\ \A pc \in {"check", "wake"} : Comes(u(pc))
      BY <1>1 DEF Thread
    <3>6. \/ Become(a, Free) \/ Become(a, g)
          \/ \E pc \in {"check", "wake"} : Become(a, u(pc))
      BY <2>4 DEF Record, LoadFails, Return
    <3> HIDE DEF g, u
    <3>2. Become(a, Free) \/ \E t : Become(a, t) /\ Comes(t)
      BY <3>5, <3>6
    <3>3. th[a].pc \in {"record", "fail"}
      BY <2>4 DEF Record, LoadFails, At
    <3>4. ASSUME NEW t, Become(a, t), t.pc \in {"gen", "check", "wake"},
                 t.op = th[a].op, t.todo = th[a].todo
          PROVE  ThreadsMoveOn
      <4>1. t \in Thread
        BY <1>3, <3>4
      <4>2. PcLeft(t.pc, Retries - t.tries) < PcLeft(th[a].pc, Retries - th[a].tries)
        BY <1>10, <3>1, <3>3, <3>4, <4>1, WorkType, ServerAssumption
      <4>3. WorkLeft(t) < WorkLeft(th[a])
        BY <1>1, <3>3, <3>4, <4>1, <4>2, WorkFalls
      <4> QED
        BY <1>2, <3>4, <4>3
    <3> QED
      BY <1>2, <3>2, <3>4
  <2> QED
    BY <1>11, <2>1, <2>2, <2>3, <2>4 DEF LoadStep
<1>12. ASSUME NEW a \in Actors, NEW t, NEW d \in th[a].todo, Become(a, t),
              t.op = th[a].op, t.todo = th[a].todo \ {d},
              \/ t.pc = th[a].pc /\ t.tries = th[a].tries
              \/ t.pc \in {"kill", "stop"} /\ th[a].pc # "doze"
       PROVE  ThreadsMoveOn
  <2>1. t \in Thread
    BY <1>3, <1>12
  <2>2. /\ PcLeft(th[a].pc, Retries - th[a].tries) \in Nat
        /\ t.tries \in 0..Retries /\ Retries - t.tries \in 0..Retries
        /\ PerDevice \in Nat /\ PerDevice >= 3 * Retries + 9 /\ Retries \in Nat
    BY <1>1, <2>1, WorkType, ServerAssumption
  <2>3. \A r \in 0..Retries : \A pc \in {"kill", "stop"} :
          PcLeft(pc, r) \in Nat /\ PcLeft(pc, r) < 3 * Retries + 9
    BY <2>2 DEF PcLeft
  <2>4. PcLeft(t.pc, Retries - t.tries) < PcLeft(th[a].pc, Retries - th[a].tries) + PerDevice
    <3>1. CASE t.pc = th[a].pc /\ t.tries = th[a].tries
      BY <2>2, <3>1
    <3>2. CASE t.pc \in {"kill", "stop"}
      <4>1. /\ PcLeft(t.pc, Retries - t.tries) \in Nat
            /\ PcLeft(t.pc, Retries - t.tries) < 3 * Retries + 9
        BY <2>2, <2>3, <3>2
      <4> QED
        BY <2>2, <4>1
    <3> QED
      BY <1>12, <3>1, <3>2
  <2>5. WorkLeft(t) < WorkLeft(th[a])
    BY <1>1, <1>12, <2>1, <2>4, WorkFalls
  <2> QED
    BY <1>2, <1>12, <2>5
<1>13. ASSUME NEW a \in Actors, Generate(a) \/ Halt(a) \/ Drop(a) \/ Sweep(a) \/ Clear(a) \/ Wake(a)
       PROVE  ThreadsMoveOn
  <2>1. CASE Generate(a) \/ Drop(a) \/ Clear(a)
    BY <1>2, <2>1 DEF Generate, Drop, Clear
  <2>2. CASE Halt(a)
    BY <1>4, <1>9, <1>10, <2>2 DEF Halt, At
  <2>3. CASE Sweep(a)
    <3>1. \A d : LET t == [th[a] EXCEPT !.todo = @ \ {d}] IN
            /\ t.op = th[a].op /\ t.todo = th[a].todo \ {d}
            /\ t.pc = th[a].pc /\ t.tries = th[a].tries
      BY <1>1 DEF Thread
    <3>2. \/ \E d \in th[a].todo : Become(a, [th[a] EXCEPT !.todo = @ \ {d}])
          \/ GoOn(a, "clear") /\ th[a].pc = "sweep"
      BY <2>3 DEF Sweep, At
    <3> QED
      BY <1>4, <1>9, <1>10, <1>12, <3>1, <3>2
  <2>4. CASE Wake(a)
    <3>1. \A d, m : LET t == [th[a] EXCEPT !.pc = "stop", !.dev = d, !.model = m, !.todo = @ \ {d}] IN
            t.op = th[a].op /\ t.todo = th[a].todo \ {d} /\ t.pc = "stop"
      BY <1>1 DEF Thread
    <3>2. \/ \E d \in th[a].todo : \E m :
               Become(a, [th[a] EXCEPT !.pc = "stop", !.dev = d, !.model = m, !.todo = @ \ {d}])
          \/ Become(a, Free)
      BY <2>4 DEF Wake
    <3>3. th[a].pc = "wake"
      BY <2>4 DEF Wake, At
    <3> QED
      BY <1>2, <1>12, <3>1, <3>2, <3>3
  <2> QED
    BY <1>13, <2>1, <2>2, <2>3, <2>4
<1>14. ASSUME NEW a \in Actors, BeginBeat(a) \/ BeatStep(a) PROVE ThreadsMoveOn
  <2> DEFINE b == th[a]
  <2>1. CASE BeginBeat(a)
    BY <1>1, <1>2, <2>1 DEF BeginBeat
  <2>2. ASSUME NEW d \in Devices, CheckDevice(a, d) PROVE ThreadsMoveOn
    <3> DEFINE k == [b EXCEPT !.pc = "kill", !.dev = d, !.model = b.seen[d], !.todo = @ \ {d}]
               u == [b EXCEPT !.todo = @ \ {d}]
    <3>1. /\ k.op = b.op /\ k.todo = b.todo \ {d} /\ k.pc = "kill"
          /\ u.op = b.op /\ u.todo = b.todo \ {d} /\ u.pc = b.pc /\ u.tries = b.tries
      BY <1>1 DEF Thread
    <3>2. (Become(a, k) \/ Become(a, u)) /\ b.pc = "check" /\ d \in b.todo
      BY <2>2 DEF CheckDevice, At
    <3> HIDE DEF k, u
    <3> QED
      BY <1>1, <1>12, <3>1, <3>2
  <2>3. CASE Kill(a)
    BY <1>1, <1>4, <1>9, <1>10, <2>3 DEF Kill, At
  <2>4. CASE CheckIdle(a)
    <3> DEFINE t == [Free EXCEPT !.op = "beat", !.pc = "doze", !.todo = Loaded(devs),
                                 !.seen = devs]
    <3>1. t.op = "beat" /\ t.pc = "doze" /\ b.pc = "check"
      BY <2>4 DEF Free, CheckIdle, At
    <3>2. Become(a, t) \/ Become(a, Free)
      BY <2>4 DEF CheckIdle
    <3> HIDE DEF t
    <3>3. ASSUME Become(a, t) PROVE ThreadsMoveOn
      <4>1. t \in Thread
        BY <1>1, <1>3, <3>3
      <4>2. ThenDoze(t) = 0 /\ PcLeft(t.pc, Retries - t.tries) = 1
        BY <3>1 DEF ThenDoze, PcLeft
      <4>3. b.op = "beat" => ThenDoze(b) = PerDevice * Cardinality(Devices) + 1
        BY <3>1 DEF ThenDoze
      <4>4. PcLeft(b.pc, Retries - b.tries) = 1
        BY <3>1 DEF PcLeft
      <4>5. b.op = "beat"
        BY <3>1, <1>1 DEF Placed
      <4>6. WorkLeft(t) < WorkLeft(b)
        <5>1. /\ PerDevice * Cardinality(t.todo) \in Nat
              /\ PerDevice * Cardinality(b.todo) \in Nat
              /\ PerDevice * Cardinality(Devices) \in Nat
              /\ PerDevice * Cardinality(t.todo) <= PerDevice * Cardinality(Devices)
          BY <1>1, <4>1, WorkType
        <5>2. /\ WorkLeft(t) = 1 + PerDevice * Cardinality(t.todo)
              /\ WorkLeft(b) = 1 + PerDevice * Cardinality(b.todo)
                                 + (PerDevice * Cardinality(Devices) + 1)
          BY <4>2, <4>3, <4>4, <4>5, <5>1 DEF WorkLeft
        <5> QED
          BY <5>1, <5>2
      <4> QED
        BY <1>1, <1>2, <3>3, <4>6
    <3> QED
      BY <1>1, <1>2, <3>2, <3>3
  <2>5. CASE Doze(a)
    <3>1. \A d : LET t == [b EXCEPT !.todo = @ \ {d}] IN
            /\ t.op = b.op /\ t.todo = b.todo \ {d} /\ t.pc = b.pc /\ t.tries = b.tries
      BY <1>1 DEF Thread
    <3>2. \/ \E d \in b.todo : Become(a, [b EXCEPT !.todo = @ \ {d}])
          \/ Become(a, Free)
      BY <2>5 DEF Doze
    <3> QED
      BY <1>1, <1>2, <1>12, <3>1, <3>2
  <2> QED
    BY <1>14, <2>1, <2>2, <2>3, <2>4, <2>5 DEF BeatStep
<1>15. CASE RestartAgent
  BY <1>15 DEF RestartAgent, ThreadsMoveOn
<1>16. ASSUME QuietPasses \/ (\E d \in Devices : Crash(d) \/ Hang(d) \/ Settle(d))
              \/ UNCHANGED serverVars
       PROVE  th' = th
  BY <1>16 DEF QuietPasses, Crash, Hang, Settle, serverVars
<1> QED
  BY <1>5, <1>7, <1>8, <1>11, <1>13, <1>14, <1>15, <1>16 DEF ServerNext, CommandStep

\* Every command and every heartbeat of an agent comes to its end: the steps a thread
\* has left are bounded, and each step it takes leaves fewer, whatever the other threads,
\* crashes and hung servers do.
THEOREM EveryThreadMovesOn == ServerSpec => [][ThreadsMoveOn]_serverVars
<1>1. ServerInv /\ [ServerNext]_serverVars => [ThreadsMoveOn]_serverVars
  BY ServerTypeStep, WorkStep DEF ServerInv
<1> QED
  BY ServerInvariant, <1>1, PTL DEF ServerSpec

----------------------------------------------------------------------------
(* The parts of a node side by side.                                        *)

\* Each part takes steps of its own, or none.
LEMMA PartsStep ==
  ASSUME [Next]_vars
  PROVE  [ServerNext]_serverVars /\ [LocalNext]_localVars /\ [PairingNext]_pairingVars
BY DEF Next, vars

\* What holds of each part holds of them together, wherever the focus lies.
NodeInv == ServerInv /\ LocalInv /\ PairInv

LEMMA NodeInvariant == Spec => []NodeInv
<1>1. Init => NodeInv
  BY ServerStarts, LocalStarts, PairInit DEF Init, NodeInv
<1>2. NodeInv /\ [Next]_vars => NodeInv'
  <2> SUFFICES ASSUME NodeInv, [Next]_vars PROVE NodeInv'
    OBVIOUS
  <2>1. [ServerNext]_serverVars /\ [LocalNext]_localVars /\ [PairingNext]_pairingVars
    BY PartsStep
  <2>2. ServerInv'
    BY <2>1, ServerTypeStep, PlacedStep, LocksStep, OwnersStep, OneByOneStep DEF NodeInv, ServerInv
  <2>3. LocalInv'
    BY <2>1, LocalTypeStep, LocalStep DEF NodeInv, LocalInv
  <2>4. PairInv'
    BY <2>1, PairStep DEF NodeInv
  <2> QED
    BY <2>2, <2>3, <2>4 DEF NodeInv
<1> QED
  BY <1>1, <1>2, PTL DEF Spec

\* Every variable of the model server, the local agent and the pairing keeps its type,
\* wherever the focus of a behaviour lies.
THEOREM NodeTypes == Spec => []TypesOK
<1>1. NodeInv => TypesOK
  BY DEF NodeInv, ServerInv, LocalInv, PairInv, TypesOK
<1> QED
  BY NodeInvariant, <1>1, PTL
================================================================================
