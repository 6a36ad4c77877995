-------------------------------- MODULE LocalAgent --------------------------------
(***************************************************************************)
(* The agent that nCore runs on its own machine (nCore/local_agent.py):    *)
(* starting it, stopping it, the thread that waits for its end, and the    *)
(* pid file by which two agents on a machine exclude one another           *)
(* (agent/run.py).                                                         *)
(*                                                                         *)
(* A start looks under the lock whether an agent runs and sets it under    *)
(* the lock when it has started one; a stop looks and clears. What comes   *)
(* in between takes seconds. Process c is the one that call c starts. The  *)
(* local node is deleted, or its token revoked, as any other while its     *)
(* agent lives.                                                            *)
(***************************************************************************)
EXTENDS Naturals, FiniteSets

CONSTANTS
  MaxCalls,       \* starts and stops, those of a restart included (bound)
  Nobody,         \* no process
  MaxLocalFaults  \* crashes of the agent, restarts of nCore, deletions and revocations (bound)

Calls_ == 1..MaxCalls
Processes == Calls_ \cup {Nobody}

ASSUME LocalAssumption ==
  MaxCalls \in Nat /\ Nobody \notin Calls_ /\ MaxLocalFaults \in Nat

VARIABLES
  localAt,  \* the step of each call
  target,   \* the process a stop is about
  process,  \* the state of each process
  termed,   \* processes that were sent SIGTERM
  proc,     \* _proc
  watched,  \* processes that have a monitor thread
  pidFile,
  entry,    \* how the registry knows the local node: as local, as one that polls, or not
  keys,     \* processes whose token is valid, those that have ended left out
  beating,  \* a heartbeat of a local agent is on its way
  sweeps,   \* the host has the /proc that _kill_orphaned_agents reads (macOS has none)
  left,     \* (observer) living agents that a start found and could not end
  struck,   \* (observer) a token a living agent uses went since the node was made local
  overlap,  \* (observer) two calls overlapped, or one an agent on its way to the pid file
  localFaults

callVars == <<localAt, target, proc, watched>>
processVars == <<process, termed, pidFile>>
nodeVars == <<entry, keys, beating>>
observers == <<left, struck, overlap>>
localVars == <<callVars, processVars, nodeVars, observers, sweeps, localFaults>>

LocalInit ==
  /\ localAt = [c \in Calls_ |-> "idle"] /\ target = [c \in Calls_ |-> Nobody]
  /\ process = [c \in Calls_ |-> "none"] /\ termed = {}
  /\ proc = Nobody /\ watched = {}
  /\ pidFile = Nobody
  /\ entry = "none" /\ keys = {} /\ beating = FALSE
  /\ sweeps \in BOOLEAN
  /\ left = {} /\ struck = FALSE /\ overlap = FALSE /\ localFaults = 0

Alive(p) == p # Nobody /\ process[p] \in {"boot", "checked", "run"}
\* An agent that lives and has not been told to end.
Loose(p) == Alive(p) /\ p \notin termed
Moves(c, from, to) == localAt[c] = from /\ localAt' = [localAt EXCEPT ![c] = to]
UnderWay == {c \in Calls_ : localAt[c] \notin {"idle", "done"}}
LocalFault == localFaults < MaxLocalFaults /\ localFaults' = localFaults + 1

\* Calls come in the order of their numbers; once two have overlapped, nothing is claimed
\* and no other comes (bound).
Enters(c, to) ==
  /\ ~overlap
  /\ \A b \in 1..(c - 1) : localAt[b] # "idle"
  /\ Moves(c, "idle", to)
  /\ overlap' = (UnderWay # {})
  /\ UNCHANGED <<left, struck>>

\* What all but these leave alone.
Calm == UNCHANGED <<sweeps, localFaults>>

----------------------------------------------------------------------------
(* start_agent                                                              *)

StartAgent(c) ==
  /\ Enters(c, IF Alive(proc) THEN "done" ELSE "sweep")
  /\ UNCHANGED <<target, proc, watched, processVars, nodeVars>> /\ Calm

\* _kill_orphaned_agents does not look whether they end; without /proc it takes none
\* for an agent.
KillOrphans(c) ==
  /\ Moves(c, "sweep", "enrol")
  /\ termed' = IF sweeps THEN termed \cup {p \in Calls_ : Alive(p)} ELSE termed
  /\ left' = IF sweeps THEN left ELSE left \cup {p \in Calls_ : Loose(p)}
  /\ overlap' = (overlap \/ \E p \in Calls_ : ~sweeps /\ Loose(p) /\ process[p] # "run")
  /\ UNCHANGED <<target, proc, watched, process, pidFile, nodeVars, struck>> /\ Calm

Enrol(c) ==
  /\ Moves(c, "enrol", "launch")
  /\ entry' = "local" /\ keys' = keys \cup {c}
  /\ struck' = (\E p \in Calls_ : Loose(p) /\ p \notin keys)
  /\ UNCHANGED <<target, proc, watched, processVars, beating, left, overlap>> /\ Calm

Launch(c) ==
  /\ Moves(c, "launch", "set")
  /\ process' = [process EXCEPT ![c] = "boot"]
  /\ UNCHANGED <<target, proc, watched, termed, pidFile, nodeVars, observers>> /\ Calm

Track(c) ==
  /\ Moves(c, "set", "done")
  /\ proc' = c /\ watched' = watched \cup {c}
  /\ UNCHANGED <<target, processVars, nodeVars, observers>> /\ Calm

----------------------------------------------------------------------------
(* stop_agent                                                               *)

StopAgent(c) ==
  /\ IF Alive(proc)
     THEN /\ Enters(c, "wait")
          /\ target' = [target EXCEPT ![c] = proc]
          /\ termed' = termed \cup {proc}
          /\ UNCHANGED proc
     ELSE /\ Enters(c, "done")
          /\ proc' = Nobody
          /\ UNCHANGED <<target, termed>>
  /\ UNCHANGED <<watched, process, pidFile, nodeVars>> /\ Calm

\* In the end the process is killed.
AwaitEnd(c) ==
  /\ ~Alive(target[c])
  /\ Moves(c, "wait", "strike")
  /\ UNCHANGED <<target, proc, watched, processVars, nodeVars, observers>> /\ Calm

Strike(c) ==
  /\ Moves(c, "strike", "clear")
  /\ entry' = "none"
  /\ UNCHANGED <<target, proc, watched, processVars, keys, beating, observers>> /\ Calm

ClearProc(c) ==
  /\ Moves(c, "clear", "done")
  /\ proc' = Nobody
  /\ target' = [target EXCEPT ![c] = Nobody]
  /\ UNCHANGED <<watched, processVars, nodeVars, observers>> /\ Calm

\* _monitor
Notice(p) ==
  /\ p \in watched /\ ~Alive(p)
  /\ watched' = watched \ {p}
  /\ proc' = IF proc = p THEN Nobody ELSE proc
  /\ UNCHANGED <<localAt, target, processVars, nodeVars, observers>> /\ Calm

----------------------------------------------------------------------------
(* The process: the pid file, heartbeats, its end.                          *)

Becomes(p, from, to) == process[p] = from /\ process' = [process EXCEPT ![p] = to]
Dies(p) ==
  /\ process' = [process EXCEPT ![p] = "dead"]
  /\ termed' = termed \ {p} /\ keys' = keys \ {p} /\ left' = left \ {p}

\* (bug variant) The pid file is not looked at.
PidCheckSkipped(p) ==
  /\ p \notin termed
  /\ Becomes(p, "boot", "checked")
  /\ UNCHANGED <<callVars, termed, pidFile, nodeVars, observers>> /\ Calm

\* The handler of SIGTERM comes first.
PidCheck(p) ==
  /\ p \notin termed
  /\ process[p] = "boot"
  /\ \/ Alive(pidFile) /\ Dies(p)
     \/ /\ ~Alive(pidFile) /\ Becomes(p, "boot", "checked")
        /\ UNCHANGED <<termed, keys, left>>
  /\ UNCHANGED <<callVars, pidFile, entry, beating, struck, overlap>> /\ Calm

PidWrite(p) ==
  /\ p \notin termed
  /\ Becomes(p, "checked", "run")
  /\ pidFile' = p
  /\ UNCHANGED <<callVars, termed, nodeVars, observers>> /\ Calm

\* A heartbeat that has passed the authentication.
Beat_(p) ==
  /\ process[p] = "run" /\ p \in keys /\ ~beating
  /\ beating' = TRUE
  /\ UNCHANGED <<callVars, processVars, entry, keys, observers>> /\ Calm

\* A heartbeat of an unknown node makes it known again, as one that polls: unless a
\* local agent of the host is known.
BeatServed ==
  /\ beating /\ beating' = FALSE
  /\ entry' = IF entry = "none" THEN "pull" ELSE entry
  /\ UNCHANGED <<callVars, processVars, keys, observers>> /\ Calm

\* An agent whose token is refused registers, if the policy permits it, as any other: its
\* node is then one that polls, also if it was there as local.
Reregister(p) ==
  /\ process[p] = "run" /\ p \notin termed /\ p \notin keys
  /\ entry' = "pull" /\ keys' = keys \cup {p}
  /\ UNCHANGED <<callVars, processVars, beating, observers>> /\ Calm

Released(p) == IF pidFile = p THEN Nobody ELSE pidFile

ObeyTerm(p) ==
  /\ p \in termed /\ Alive(p) /\ Dies(p)
  /\ pidFile' = Released(p)
  /\ UNCHANGED <<callVars, entry, beating, struck, overlap>> /\ Calm

\* A crash leaves the pid file.
CrashAgent(p) ==
  /\ Alive(p) /\ LocalFault /\ Dies(p)
  /\ UNCHANGED <<callVars, pidFile, entry, beating, struck, overlap, sweeps>>

----------------------------------------------------------------------------
(* What else happens to the node and to nCore.                              *)

\* The operator deletes the node: its tokens go with it.
DeleteLocal ==
  /\ entry # "none" /\ LocalFault
  /\ entry' = "none" /\ keys' = {} /\ struck' = TRUE
  /\ UNCHANGED <<callVars, processVars, beating, left, overlap, sweeps>>

RevokeLocal ==
  /\ keys # {} /\ LocalFault
  /\ keys' = {} /\ struck' = TRUE
  /\ UNCHANGED <<callVars, processVars, entry, beating, left, overlap, sweeps>>

\* Agents live on, and so do the tokens that were saved; one is started at once.
RestartLocal(c) ==
  /\ LocalFault
  /\ localAt[c] = "idle" /\ \A b \in 1..(c - 1) : localAt[b] # "idle"
  /\ localAt' = [b \in Calls_ |-> IF b = c THEN "sweep"
                                  ELSE IF localAt[b] = "idle" THEN "idle" ELSE "done"]
  /\ target' = [b \in Calls_ |-> Nobody]
  /\ proc' = Nobody /\ watched' = {}
  /\ entry' = "none" /\ beating' = FALSE
  /\ \E saved \in SUBSET keys : keys' = saved
  /\ UNCHANGED <<processVars, observers, sweeps>>

CallStep(c) == \/ KillOrphans(c) \/ Enrol(c) \/ Launch(c) \/ Track(c)
               \/ AwaitEnd(c) \/ Strike(c) \/ ClearProc(c)
ProcessStep(p) == PidCheck(p) \/ PidWrite(p) \/ ObeyTerm(p)

LocalNext ==
  \/ \E c \in Calls_ : \/ StartAgent(c) \/ StopAgent(c) \/ CallStep(c) \/ RestartLocal(c)
                       \/ Notice(c) \/ ProcessStep(c) \/ Beat_(c) \/ Reregister(c)
                       \/ CrashAgent(c)
  \/ BeatServed \/ DeleteLocal \/ RevokeLocal

LocalFairness ==
  \A c \in Calls_ : /\ WF_localVars(CallStep(c)) /\ WF_localVars(Notice(c))
                    /\ WF_localVars(ProcessStep(c))

LocalSpec == LocalInit /\ [][LocalNext]_localVars /\ LocalFairness

----------------------------------------------------------------------------
(* Properties.                                                              *)

LocalTypeOK ==
  /\ localAt \in [Calls_ -> {"idle", "sweep", "enrol", "launch", "set", "wait", "strike",
                             "clear", "done"}]
  /\ target \in [Calls_ -> Processes]
  /\ process \in [Calls_ -> {"none", "boot", "checked", "run", "dead"}]
  /\ termed \subseteq Calls_ /\ watched \subseteq Calls_
  /\ proc \in Processes /\ pidFile \in Processes
  /\ entry \in {"none", "local", "pull"} /\ keys \subseteq Calls_ /\ beating \in BOOLEAN
  /\ sweeps \in BOOLEAN /\ left \subseteq Calls_ /\ struck \in BOOLEAN
  /\ overlap \in BOOLEAN /\ localFaults \in 0..MaxLocalFaults

\* As long as calls do not overlap, every agent that lives between two of them is the
\* one that nCore knows, or is about to end; only on a host without /proc may there be
\* one that an earlier nCore started.  The one nCore knows is listed as local, unless
\* since its start the node was deleted or the token of a living agent revoked or lost.
Tracked ==
  ~overlap /\ UnderWay = {} =>
    /\ \A p \in Calls_ : Loose(p) => p = proc \/ (~sweeps /\ p \in left)
    /\ Alive(proc) => entry = "local" \/ struck

\* As long as calls do not overlap, at most one agent is past the pid file, also while an
\* old one takes its time to end or cannot be ended.
OneAgent ==
  ~overlap => Cardinality({p \in Calls_ : process[p] = "run"}) <= 1

\* At most one agent works, and nCore lists the one it knows and knows every other that
\* is not about to end.
OneTrackedAgent == OneAgent /\ Tracked
=============================================================================
