------------------------------- MODULE Membership -------------------------------
(***************************************************************************)
(* Who belongs to the cluster: registration and heartbeats of pull agents  *)
(* (agent/link.py), the admission lists (nCore/access.py), the bearer      *)
(* tokens (nCore/auth.py), the registry and its reaper (nCore/registry.py) *)
(* and the requests of the administrator (nCore/server.py).                *)
(*                                                                         *)
(* Each request runs in a thread of its own and takes the locks of these   *)
(* modules one after the other, so a request is several steps. An agent    *)
(* that asks for a token has lost every earlier one: only the last token   *)
(* issued to a node can be presented, and the sets of tokens are sets of   *)
(* nodes. An agent is known by one name here, its id or its hostname.      *)
(***************************************************************************)
EXTENDS Naturals

CONSTANTS
  Nodes,
  Modes,      \* admission modes in use, of "open", "approve", "allow", "deny"
  None,       \* no snapshot
  MaxMoves,   \* requests of the administrator (bound)
  MaxFaults   \* replies not awaited, agents dying, restarts of nCore (bound)

ASSUME ModesAssumption == Modes \subseteq {"open", "approve", "allow", "deny"}
ASSUME BoundsAssumption == MaxMoves \in Nat /\ MaxFaults \in Nat

\* What a save writes of the state of this module.
Snapshot == [mode : Modes, allowed : SUBSET Nodes, denied : SUBSET Nodes,
             pending : SUBSET Nodes, valid : SUBSET Nodes]

ASSUME NoneAssumption == None \notin Snapshot

VARIABLES
  mode, allowed, denied, pending,  \* access.py
  valid,      \* auth.py: nodes whose last token is valid
  registry,   \* registered pull nodes
  quiet,      \* of these, not heard from for REMOVE_AFTER
  localHosts, \* nodes on a host whose local agent is registered
  agent,      \* what each agent does
  holds,      \* agents that have a token, in memory and in their config
  h,          \* the step of the request of each agent (one at a time: bound)
  granted,    \* the reply carries a token
  snap,       \* what the request is about to write
  deleting,   \* nodes removed whose tokens are not revoked yet
  due, adminSnap,  \* the save of the administrator or of the reaper
  disk,       \* state.json
  consented,  \* nodes that is_permitted ever let in (observer)
  moves, faults

accessVars == <<mode, allowed, denied, pending>>
agentVars  == <<agent, holds>>
reqVars    == <<h, granted, snap>>
adminVars  == <<deleting, due, adminSnap>>
boundVars  == <<moves, faults>>
vars == <<accessVars, valid, registry, quiet, localHosts, agentVars, reqVars,
          adminVars, disk, consented, boundVars>>

\* What _persist collects: the tokens, then the lists, here in one step.
Now == [mode |-> mode, allowed |-> allowed, denied |-> denied, pending |-> pending,
        valid |-> valid]

\* is_permitted: an allowed node is let in before the deny list is looked at.
Verdict(n) ==
  IF \/ mode = "open"
     \/ mode \in {"approve", "allow"} /\ n \in allowed
     \/ mode = "deny" /\ n \notin denied
  THEN "yes"
  ELSE IF mode = "approve" /\ n \notin denied THEN "pending" ELSE "no"

Init ==
  /\ mode \in Modes
  /\ allowed = {} /\ denied = {} /\ pending = {}
  /\ valid = {} /\ registry = {} /\ quiet = {} /\ localHosts = {}
  /\ agent = [n \in Nodes |-> "join"] /\ holds = {}
  /\ h = [n \in Nodes |-> "idle"]
  /\ granted = {}
  /\ snap = [n \in Nodes |-> None]
  /\ deleting = {} /\ due = FALSE /\ adminSnap = None
  /\ disk = Now
  /\ consented = {}
  /\ moves = 0 /\ faults = 0

----------------------------------------------------------------------------
(* The agent.                                                               *)

Waiting == {"joining", "beating"}
Again(n) == IF n \in holds THEN "beat" ELSE "join"

Ask(n) ==
  /\ agent[n] \in {"join", "beat"} /\ h[n] = "idle"
  /\ IF agent[n] = "join"
     THEN agent' = [agent EXCEPT ![n] = "joining"] /\ h' = [h EXCEPT ![n] = "check"]
     ELSE agent' = [agent EXCEPT ![n] = "beating"] /\ h' = [h EXCEPT ![n] = "auth"]
  /\ UNCHANGED <<accessVars, valid, registry, quiet, localHosts, holds, granted, snap,
                 adminVars, disk, consented, boundVars>>

\* A fault of the network or of the agent.
Fault == faults < MaxFaults /\ faults' = faults + 1

\* No reply in time, or an error: the agent tries again after a pause.
GiveUp(n) ==
  /\ agent[n] \in Waiting
  /\ Fault
  /\ agent' = [agent EXCEPT ![n] = Again(n)]
  /\ UNCHANGED <<accessVars, valid, registry, quiet, localHosts, holds, reqVars,
                 adminVars, disk, consented, moves>>

Die(n) ==
  /\ agent[n] # "off"
  /\ Fault
  /\ agent' = [agent EXCEPT ![n] = "off"]
  /\ UNCHANGED <<accessVars, valid, registry, quiet, localHosts, holds, reqVars,
                 adminVars, disk, consented, moves>>

\* The config file has kept the token.
Start(n) ==
  /\ agent[n] = "off"
  /\ agent' = [agent EXCEPT ![n] = Again(n)]
  /\ UNCHANGED <<accessVars, valid, registry, quiet, localHosts, holds, reqVars,
                 adminVars, disk, consented, boundVars>>

----------------------------------------------------------------------------
(* A registration request.                                                  *)

GoTo(n, step) == h' = [h EXCEPT ![n] = step]

\* The request ends; an agent that still waits goes on.
Reply(n, next) ==
  /\ GoTo(n, "idle")
  /\ agent' = IF agent[n] \in Waiting THEN [agent EXCEPT ![n] = next] ELSE agent

RegCheckTruthy(n) ==
  /\ h[n] = "check"
  /\ \/ Verdict(n) = "yes" /\ GoTo(n, "local") /\ consented' = consented \cup {n}
        /\ UNCHANGED agent
     \/ Verdict(n) = "pending" /\ GoTo(n, "local") /\ UNCHANGED <<agent, consented>>
     \/ Verdict(n) = "no" /\ Reply(n, "join") /\ UNCHANGED consented
  /\ UNCHANGED <<accessVars, valid, registry, quiet, localHosts, holds, granted, snap,
                 adminVars, disk, boundVars>>

RegCheck(n) ==
  /\ h[n] = "check"
  /\ \/ Verdict(n) = "yes" /\ GoTo(n, "local") /\ consented' = consented \cup {n}
        /\ UNCHANGED agent
     \/ Verdict(n) = "pending" /\ GoTo(n, "queue") /\ UNCHANGED <<agent, consented>>
     \/ Verdict(n) = "no" /\ Reply(n, "join") /\ UNCHANGED consented
  /\ UNCHANGED <<accessVars, valid, registry, quiet, localHosts, holds, granted, snap,
                 adminVars, disk, boundVars>>

RegQueueUncollected(n) ==
  /\ h[n] = "queue"
  /\ pending' = pending \cup {n}
  /\ GoTo(n, "write")
  /\ UNCHANGED <<mode, allowed, denied, valid, registry, quiet, localHosts, agentVars,
                 granted, snap, adminVars, disk, consented, boundVars>>

RegQueue(n) ==
  /\ h[n] = "queue"
  /\ pending' = pending \cup {n}
  /\ GoTo(n, "save")
  /\ UNCHANGED <<mode, allowed, denied, valid, registry, quiet, localHosts, agentVars,
                 granted, snap, adminVars, disk, consented, boundVars>>

\* A local agent registered for the same hostname: 409.
RegLocal(n) ==
  /\ h[n] = "local"
  /\ IF n \in localHosts
     THEN Reply(n, "join")
     ELSE GoTo(n, "issue") /\ UNCHANGED agent
  /\ UNCHANGED <<accessVars, valid, registry, quiet, localHosts, holds, granted, snap,
                 adminVars, disk, consented, boundVars>>

\* Snapshots and the disk know at most an earlier token, which nobody has.
Without(s, n) == IF s = None THEN None ELSE [s EXCEPT !.valid = @ \ {n}]

RegIssue(n) ==
  /\ h[n] = "issue"
  /\ valid' = valid \cup {n}
  /\ granted' = granted \cup {n}
  /\ snap' = [k \in Nodes |-> Without(snap[k], n)]
  /\ adminSnap' = Without(adminSnap, n)
  /\ disk' = Without(disk, n)
  /\ GoTo(n, "add")
  /\ UNCHANGED <<accessVars, registry, quiet, localHosts, agentVars, deleting, due,
                 consented, boundVars>>

RegAdd(n) ==
  /\ h[n] = "add"
  /\ registry' = registry \cup {n}
  /\ quiet' = quiet \ {n}
  /\ GoTo(n, "save")
  /\ UNCHANGED <<accessVars, valid, localHosts, agentVars, granted, snap, adminVars,
                 disk, consented, boundVars>>

RegSave(n) ==
  /\ h[n] = "save"
  /\ snap' = [snap EXCEPT ![n] = Now]
  /\ GoTo(n, "write")
  /\ UNCHANGED <<accessVars, valid, registry, quiet, localHosts, agentVars, granted,
                 adminVars, disk, consented, boundVars>>

\* The file is written, then the reply: a token, or "pending approval".
RegReply(n) ==
  /\ h[n] = "write"
  /\ disk' = snap[n]
  /\ snap' = [snap EXCEPT ![n] = None]
  /\ granted' = granted \ {n}
  /\ IF n \in granted /\ agent[n] = "joining"
     THEN holds' = holds \cup {n} /\ Reply(n, "beat")
     ELSE UNCHANGED holds /\ Reply(n, "join")
  /\ UNCHANGED <<accessVars, valid, registry, quiet, localHosts, adminVars, consented,
                 boundVars>>

----------------------------------------------------------------------------
(* A heartbeat.                                                             *)

\* 401: the agent drops its token and registers again.
HbAuth(n) ==
  /\ h[n] = "auth"
  /\ IF n \in valid
     THEN GoTo(n, "seen") /\ UNCHANGED agentVars
     ELSE /\ Reply(n, "join")
          /\ holds' = IF agent[n] = "beating" THEN holds \ {n} ELSE holds
  /\ UNCHANGED <<accessVars, valid, registry, quiet, localHosts, granted, snap,
                 adminVars, disk, consented, boundVars>>

HbSeen(n) ==
  /\ h[n] = "seen"
  /\ IF n \in registry
     THEN quiet' = quiet \ {n} /\ GoTo(n, "reply")
     ELSE GoTo(n, "readmit") /\ UNCHANGED quiet
  /\ UNCHANGED <<accessVars, valid, registry, localHosts, agentVars, granted, snap,
                 adminVars, disk, consented, boundVars>>

HbForgets(n) ==
  /\ h[n] = "readmit"
  /\ Reply(n, "beat")
  /\ UNCHANGED <<accessVars, valid, registry, quiet, localHosts, holds, granted, snap,
                 adminVars, disk, consented, boundVars>>

\* The token is valid but the node unknown: it is registered again.
HbReadmit(n) ==
  /\ h[n] = "readmit"
  /\ IF n \in localHosts
     THEN Reply(n, "beat") /\ UNCHANGED <<registry, quiet>>
     ELSE /\ registry' = registry \cup {n}
          /\ quiet' = quiet \ {n}
          /\ GoTo(n, "reply") /\ UNCHANGED agent
  /\ UNCHANGED <<accessVars, valid, localHosts, holds, granted, snap, adminVars, disk,
                 consented, boundVars>>

HbReply(n) ==
  /\ h[n] = "reply"
  /\ Reply(n, "beat")
  /\ UNCHANGED <<accessVars, valid, registry, quiet, localHosts, holds, granted, snap,
                 adminVars, disk, consented, boundVars>>

Request(n) ==
  \/ RegCheck(n) \/ RegQueue(n) \/ RegLocal(n) \/ RegIssue(n) \/ RegAdd(n)
  \/ RegSave(n) \/ RegReply(n)
  \/ HbAuth(n) \/ HbSeen(n) \/ HbReadmit(n) \/ HbReply(n)

----------------------------------------------------------------------------
(* The administrator. Every request ends in _persist.                       *)

Move == moves < MaxMoves /\ moves' = moves + 1 /\ due' = TRUE

SetLists(A, D, P) == allowed' = A /\ denied' = D /\ pending' = P

SetMode(m) ==
  /\ Move
  /\ mode' = m
  /\ UNCHANGED <<allowed, denied, pending>>

Allow(n)   == Move /\ SetLists(allowed \cup {n}, denied \ {n}, pending) /\ UNCHANGED mode
Deny(n)    == Move /\ SetLists(allowed \ {n}, denied \cup {n}, pending) /\ UNCHANGED mode
Remove(n)  == Move /\ SetLists(allowed \ {n}, denied \ {n}, pending) /\ UNCHANGED mode
Approve(n) == Move /\ SetLists(allowed \cup {n}, denied \ {n}, pending \ {n}) /\ UNCHANGED mode
Reject(n)  == Move /\ SetLists(allowed, denied \cup {n}, pending \ {n}) /\ UNCHANGED mode

SetAccess ==
  /\ \/ \E m \in Modes : SetMode(m)
     \/ \E n \in Nodes : Allow(n) \/ Deny(n) \/ Remove(n) \/ Approve(n) \/ Reject(n)
  /\ UNCHANGED <<valid, registry, quiet, localHosts, agentVars, reqVars, deleting,
                 adminSnap, disk, consented, faults>>

Revoke(n) ==
  /\ Move
  /\ valid' = valid \ {n}
  /\ UNCHANGED <<accessVars, registry, quiet, localHosts, agentVars, reqVars, deleting,
                 adminSnap, disk, consented, faults>>

\* The node is removed first, then its tokens.
Delete(n) ==
  /\ n \in registry
  /\ moves < MaxMoves /\ moves' = moves + 1
  /\ registry' = registry \ {n} /\ quiet' = quiet \ {n}
  /\ deleting' = deleting \cup {n}
  /\ UNCHANGED <<accessVars, valid, localHosts, agentVars, reqVars, due, adminSnap,
                 disk, consented, faults>>

DeleteRevoke(n) ==
  /\ n \in deleting
  /\ deleting' = deleting \ {n}
  /\ valid' = valid \ {n}
  /\ due' = TRUE
  /\ UNCHANGED <<accessVars, registry, quiet, localHosts, agentVars, reqVars,
                 adminSnap, disk, consented, boundVars>>

\* A local agent starts or stops on the host of a node.
LocalAgent(n) ==
  /\ Move
  /\ localHosts' = IF n \in localHosts THEN localHosts \ {n} ELSE localHosts \cup {n}
  /\ UNCHANGED <<accessVars, valid, registry, quiet, agentVars, reqVars, deleting,
                 adminSnap, disk, consented, faults>>

AdminSave ==
  /\ due /\ adminSnap = None
  /\ due' = FALSE
  /\ adminSnap' = Now
  /\ UNCHANGED <<accessVars, valid, registry, quiet, localHosts, agentVars, reqVars,
                 deleting, disk, consented, boundVars>>

AdminWrite ==
  /\ adminSnap # None
  /\ disk' = adminSnap
  /\ adminSnap' = None
  /\ UNCHANGED <<accessVars, valid, registry, quiet, localHosts, agentVars, reqVars,
                 deleting, due, consented, boundVars>>

----------------------------------------------------------------------------
(* Time, the reaper, and restarts of nCore.                                 *)

\* REMOVE_AFTER passes without a sign of the node; a long load is enough.
Silence(n) ==
  /\ n \in registry \ quiet
  /\ quiet' = quiet \cup {n}
  /\ UNCHANGED <<accessVars, valid, registry, localHosts, agentVars, reqVars, adminVars,
                 disk, consented, boundVars>>

ReapNothing ==
  /\ quiet # {}
  /\ due' = TRUE
  /\ UNCHANGED <<accessVars, valid, registry, quiet, localHosts, agentVars, reqVars,
                 deleting, adminSnap, disk, consented, boundVars>>

\* The tokens of a reaped node are kept.
Reap ==
  /\ quiet # {}
  /\ registry' = registry \ quiet
  /\ quiet' = {}
  /\ due' = TRUE
  /\ UNCHANGED <<accessVars, valid, localHosts, agentVars, reqVars, deleting, adminSnap,
                 disk, consented, boundVars>>

\* Pull nodes are not in state.json: they come back with their heartbeats.
Restart ==
  /\ Fault
  /\ mode' = disk.mode
  /\ SetLists(disk.allowed, disk.denied, disk.pending)
  /\ valid' = disk.valid
  /\ registry' = {} /\ quiet' = {} /\ localHosts' = {}
  /\ agent' = [n \in Nodes |-> IF agent[n] \in Waiting THEN Again(n) ELSE agent[n]]
  /\ h' = [n \in Nodes |-> "idle"]
  /\ granted' = {}
  /\ snap' = [n \in Nodes |-> None]
  /\ deleting' = {} /\ due' = FALSE /\ adminSnap' = None
  /\ UNCHANGED <<holds, disk, consented, moves>>

----------------------------------------------------------------------------

Next ==
  \/ \E n \in Nodes : Ask(n) \/ GiveUp(n) \/ Die(n) \/ Start(n) \/ Request(n)
  \/ SetAccess \/ AdminSave \/ AdminWrite
  \/ \E n \in Nodes : Revoke(n) \/ Delete(n) \/ DeleteRevoke(n) \/ LocalAgent(n) \/ Silence(n)
  \/ Reap \/ Restart

Spec == Init /\ [][Next]_vars

\* A request of this node can yet reach its entry: its agent runs and has a valid token,
\* or a request under way has passed its check, or would pass it now. A heartbeat without
\* a valid token and a registration that is refused, queued or turned away for a local
\* agent never do, however often the agent repeats them.
CanBeat(n) ==
  \/ n \in holds \cap valid /\ agent[n] # "off"
  \/ h[n] = "auth" /\ n \in valid
  \/ h[n] \in {"seen", "issue", "add"}
  \/ h[n] \in {"local", "readmit"} /\ n \notin localHosts
  \/ h[n] = "check" /\ Verdict(n) = "yes" /\ n \notin localHosts

\* Agents go on asking, requests go on, the reaper goes round. An entry
\* that no request reaches grows old: the time until it is quiet passes.
Fairness ==
  /\ \A n \in Nodes : WF_vars(Ask(n)) /\ WF_vars(Request(n)) /\ WF_vars(DeleteRevoke(n))
  /\ \A n \in Nodes : WF_vars(Silence(n) /\ ~CanBeat(n))
  /\ WF_vars(Reap)

LiveSpec == Spec /\ Fairness

----------------------------------------------------------------------------
(* Properties.                                                              *)

RegSteps == {"check", "queue", "local", "issue", "add", "save", "write"}
HbSteps  == {"auth", "seen", "readmit", "reply"}

TypeOK ==
  /\ mode \in Modes
  /\ allowed \subseteq Nodes /\ denied \subseteq Nodes /\ pending \subseteq Nodes
  /\ valid \subseteq Nodes /\ registry \subseteq Nodes /\ quiet \subseteq registry
  /\ localHosts \subseteq Nodes
  /\ agent \in [Nodes -> {"join", "joining", "beat", "beating", "off"}]
  /\ holds \subseteq Nodes
  /\ h \in [Nodes -> {"idle"} \cup RegSteps \cup HbSteps]
  /\ granted \subseteq Nodes
  /\ snap \in [Nodes -> Snapshot \cup {None}]
  /\ deleting \subseteq Nodes /\ due \in BOOLEAN
  /\ adminSnap \in Snapshot \cup {None}
  /\ disk \in Snapshot
  /\ consented \subseteq Nodes
  /\ moves \in Nat /\ faults \in Nat

\* Nobody is in the registry, and nobody's token is valid, whom the access
\* policy never let in: not after restarts, reaps, deletions that race a
\* heartbeat, or files written out of order.
ConsentedOnly == registry \cup valid \cup disk.valid \subseteq consented

\* An agent that is permitted and runs is in the registry again and again,
\* whatever was revoked, reaped, deleted or lost before.
Rejoins ==
  \A n \in Nodes :
    <>[](Verdict(n) = "yes" /\ n \notin localHosts /\ agent[n] # "off")
      => []<>(n \in registry)

\* A node none of whose requests reach its entry, as one whose heartbeat raced its own
\* deletion and put it back without a token, does not stay in the registry: not when its
\* agent is gone, and not when it goes on asking and is refused every time.
GhostGoes ==
  \A n \in Nodes : (n \in registry /\ ~CanBeat(n)) ~> (n \notin registry \/ CanBeat(n))

----------------------------------------------------------------------------
(* What the code or its comments say and the code does not do.              *)

\* "Explicitly rejected" (access.py:66): a node on the pending list that the
\* administrator rejects is out. A node allowed through the access lists stays
\* on that list, and so does one whose approval came between the check and the
\* entry of its registration: to reject it changes nothing.
RejectedOut ==
  [][\A n \in pending :
       mode = "approve" /\ SetAccess /\ Reject(n) => Verdict(n)' = "no"]_vars
=============================================================================
