--------------------------------- MODULE Autoload ---------------------------------
(***************************************************************************)
(* Loading models on the cluster (nCore/orchestrator.py): the plan that    *)
(* assigns models to devices, the run that empties a node and loads the    *)
(* plan, the queue of commands with its pending operations, and the poller *)
(* or heartbeat that delivers them and reports back (nCore/push.py).       *)
(*                                                                         *)
(* One node: others take no part in its plan, queue or steps. Here the     *)
(* agent executes a command in one step (see ModelServer for its steps).   *)
(* Sizes and memory are small numbers; the factors are those of the code.  *)
(***************************************************************************)
EXTENDS Naturals, Sequences, FiniteSets, SequencesExt

CONSTANTS
  PlanModels, SizeOf,  \* models and their file sizes
  Shapes,              \* device memories of a node, one sequence per hardware in use
  Driven,              \* how often an autoload is started, for each node for which one is
                       \* (bound; with no priorities and one model for each device)
  MaxSendFaults        \* commands and polls that fail (bound)

Kinds == {"linux", "unified", "plain"}

\* What a node reports of itself: how its devices are used, their memory, downloads.
Nodes == [kind : Kinds, shape : Shapes, has : SUBSET PlanModels]

ASSUME PlanAssumption ==
  /\ IsFiniteSet(PlanModels)
  /\ SizeOf \in [PlanModels -> Nat \ {0}] /\ IsInjective(SizeOf)
  /\ Shapes \subseteq Seq(Nat)
  /\ DOMAIN Driven \subseteq Nodes /\ \A n \in DOMAIN Driven : Driven[n] \in Nat
  /\ MaxSendFaults \in Nat

----------------------------------------------------------------------------
(* plan_autoload(clean_slate=True), the only form the program uses. Devices *)
(* that are the system memory are left out of it.                           *)

Cost(m) == (SizeOf[m] * 12) \div 10        \* _VRAM_OVERHEAD
Budget(memory) == (memory * 85) \div 100   \* _VRAM_SAFETY
Total(s) == LET sum[k \in 0..Len(s)] == IF k = 0 THEN 0 ELSE sum[k - 1] + s[k]
            IN  sum[Len(s)]

\* Priorities first, larger files first.
Before(a, b, first) == IF (a \in first) = (b \in first) THEN SizeOf[a] > SizeOf[b]
                       ELSE a \in first
Sorted(models, first) ==
  CHOOSE s \in [1..Cardinality(models) -> models] :
    ToSet(s) = models /\ \A i, j \in DOMAIN s : i < j => Before(s[i], s[j], first)

\* The next model m for a device or pool: it is put there if there is room for one more.
AddIfRoom(was, m, max) ==
  IF Len(was.put) >= max \/ Cost(m) > was.room THEN was
  ELSE [room |-> was.room - Cost(m), put |-> Append(was.put, m)]

\* (bug variant) What other devices have been given is not looked at.
PlaceAgain(models, memory, taken, max) ==
  LET acc[k \in 0..Len(models)] ==
        IF k = 0 THEN [room |-> Budget(memory), put |-> <<>>]
        ELSE AddIfRoom(acc[k - 1], models[k], max)
  IN  acc[Len(models)].put

\* One device or pool: in order, what fits and is not placed yet, at most max.
Place(models, memory, taken, max) ==
  LET acc[k \in 0..Len(models)] ==
        IF k = 0 THEN [room |-> Budget(memory), put |-> <<>>]
        ELSE IF models[k] \in taken THEN acc[k - 1]
        ELSE AddIfRoom(acc[k - 1], models[k], max)
  IN  acc[Len(models)].put

\* Devices that are not pinned form one pool; without downloads unified ones do too.
Pooled(kind, shape, has) == /\ Len(shape) > 1 \/ (has = {} /\ kind = "unified")
                            /\ kind = "plain" \/ (has = {} /\ kind = "unified")
Bins(kind, shape, has) == IF Pooled(kind, shape, has) THEN <<Total(shape)>> ELSE shape

\* How many models a bin takes: with nothing downloaded, one from the catalog; packed, any.
Most(kind, shape, has, packed) ==
  IF has = {} THEN 1
  ELSE IF packed THEN Cardinality(has)
  ELSE IF Pooled(kind, shape, has) THEN Len(shape) ELSE 1

Placed(bins) == UNION {ToSet(bins[i]) : i \in DOMAIN bins}

\* The models of each bin; no model twice on a node.
PlanOf(kind, shape, has, packed, first) ==
  LET models == IF has = {} THEN Sorted(PlanModels, {}) ELSE Sorted(has, first)
      bins == Bins(kind, shape, has)
      upTo[k \in 0..Len(bins)] ==
        IF k = 0 THEN <<>>
        ELSE Append(upTo[k - 1], Place(models, bins[k], Placed(upTo[k - 1]),
                                       Most(kind, shape, has, packed)))
  IN upTo[Len(bins)]

----------------------------------------------------------------------------
VARIABLES
  node, tight, first,  \* the node; _tight_pack; the models with priority
  pushed,          \* the node is polled; else it sends heartbeats
  plan,            \* what plan_autoload returns for it, per device or pool
  toDo,            \* what the thread of execute_autoload has still to do
  tracked, status, \* _autoload_state: model and state of each step; its status
  queue,           \* _commands of the node
  pending,         \* _pending_ops of the node
  late,            \* all pending operations are older than _PENDING_HARD_CAP
  poll,            \* the poll, or the request of the heartbeat, under way
  batches,         \* the commands each sender still has to send
  loadedOn,        \* models loaded by the agent
  runs, sendFaults

placeVars    == <<node, tight, first, pushed, plan>>
stepVars     == <<tracked, status>>
autoloadVars == <<placeVars, toDo, stepVars, queue, pending, late, poll, batches,
                  loadedOn, runs, sendFaults>>

NoPoll == [at |-> "idle", seen |-> {}, cmds |-> <<>>]
UnloadAllNode == [op |-> "unload_all", model |-> "all"]

AutoloadInit ==
  /\ node \in Nodes /\ tight \in BOOLEAN /\ first \in SUBSET PlanModels
  /\ pushed \in BOOLEAN
  /\ plan = PlanOf(node.kind, node.shape, node.has, tight, first)
  /\ toDo = <<>>
  /\ tracked = <<>> /\ status = "none"
  /\ queue = <<>> /\ pending = {} /\ late = FALSE
  /\ poll = NoPoll /\ batches = <<>>
  /\ loadedOn \in {{}, node.has}
  /\ runs = 0 /\ sendFaults = 0

SendFault == sendFaults < MaxSendFaults /\ sendFaults' = sendFaults + 1

----------------------------------------------------------------------------
(* execute_autoload: its thread enqueues each command in two steps.         *)

Enqueue(c) == <<[do |-> "append", cmd |-> c], [do |-> "pend", cmd |-> c]>>

\* Nobody looks whether an earlier run has ended; here its thread has enqueued all (bound).
BeginAutoload ==
  /\ toDo = <<>> /\ node \in DOMAIN Driven /\ runs < Driven[node] /\ ~tight /\ first = {}
  /\ runs' = runs + 1
  /\ toDo' = Enqueue(UnloadAllNode) \o <<[do |-> "plan", cmd |-> UnloadAllNode]>>
  /\ UNCHANGED <<placeVars, stepVars, queue, pending, late, poll, batches, loadedOn, sendFaults>>

MakePlan ==
  LET models == FlattenSeq(plan)
      op == IF node.has = {} THEN "download_and_load" ELSE "load"
  IN /\ tracked' = [i \in DOMAIN models |-> [model |-> models[i], op |-> op, state |-> "queued"]]
     /\ status' = IF models = <<>> THEN "done" ELSE "running"
     /\ toDo' = FlattenSeq([i \in DOMAIN models |-> Enqueue([op |-> op, model |-> models[i]])])

\* _add_pending_op: one operation for each action and model.
WithPending(c) == {p \in pending : p.cmd # c} \cup {[cmd |-> c, state |-> "queued"]}

RunAutoload ==
  /\ toDo # <<>>
  /\ LET step == Head(toDo) IN
     CASE step.do = "append" -> /\ queue' = Append(queue, step.cmd) /\ toDo' = Tail(toDo)
                                /\ UNCHANGED <<pending, late, stepVars>>
       [] step.do = "pend"   -> /\ pending' = WithPending(step.cmd) /\ late' = FALSE
                                /\ toDo' = Tail(toDo)
                                /\ UNCHANGED <<queue, stepVars>>
       [] step.do = "plan"   -> MakePlan /\ UNCHANGED <<queue, pending, late>>
  /\ UNCHANGED <<placeVars, poll, batches, loadedOn, runs, sendFaults>>

----------------------------------------------------------------------------
(* Steps and their status.                                                  *)

Settled(steps) == \A i \in DOMAIN steps : steps[i].state \in {"done", "failed"}

StatusOf(steps) == IF Settled(steps) THEN "done"
                   ELSE IF \E i \in DOMAIN steps : steps[i].state = "sending" THEN "running"
                   ELSE status

\* _autoload_update_step; a plan has no model twice.
UpdateStep(m, state) ==
  IF status = "none" THEN UNCHANGED stepVars
  ELSE /\ tracked' = [i \in DOMAIN tracked |->
                        IF tracked[i].model = m /\ tracked[i].op = "load"
                        THEN [tracked[i] EXCEPT !.state = state] ELSE tracked[i]]
       /\ status' = StatusOf(tracked')

\* autoload_check_heartbeat. The id of a download names a quantisation and is the id
\* of no endpoint.
CheckHeartbeat(seen) ==
  IF status # "running" THEN UNCHANGED stepVars
  ELSE /\ tracked' = [i \in DOMAIN tracked |->
                        IF /\ tracked[i].state \in {"queued", "sending"}
                           /\ tracked[i].op = "load" /\ tracked[i].model \in seen
                        THEN [tracked[i] EXCEPT !.state = "done"] ELSE tracked[i]]
       /\ status' = IF Settled(tracked') THEN "done" ELSE status

Confirmed(c, seen) == IF c.op = "unload_all" THEN seen = {} ELSE c.model \in seen
\* (bug variant) Pending operations never expire.
CheckPendingForever(seen) == pending' = {p \in pending : ~Confirmed(p.cmd, seen)}

\* check_pending_ops; there the ids are compared loosely, and a download is confirmed.
CheckPending(seen) ==
  pending' = IF late THEN {} ELSE {p \in pending : ~Confirmed(p.cmd, seen)}

----------------------------------------------------------------------------
(* A poll of a push agent, or the heartbeat of a pull agent.                *)

\* A pull agent reports again when it has executed what it was given.
PollAsk ==
  /\ poll = NoPoll
  /\ pushed \/ batches = <<>>
  /\ poll' = [NoPoll EXCEPT !.at = "seen", !.seen = loadedOn]
  /\ UNCHANGED <<placeVars, toDo, stepVars, queue, pending, late, batches, loadedOn, runs,
                 sendFaults>>

PollCheck ==
  /\ poll.at = "seen"
  /\ CheckHeartbeat(poll.seen)
  /\ CheckPending(poll.seen)
  /\ poll' = [NoPoll EXCEPT !.at = "drain"]
  /\ UNCHANGED <<placeVars, toDo, queue, late, batches, loadedOn, runs, sendFaults>>

\* The poller delivers commands all the same.
PollFails ==
  /\ poll.at = "seen" /\ SendFault
  /\ poll' = IF pushed THEN [NoPoll EXCEPT !.at = "drain"] ELSE NoPoll
  /\ UNCHANGED <<placeVars, toDo, stepVars, queue, pending, late, batches, loadedOn, runs>>

Drain ==
  /\ poll.at = "drain"
  /\ poll' = IF queue = <<>> THEN NoPoll ELSE [NoPoll EXCEPT !.at = "mark", !.cmds = queue]
  /\ queue' = <<>>
  /\ UNCHANGED <<placeVars, toDo, stepVars, pending, late, batches, loadedOn, runs, sendFaults>>

\* The commands that are one of these operations, in order.
Those(cmds, ops) ==
  LET upTo[k \in 0..Len(cmds)] ==
        IF k = 0 THEN <<>>
        ELSE IF cmds[k].op \in ops THEN Append(upTo[k - 1], cmds[k]) ELSE upTo[k - 1]
  IN  upTo[Len(cmds)]

\* Model operations share a sender; a download has its own.
MarkSent ==
  /\ poll.at = "mark"
  /\ pending' = {IF p.cmd \in ToSet(poll.cmds) THEN [p EXCEPT !.state = "sent"] ELSE p
                   : p \in pending}
  /\ LET ops == Those(poll.cmds, {"load", "unload_all"})
         rest == Those(poll.cmds, {"download_and_load"})
         one(cs) == [cmds |-> cs, sending |-> FALSE]
     IN batches' = batches \o (IF ops = <<>> THEN <<>> ELSE <<one(ops)>>)
                           \o [i \in DOMAIN rest |-> one(<<rest[i]>>)]
  /\ poll' = NoPoll
  /\ UNCHANGED <<placeVars, toDo, stepVars, queue, late, loadedOn, runs, sendFaults>>

\* _send_model_ops
MarkSending(i) ==
  /\ ~batches[i].sending
  /\ batches' = [batches EXCEPT ![i].sending = TRUE]
  /\ IF pushed /\ Head(batches[i].cmds).op = "load"
     THEN UpdateStep(Head(batches[i].cmds).model, "sending")
     ELSE UNCHANGED stepVars
  /\ UNCHANGED <<placeVars, toDo, queue, pending, late, poll, loadedOn, runs, sendFaults>>

\* (bug variant) A command that fails is not reported.
SendInSilence(i) ==
  /\ batches[i].sending
  /\ LET c == Head(batches[i].cmds) IN
     \/ /\ loadedOn' = IF c.op = "unload_all" THEN {} ELSE loadedOn \cup {c.model}
        /\ IF pushed /\ c.op = "load" THEN UpdateStep(c.model, "done") ELSE UNCHANGED stepVars
        /\ UNCHANGED sendFaults
     \/ SendFault /\ UNCHANGED <<stepVars, loadedOn>>
  /\ batches' = IF Len(batches[i].cmds) = 1 THEN RemoveAt(batches, i)
                ELSE [batches EXCEPT ![i] = [cmds |-> Tail(@.cmds), sending |-> FALSE]]
  /\ UNCHANGED <<placeVars, toDo, queue, pending, late, poll, runs>>

\* _send_cmd and its answer; a pull agent answers model operations to nobody.
Send(i) ==
  /\ batches[i].sending
  /\ LET c == Head(batches[i].cmds)
         report(state) == IF pushed /\ c.op = "load" THEN UpdateStep(c.model, state)
                          ELSE UNCHANGED stepVars
     IN \/ /\ loadedOn' = IF c.op = "unload_all" THEN {} ELSE loadedOn \cup {c.model}
           /\ report("done") /\ UNCHANGED sendFaults
        \/ SendFault /\ report("failed") /\ UNCHANGED loadedOn
  /\ batches' = IF Len(batches[i].cmds) = 1 THEN RemoveAt(batches, i)
                ELSE [batches EXCEPT ![i] = [cmds |-> Tail(@.cmds), sending |-> FALSE]]
  /\ UNCHANGED <<placeVars, toDo, queue, pending, late, poll, runs>>

FiveMinutesPass ==
  /\ ~late /\ pending # {}
  /\ late' = TRUE
  /\ UNCHANGED <<placeVars, toDo, stepVars, queue, pending, poll, batches, loadedOn, runs,
                 sendFaults>>

PollStep == PollAsk \/ PollCheck \/ Drain \/ MarkSent
SenderStep(i) == MarkSending(i) \/ Send(i)

AutoloadNext == \/ BeginAutoload \/ RunAutoload \/ PollStep \/ PollFails \/ FiveMinutesPass
                \/ \E i \in DOMAIN batches : SenderStep(i)

\* Threads run on; polls and heartbeats never cease; time passes.
AutoloadFairness ==
  /\ WF_autoloadVars(RunAutoload) /\ WF_autoloadVars(PollStep)
  /\ WF_autoloadVars(\E i \in DOMAIN batches : SenderStep(i))
  /\ WF_autoloadVars(FiveMinutesPass)

AutoloadSpec == AutoloadInit /\ [][AutoloadNext]_autoloadVars /\ AutoloadFairness

----------------------------------------------------------------------------
(* Properties.                                                              *)

Commands == [op : {"unload_all"}, model : {"all"}]
            \cup [op : {"load", "download_and_load"}, model : PlanModels]

AutoloadTypeOK ==
  /\ node \in Nodes /\ tight \in BOOLEAN /\ first \subseteq PlanModels
  /\ pushed \in BOOLEAN /\ late \in BOOLEAN
  /\ plan \in Seq(Seq(PlanModels))
  /\ toDo \in Seq([do : {"append", "pend", "plan"}, cmd : Commands])
  /\ tracked \in Seq([model : PlanModels, op : {"load", "download_and_load"},
                      state : {"queued", "sending", "done", "failed"}])
  /\ status \in {"none", "running", "done"}
  /\ queue \in Seq(Commands) /\ pending \subseteq [cmd : Commands, state : {"queued", "sent"}]
  /\ poll \in [at : {"idle", "seen", "drain", "mark"}, seen : SUBSET PlanModels,
               cmds : Seq(Commands)]
  /\ batches \in Seq([cmds : Seq(Commands) \ {<<>>}, sending : BOOLEAN])
  /\ loadedOn \subseteq PlanModels
  /\ runs \in 0..(IF node \in DOMAIN Driven THEN Driven[node] ELSE 0) /\ sendFaults \in 0..MaxSendFaults

TheBins == Bins(node.kind, node.shape, node.has)
Taken(i) == Total([j \in DOMAIN plan[i] |-> Cost(plan[i][j])])

\* What is placed on a device or pool fits in 85 % of its memory, and no model is
\* placed twice on a node.
PlanFits ==
  /\ DOMAIN plan = DOMAIN TheBins
  /\ \A i \in DOMAIN TheBins : Taken(i) <= Budget(TheBins[i])
  /\ \A i, j \in DOMAIN plan : \A k \in DOMAIN plan[i], l \in DOMAIN plan[j] :
       plan[i][k] = plan[j][l] => i = j /\ k = l

\* A packed plan leaves out no downloaded model that would still fit somewhere; any
\* other leaves no device empty for which there is one.
PlanFills ==
  \A m \in node.has \ Placed(plan), i \in DOMAIN TheBins :
    Cost(m) <= Budget(TheBins[i]) - Taken(i) => ~tight /\ plan[i] # <<>>

\* A plan neither overfills a device nor leaves room it could use.
PlanSound == PlanFits /\ PlanFills

\* An autoload of a polled node with downloads ends, whatever fails: every load is
\* sent and reported. It does not on a node that sends heartbeats, whose failed loads
\* nobody reports, nor when the catalog is used (see the findings).
AutoloadEnds == pushed /\ node.has # {} /\ status = "running" ~> status # "running"

\* What the interface shows as pending goes, though an operation may be noted after
\* its command was drained, and a failed load never shows up in a heartbeat.
PendingClears == pending # {} ~> pending = {}
=============================================================================
