-------------------------------- MODULE Dispatch --------------------------------
(***************************************************************************)
(* How a prompt travels (nCore/orchestrator.py, nCore/push.py,             *)
(* agent/link.py): a sender puts one command per endpoint in the queues of *)
(* the nodes and then posts the task; a pull agent finds its commands in   *)
(* the reply to its heartbeat, runs each in a thread and posts the result, *)
(* with retries; for a push agent nCore polls, sends the commands itself   *)
(* and files the answer or the error.                                      *)
(*                                                                         *)
(* Sender: broadcast_prompt, mission/showrunner.send_prompt_to_endpoint or *)
(* oapi._send_to_endpoint; the last two are the case of one target.        *)
(***************************************************************************)
EXTENDS Integers, Sequences, FiniteSets

CONSTANTS
  Tasks,       \* task ids, each drawn at random and used once
  Pull, Push,  \* nodes whose agent polls nCore, nodes that nCore polls
  Models,      \* models loaded on a node: one command goes to each
  None,        \* no task on the board
  Restart,     \* the command restart_agent
  Tries,       \* POST attempts of a result before the error report (3)
  MaxFaults    \* lost heartbeat replies, crashes and restarts (bound)

Nodes   == Pull \cup Push
Targets == Nodes \X Models
Cmds    == Tasks \X Targets
TaskOf(c) == c[1]
NodeOf(c) == c[2][1]

ASSUME NodesAssumption == Pull \cap Push = {}
ASSUME TriesAssumption == Tries \in Nat \ {0} /\ MaxFaults \in Nat
ASSUME RestartAssumption == Restart \notin Cmds
ASSUME TargetsAssumption == IsFiniteSet(Targets)

Entry == [status : {"pending", "running", "done"}, results : Seq(Targets)]

ASSUME NoneAssumption == None \notin Entry

VARIABLES
  goal,     \* targets of each task, chosen from the snapshot of the registry
  todo,     \* targets whose command is not enqueued yet
  stage,    \* "unborn", "sending", "posted"
  queue,    \* _commands
  board,    \* _tasks: status and list of results of each posted task
  late,     \* posted tasks older than 300 s
  wire,     \* the commands a pull agent has received and not started
  jobs,     \* threads that run a command or report its result
  started,  \* how often each command was started (observer)
  faults    \* faults so far (bounds the model)

senderVars == <<goal, todo, stage>>
agentVars  == <<wire, jobs, started>>
vars == <<senderVars, queue, board, late, agentVars, faults>>

Job(c, at, n) == [cmd |-> c, at |-> at, tries |-> n]

Init ==
  /\ goal = [t \in Tasks |-> {}]
  /\ todo = [t \in Tasks |-> {}]
  /\ stage = [t \in Tasks |-> "unborn"]
  /\ queue = [n \in Nodes |-> <<>>]
  /\ board = [t \in Tasks |-> None]
  /\ late = {}
  /\ wire = [n \in Pull |-> <<>>]
  /\ jobs = {}
  /\ started = [c \in Cmds |-> 0]
  /\ faults = 0

----------------------------------------------------------------------------
(* The sender.                                                              *)

Choose(t) ==
  /\ stage[t] = "unborn"
  /\ stage' = [stage EXCEPT ![t] = "sending"]
  /\ \E G \in SUBSET Targets :
       goal' = [goal EXCEPT ![t] = G] /\ todo' = [todo EXCEPT ![t] = G]
  /\ UNCHANGED <<queue, board, late, agentVars, faults>>

\* enqueue: under the lock, one command at a time.
Enqueue(t) ==
  \E g \in todo[t] :
    /\ stage[t] = "sending"
    /\ todo' = [todo EXCEPT ![t] = @ \ {g}]
    /\ queue' = [queue EXCEPT ![g[1]] = Append(@, <<t, g>>)]
    /\ UNCHANGED <<goal, stage, board, late, agentVars, faults>>

\* The task is on the board only now: a result that is already back was refused.
Post(t) ==
  /\ stage[t] = "sending" /\ todo[t] = {}
  /\ stage' = [stage EXCEPT ![t] = "posted"]
  /\ board' = [board EXCEPT ![t] =
                 [status |-> IF goal[t] = {} THEN "done" ELSE "pending",
                  results |-> <<>>]]
  /\ UNCHANGED <<goal, todo, queue, late, agentVars, faults>>

\* record_result: nothing happens for a task that is not on the board.
Recorded(c) ==
  LET t == TaskOf(c)
      r == Append(board[t].results, c[2])
  IN IF board[t] = None THEN board
     ELSE [board EXCEPT ![t] =
             [status |-> IF Len(r) >= Cardinality(goal[t]) THEN "done" ELSE "running",
              results |-> r]]

\* The request /star sends a restart; for a push node it goes past the queue.
SendRestart(n) ==
  /\ n \in Pull
  /\ faults < MaxFaults /\ faults' = faults + 1
  /\ queue' = [queue EXCEPT ![n] = Append(@, Restart)]
  /\ UNCHANGED <<senderVars, board, late, agentVars>>

----------------------------------------------------------------------------
(* A pull agent.                                                            *)

HeartbeatPeeks(n) ==
  /\ wire[n] = <<>>
  /\ queue[n] # <<>>
  /\ wire' = [wire EXCEPT ![n] = queue[n]]
  /\ UNCHANGED <<senderVars, queue, board, late, jobs, started, faults>>

\* The heartbeat handler drains the queue into its reply; the agent sends no
\* heartbeat before it has gone through the previous reply.
Heartbeat(n) ==
  /\ wire[n] = <<>>
  /\ queue[n] # <<>>
  /\ wire' = [wire EXCEPT ![n] = queue[n]]
  /\ queue' = [queue EXCEPT ![n] = <<>>]
  /\ UNCHANGED <<senderVars, board, late, jobs, started, faults>>

\* The reply does not reach the agent.
LoseReply(n) ==
  /\ faults < MaxFaults /\ faults' = faults + 1
  /\ wire[n] # <<>>
  /\ wire' = [wire EXCEPT ![n] = <<>>]
  /\ UNCHANGED <<senderVars, queue, board, late, jobs, started>>

JobsOf(n) == {j \in jobs : NodeOf(j.cmd) = n}

BeginFirst(n) ==
  LET c == Head(wire[n]) IN
  /\ wire[n] # <<>>
  /\ wire' = [wire EXCEPT ![n] = <<>>]
  /\ IF c = Restart
     THEN jobs' = jobs \ JobsOf(n) /\ UNCHANGED started
     ELSE /\ jobs' = jobs \cup {Job(c, "run", 0)}
          /\ started' = [started EXCEPT ![c] = @ + 1]
  /\ UNCHANGED <<senderVars, queue, board, late, faults>>

\* The agent starts the next command; restart_agent exits on the spot, whatever
\* else the reply holds.
Begin(n) ==
  LET c == Head(wire[n]) IN
  /\ wire[n] # <<>>
  /\ IF c = Restart
     THEN /\ wire' = [wire EXCEPT ![n] = <<>>]
          /\ jobs' = jobs \ JobsOf(n)
          /\ UNCHANGED started
     ELSE /\ wire' = [wire EXCEPT ![n] = Tail(@)]
          /\ jobs' = jobs \cup {Job(c, "run", 0)}
          /\ started' = [started EXCEPT ![c] = @ + 1]
  /\ UNCHANGED <<senderVars, queue, board, late, faults>>

Crash(n) ==
  /\ faults < MaxFaults /\ faults' = faults + 1
  /\ wire' = [wire EXCEPT ![n] = <<>>]
  /\ jobs' = jobs \ JobsOf(n)
  /\ UNCHANGED <<senderVars, queue, board, late, started>>

\* command_fn returned a result or raised; both are reported.
Answer(j) ==
  /\ j \in jobs /\ j.at = "run" /\ NodeOf(j.cmd) \in Pull
  /\ jobs' = (jobs \ {j}) \cup {Job(j.cmd, "report", 0)}
  /\ UNCHANGED <<senderVars, queue, board, late, wire, started, faults>>

RetriedOnceMore(j) ==
  (jobs \ {j}) \cup {Job(j.cmd, IF j.tries < Tries THEN "report" ELSE "apology", j.tries + 1)}

Retried(j) ==
  (jobs \ {j}) \cup {Job(j.cmd, IF j.tries + 1 < Tries THEN "report" ELSE "apology", j.tries + 1)}

\* One attempt to post the result: it is filed and the agent knows; the task is
\* unknown (404); it is lost on the way; it is filed but the reply is lost.
Report(j) ==
  LET known == board[TaskOf(j.cmd)] # None IN
  /\ j \in jobs /\ j.at = "report"
  /\ \/ known /\ board' = Recorded(j.cmd) /\ jobs' = jobs \ {j}
     \/ board' \in {board, Recorded(j.cmd)} /\ jobs' = Retried(j)
  /\ UNCHANGED <<senderVars, queue, late, wire, started, faults>>

\* After the last attempt an error is posted, once.
Apologize(j) ==
  /\ j \in jobs /\ j.at = "apology"
  /\ board' \in {board, Recorded(j.cmd)}
  /\ jobs' = jobs \ {j}
  /\ UNCHANGED <<senderVars, queue, late, wire, started, faults>>

----------------------------------------------------------------------------
(* A push agent: nCore's poller drains the queue and gives each command a   *)
(* thread of its own; the answer or, on any failure, an error is recorded.  *)

PromptsIn(s) == {s[i] : i \in DOMAIN s} \ {Restart}

Poll(n) ==
  /\ queue[n] # <<>>
  /\ queue' = [queue EXCEPT ![n] = <<>>]
  /\ jobs' = jobs \cup {Job(c, "send", 0) : c \in PromptsIn(queue[n])}
  /\ started' = [c \in Cmds |-> IF c \in PromptsIn(queue[n]) THEN started[c] + 1 ELSE started[c]]
  /\ UNCHANGED <<senderVars, board, late, wire, faults>>

SentTwice(j) ==
  /\ j \in jobs /\ j.at = "send"
  /\ board' = Recorded(j.cmd)
  /\ jobs' \in {jobs, jobs \ {j}}
  /\ UNCHANGED <<senderVars, queue, late, wire, started, faults>>

Sent(j) ==
  /\ j \in jobs /\ j.at = "send"
  /\ board' = Recorded(j.cmd)
  /\ jobs' = jobs \ {j}
  /\ UNCHANGED <<senderVars, queue, late, wire, started, faults>>

----------------------------------------------------------------------------
(* The reader.                                                              *)

DoneWhenLate(t) == board[t] # None /\ (board[t].status = "done" \/ t \in late)

\* What get_task answers.
ReportedDone(t) ==
  /\ board[t] # None
  /\ board[t].status = "done" \/ (t \in late /\ board[t].results # <<>>)

Age(t) ==
  /\ board[t] # None /\ t \notin late
  /\ late' = late \cup {t}
  /\ UNCHANGED <<senderVars, queue, board, agentVars, faults>>

\* get_task also writes what it answers.
GetTask(t) ==
  /\ ReportedDone(t) /\ board[t].status # "done"
  /\ board' = [board EXCEPT ![t].status = "done"]
  /\ UNCHANGED <<senderVars, queue, late, agentVars, faults>>

----------------------------------------------------------------------------

JobStep(c) ==
  \E j \in jobs : j.cmd = c /\ (Answer(j) \/ Report(j) \/ Apologize(j) \/ Sent(j))

Next ==
  \/ \E t \in Tasks : Choose(t) \/ Enqueue(t) \/ Post(t) \/ Age(t) \/ GetTask(t)
  \/ \E n \in Pull : Heartbeat(n) \/ LoseReply(n) \/ Begin(n) \/ Crash(n) \/ SendRestart(n)
  \/ \E n \in Push : Poll(n)
  \/ \E c \in Cmds : JobStep(c)

Spec == Init /\ [][Next]_vars

\* Agents poll and are polled, and a pull agent goes through each reply. The
\* threads that run commands may take any time.
Fairness ==
  /\ \A n \in Pull : WF_vars(Heartbeat(n)) /\ WF_vars(Begin(n))
  /\ \A n \in Push : WF_vars(Poll(n))

LiveSpec == Spec /\ Fairness

----------------------------------------------------------------------------
(* Properties.                                                              *)

JobType ==
  {j \in [cmd : Cmds, at : {"run", "report", "apology", "send"}, tries : 0..Tries] :
     j.at = "report" => j.tries < Tries}

TypeOK ==
  /\ goal \in [Tasks -> SUBSET Targets]
  /\ todo \in [Tasks -> SUBSET Targets]
  /\ stage \in [Tasks -> {"unborn", "sending", "posted"}]
  /\ queue \in [Nodes -> Seq(Cmds \cup {Restart})]
  /\ board \in [Tasks -> Entry \cup {None}]
  /\ late \subseteq Tasks
  /\ wire \in [Pull -> Seq(Cmds \cup {Restart})]
  /\ jobs \subseteq JobType
  /\ started \in [Cmds -> Nat]
  /\ faults \in Nat

\* No prompt is run twice, whatever is lost, retried or restarted: the queue is
\* drained into one reply only.
AtMostOnce == \A c \in Cmds : started[c] <= 1

\* A command files one result when nCore sends it itself, and at most one per
\* attempt and the error report when a pull agent retries: the results of a
\* task can pass its expected number only by these retries.
ResultsPerCommand ==
  \A t \in Tasks : board[t] # None =>
    \A g \in Targets :
      Cardinality({i \in 1..Len(board[t].results) : board[t].results[i] = g})
        <= IF g[1] \in Push THEN 1 ELSE Tries + 1

\* As long as nothing fails, every command of a task is started: a batch is
\* never cut short and a queue never left behind.
Delivered ==
  \A c \in Cmds :
    (stage[TaskOf(c)] = "posted" /\ c[2] \in goal[TaskOf(c)]) ~> (started[c] = 1 \/ faults > 0)

\* The board as its readers see it.
Posted == {t \in Tasks : board[t] # None}
Asked  == [t \in Tasks |-> IF t \in Posted THEN Cardinality(goal[t]) ELSE 0]
Got    == [t \in Tasks |-> IF t \in Posted THEN Len(board[t].results) ELSE 0]
Done   == {t \in Tasks : ReportedDone(t)}

Board == INSTANCE TaskBoard WITH
  Goals <- 0..Cardinality(Targets), posted <- Posted, goal <- Asked, got <- Got, done <- Done

\* What get_task tells of a task never turns back, although record_result sets
\* a task already reported done to "running" again: Dispatch implements TaskBoard.
BoardSpec == Board!Spec
=============================================================================
