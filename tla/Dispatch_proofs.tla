---------------------------- MODULE Dispatch_proofs ----------------------------
(***************************************************************************)
(* Proofs about Dispatch, for every number of tasks, nodes and models and  *)
(* every bound on attempts and faults: it implements the task board, no    *)
(* command is started twice, and without a fault none is forgotten.        *)
(***************************************************************************)
EXTENDS Dispatch, FiniteSetTheorems, SequenceTheorems, TLAPS

----------------------------------------------------------------------------
(* Types.                                                                   *)

\* A command names its task, its target and the node of the target.
LEMMA CmdType ==
  ASSUME NEW c \in Cmds
  PROVE  /\ TaskOf(c) \in Tasks /\ c[2] \in Targets /\ NodeOf(c) \in Nodes
         /\ c = <<TaskOf(c), c[2]>>
  BY DEF Cmds, TaskOf, NodeOf, Targets

\* The targets of a task can be counted.
LEMMA CountTargets ==
  ASSUME NEW G \in SUBSET Targets
  PROVE  Cardinality(G) \in 0..Cardinality(Targets)
  BY FS_Subset, FS_CardinalityType, TargetsAssumption

\* Filing the result of a command keeps the board well formed.
LEMMA RecordedType ==
  ASSUME TypeOK, NEW c \in Cmds
  PROVE  Recorded(c) \in [Tasks -> Entry \cup {None}]
<1> DEFINE t == TaskOf(c)
           r == Append(board[t].results, c[2])
           e == [status |-> IF Len(r) >= Cardinality(goal[t]) THEN "done" ELSE "running",
                 results |-> r]
<1>1. t \in Tasks /\ c[2] \in Targets
  BY CmdType
<1>2. CASE board[t] = None
  BY <1>2 DEF Recorded, TypeOK
<1>3. CASE board[t] # None
  <2>1. board[t].results \in Seq(Targets)
    BY <1>1, <1>3 DEF TypeOK, Entry
  <2>2. r \in Seq(Targets)
    BY <1>1, <2>1
  <2>3. e \in Entry
    BY <2>2 DEF Entry
  <2>4. Recorded(c) = [board EXCEPT ![t] = e]
    BY <1>3 DEF Recorded
  <2> QED
    BY <1>1, <2>3, <2>4 DEF TypeOK
<1> QED
  BY <1>2, <1>3

\* The types of what the sender writes.
LEMMA SenderTypes ==
  ASSUME TypeOK, NEW t \in Tasks, Choose(t) \/ Enqueue(t) \/ Post(t)
  PROVE  TypeOK'
<1> USE DEF TypeOK, senderVars, agentVars
<1>1. CASE Choose(t)
  <2> PICK G \in SUBSET Targets :
         goal' = [goal EXCEPT ![t] = G] /\ todo' = [todo EXCEPT ![t] = G]
    BY <1>1 DEF Choose
  <2> QED
    BY <1>1 DEF Choose
<1>2. CASE Enqueue(t)
  <2> PICK g \in todo[t] :
         /\ todo' = [todo EXCEPT ![t] = @ \ {g}]
         /\ queue' = [queue EXCEPT ![g[1]] = Append(@, <<t, g>>)]
         /\ UNCHANGED <<goal, stage, board, late, agentVars, faults>>
    BY <1>2 DEF Enqueue
  <2>1. g \in Targets /\ g[1] \in Nodes
    BY DEF Targets
  <2>2. <<t, g>> \in Cmds \cup {Restart}
    BY <2>1 DEF Cmds
  <2>3. Append(queue[g[1]], <<t, g>>) \in Seq(Cmds \cup {Restart})
    BY <2>1, <2>2
  <2>4. queue' \in [Nodes -> Seq(Cmds \cup {Restart})]
    BY <2>1, <2>3
  <2>5. todo' \in [Tasks -> SUBSET Targets]
    OBVIOUS
  <2> QED
    BY <2>4, <2>5
<1>3. CASE Post(t)
  <2>1. [status |-> IF goal[t] = {} THEN "done" ELSE "pending", results |-> <<>>] \in Entry
    BY DEF Entry
  <2> QED
    BY <1>3, <2>1 DEF Post
<1> QED
  BY <1>1, <1>2, <1>3

\* The types of what the reader and the clock write.
LEMMA ReaderTypes ==
  ASSUME TypeOK, NEW t \in Tasks, Age(t) \/ GetTask(t)
  PROVE  TypeOK'
<1> USE DEF TypeOK, senderVars, agentVars
<1>1. CASE Age(t)
  BY <1>1 DEF Age
<1>2. CASE GetTask(t)
  <2>1. board[t] \in Entry
    BY <1>2 DEF GetTask, ReportedDone
  <2>2. [board[t] EXCEPT !.status = "done"] \in Entry
    BY <2>1 DEF Entry
  <2> QED
    BY <1>2, <2>2 DEF GetTask
<1> QED
  BY <1>1, <1>2

\* The types of what a node does with its commands.
LEMMA NodeTypes ==
  ASSUME TypeOK, NEW n \in Nodes,
         \/ n \in Pull /\ (Heartbeat(n) \/ LoseReply(n) \/ Begin(n) \/ Crash(n) \/ SendRestart(n))
         \/ n \in Push /\ Poll(n)
  PROVE  TypeOK'
<1> USE DEF TypeOK, senderVars, agentVars
<1>0. /\ \A c \in Cmds, at \in {"run", "send"} : Job(c, at, 0) \in JobType
      /\ \A m \in Nodes : JobsOf(m) \subseteq jobs
  BY TriesAssumption DEF Job, JobType, JobsOf
<1>1. CASE n \in Pull /\ Heartbeat(n)
  BY <1>1 DEF Heartbeat
<1>2. CASE n \in Pull /\ LoseReply(n)
  BY <1>2 DEF LoseReply
<1>3. CASE n \in Pull /\ Begin(n)
  <2>1. /\ wire[n] \in Seq(Cmds \cup {Restart}) /\ wire[n] # <<>>
        /\ Head(wire[n]) \in Cmds \cup {Restart}
        /\ Tail(wire[n]) \in Seq(Cmds \cup {Restart})
    BY <1>3 DEF Begin
  <2>2. CASE Head(wire[n]) = Restart
    <3>1. /\ wire' = [wire EXCEPT ![n] = <<>>]
          /\ jobs' = jobs \ JobsOf(n)
          /\ UNCHANGED <<started, senderVars, queue, board, late, faults>>
      BY <1>3, <2>2 DEF Begin
    <3> QED
      BY <1>3, <3>1
  <2>3. CASE Head(wire[n]) # Restart
    <3>1. /\ wire' = [wire EXCEPT ![n] = Tail(wire[n])]
          /\ jobs' = jobs \cup {Job(Head(wire[n]), "run", 0)}
          /\ started' = [started EXCEPT ![Head(wire[n])] = @ + 1]
          /\ UNCHANGED <<senderVars, queue, board, late, faults>>
      BY <1>3, <2>3 DEF Begin
    <3>2. jobs' \subseteq JobType
      BY <3>1, <2>1, <2>3, <1>0
    <3>3. wire' \in [Pull -> Seq(Cmds \cup {Restart})] /\ started' \in [Cmds -> Nat]
      BY <3>1, <2>1, <2>3, <1>3
    <3> QED
      BY <3>1, <3>2, <3>3
  <2> QED
    BY <2>2, <2>3
<1>4. CASE n \in Pull /\ Crash(n)
  BY <1>4, <1>0 DEF Crash
<1>5. CASE n \in Pull /\ SendRestart(n)
  BY <1>5 DEF SendRestart
<1>6. CASE n \in Push /\ Poll(n)
  <2>1. queue[n] \in Seq(Cmds \cup {Restart})
    OBVIOUS
  <2>2. PromptsIn(queue[n]) \subseteq Cmds
    BY <2>1 DEF PromptsIn
  <2>3. jobs' \subseteq JobType
    BY <1>6, <2>2, <1>0 DEF Poll
  <2>4. started' \in [Cmds -> Nat]
    BY <1>6 DEF Poll
  <2>5. queue' \in [Nodes -> Seq(Cmds \cup {Restart})]
    BY <1>6 DEF Poll
  <2> QED
    BY <1>6, <2>3, <2>4, <2>5 DEF Poll
<1> QED
  BY <1>1, <1>2, <1>3, <1>4, <1>5, <1>6

\* The types of what a job does.
LEMMA JobTypes ==
  ASSUME TypeOK, NEW j \in jobs, Answer(j) \/ Report(j) \/ Apologize(j) \/ Sent(j)
  PROVE  TypeOK'
<1> USE DEF TypeOK, senderVars, agentVars
<1>1. j \in JobType /\ j.cmd \in Cmds
  BY DEF JobType
<1>2. board' \in {board, Recorded(j.cmd)} => board' \in [Tasks -> Entry \cup {None}]
  BY <1>1, RecordedType
<1>3. CASE Answer(j)
  BY <1>3, <1>1, TriesAssumption DEF Answer, Job, JobType
<1>4. CASE Report(j)
  <2>1. Job(j.cmd, IF j.tries + 1 < Tries THEN "report" ELSE "apology", j.tries + 1) \in JobType
    <3>1. j.tries \in Nat /\ j.tries < Tries
      BY <1>1, <1>4 DEF Report, JobType
    <3> QED
      BY <1>1, <3>1, TriesAssumption DEF Job, JobType
  <2>2. jobs' \subseteq JobType
    BY <1>4, <2>1 DEF Report, Retried
  <2> QED
    BY <1>4, <1>2, <2>2 DEF Report
<1>5. CASE Apologize(j) \/ Sent(j)
  BY <1>5, <1>2 DEF Apologize, Sent
<1> QED
  BY <1>3, <1>4, <1>5

\* Every variable keeps its type under every step.
LEMMA TypeStep == TypeOK /\ [Next]_vars => TypeOK'
<1> SUFFICES ASSUME TypeOK, [Next]_vars PROVE TypeOK'
  OBVIOUS
<1>1. ASSUME NEW t \in Tasks, Choose(t) \/ Enqueue(t) \/ Post(t) \/ Age(t) \/ GetTask(t)
      PROVE  TypeOK'
  BY <1>1, SenderTypes, ReaderTypes
<1>2. ASSUME NEW n \in Pull,
             Heartbeat(n) \/ LoseReply(n) \/ Begin(n) \/ Crash(n) \/ SendRestart(n)
      PROVE  TypeOK'
  BY <1>2, NodeTypes DEF Nodes
<1>3. ASSUME NEW n \in Push, Poll(n) PROVE TypeOK'
  BY <1>3, NodeTypes DEF Nodes
<1>4. ASSUME NEW c \in Cmds, JobStep(c) PROVE TypeOK'
  BY <1>4, JobTypes DEF JobStep
<1>5. CASE UNCHANGED vars
  BY <1>5 DEF TypeOK, vars, senderVars, agentVars
<1> QED
  BY <1>1, <1>2, <1>3, <1>4, <1>5 DEF Next

\* Whatever is lost, retried or late, every variable keeps its type: in
\* particular no result is posted more than Tries times.
THEOREM TypeCorrect == Spec => []TypeOK
<1>1. Init => TypeOK
  BY TriesAssumption DEF Init, TypeOK
<1> QED
  BY <1>1, TypeStep, PTL DEF Spec

----------------------------------------------------------------------------
(* Dispatch implements TaskBoard.                                           *)

\* A task is on the board once it is posted; its status says "done" exactly
\* when enough results are in, or when a late reader closed it with some.
BoardInv ==
  \A t \in Tasks :
    /\ board[t] # None <=> stage[t] = "posted"
    /\ board[t] # None =>
         /\ Len(board[t].results) >= Cardinality(goal[t]) => board[t].status = "done"
         /\ board[t].status = "done" =>
              \/ Len(board[t].results) >= Cardinality(goal[t])
              \/ t \in late /\ board[t].results # <<>>

\* A step that touches neither the board nor what it is judged by.
LEMMA OffBoard ==
  ASSUME TypeOK, BoardInv, UNCHANGED <<stage, goal, board, late>>
  PROVE  BoardInv' /\ UNCHANGED Board!vars
<1>1. UNCHANGED <<Posted, Asked, Got, Done>>
  BY DEF Posted, Asked, Got, Done, ReportedDone
<1> QED
  BY <1>1 DEF Board!vars, BoardInv

\* The sender's steps before the task is posted.
LEMMA Unposted ==
  ASSUME TypeOK, BoardInv, NEW t \in Tasks, Choose(t)
  PROVE  BoardInv' /\ UNCHANGED Board!vars
<1>1. /\ board[t] = None /\ stage[t] # "posted"
      /\ \A u \in Tasks \ {t} : goal'[u] = goal[u] /\ stage'[u] = stage[u]
      /\ stage'[t] = "sending" /\ UNCHANGED <<board, late>>
  BY DEF Choose, BoardInv, TypeOK
<1>2. UNCHANGED <<Posted, Got, Done>>
  BY <1>1 DEF Posted, Got, Done, ReportedDone
<1>3. Asked' = Asked
  BY <1>1, <1>2 DEF Asked, Posted
<1>4. BoardInv'
  BY <1>1 DEF BoardInv
<1> QED
  BY <1>1, <1>2, <1>3, <1>4 DEF Board!vars

\* Posting a task.
LEMMA Posting ==
  ASSUME TypeOK, BoardInv, NEW t \in Tasks, Post(t)
  PROVE  BoardInv' /\ Board!Post(t, Cardinality(goal[t]))
<1> DEFINE e == [status |-> IF goal[t] = {} THEN "done" ELSE "pending", results |-> <<>>]
<1>1. /\ board[t] = None /\ board' = [board EXCEPT ![t] = e] /\ board'[t] = e
      /\ e # None
      /\ stage' = [stage EXCEPT ![t] = "posted"]
      /\ UNCHANGED <<goal, late>>
  <2>1. e \in Entry
    BY DEF Entry
  <2> QED
    BY <2>1, NoneAssumption DEF Post, BoardInv, TypeOK
<1>2. Cardinality(goal[t]) \in Nat /\ (Cardinality(goal[t]) = 0 <=> goal[t] = {})
  BY FS_EmptySet, FS_Subset, FS_CardinalityType, TargetsAssumption DEF TypeOK
<1>3. t \notin Posted /\ Posted' = Posted \cup {t}
  BY <1>1 DEF Posted, TypeOK
<1>4. Asked' = [Asked EXCEPT ![t] = Cardinality(goal[t])]
  BY <1>1, <1>3 DEF Asked
<1>5. Got' = Got
  BY <1>1, <1>3 DEF Got, TypeOK
<1>6. Done' = IF Cardinality(goal[t]) = 0 THEN Done \cup {t} ELSE Done
  BY <1>1, <1>2 DEF Done, ReportedDone, TypeOK
<1>7. BoardInv'
  BY <1>1, <1>2 DEF BoardInv, TypeOK
<1> QED
  BY <1>1, <1>3, <1>4, <1>5, <1>6, <1>7 DEF Board!Post

\* Filing a result of a posted task.
LEMMA Filing ==
  ASSUME TypeOK, BoardInv, NEW c \in Cmds, board[TaskOf(c)] # None,
         board' = Recorded(c), UNCHANGED <<stage, goal, late>>
  PROVE  BoardInv' /\ Board!Answer(TaskOf(c))
<1> DEFINE t == TaskOf(c)
           r == Append(board[t].results, c[2])
           e == [status |-> IF Len(r) >= Cardinality(goal[t]) THEN "done" ELSE "running",
                 results |-> r]
<1>1. /\ t \in Tasks /\ c[2] \in Targets
      /\ board[t] \in Entry /\ board[t].results \in Seq(Targets)
  BY CmdType DEF TypeOK, Entry
<1>2. Cardinality(goal[t]) \in Nat
  BY <1>1, CountTargets, FS_CardinalityType, TargetsAssumption DEF TypeOK
<1>3. r \in Seq(Targets) /\ Len(r) = Len(board[t].results) + 1 /\ r # <<>>
  BY <1>1, AppendProperties
<1>4. /\ board' = [board EXCEPT ![t] = e] /\ board'[t] = e
      /\ e # None
      /\ \A u \in Tasks \ {t} : board'[u] = board[u]
  <2>1. board' = [board EXCEPT ![t] = e]
    BY DEF Recorded
  <2>2. e \in Entry
    BY <1>3 DEF Entry
  <2> QED
    BY <2>1, <2>2, <1>1, NoneAssumption DEF TypeOK
<1>5. t \in Posted /\ UNCHANGED <<Posted, Asked>>
  BY <1>1, <1>4 DEF Posted, Asked
<1>6. Got' = [Got EXCEPT ![t] = @ + 1]
  <2>1. Got'[t] = Got[t] + 1 /\ \A u \in Tasks \ {t} : Got'[u] = Got[u]
    BY <1>1, <1>3, <1>4, <1>5 DEF Got
  <2> QED
    BY <2>1, <1>1 DEF Got
<1>7. Got'[t] = Len(r) /\ Asked[t] = Cardinality(goal[t])
  BY <1>1, <1>3, <1>4, <1>5 DEF Got, Asked
<1>8. ReportedDone(t)' <=> Len(r) >= Cardinality(goal[t]) \/ t \in late
  BY <1>3, <1>4 DEF ReportedDone
<1>9. ReportedDone(t) => ReportedDone(t)'
  <2>1. Len(board[t].results) \in Nat
    BY <1>1
  <2> QED
    BY <1>1, <1>2, <1>3, <1>8, <2>1 DEF ReportedDone, BoardInv
<1>10. Done' = Board!Close(t)
  <2>1. \A u \in Tasks \ {t} : ReportedDone(u)' = ReportedDone(u)
    BY <1>4 DEF ReportedDone
  <2>2. Len(r) > 0
    BY <1>3, <1>1
  <2> QED
    BY <2>1, <2>2, <1>1, <1>7, <1>8, <1>9 DEF Done, Board!Close
<1>11. BoardInv'
  BY <1>1, <1>2, <1>3, <1>4 DEF BoardInv
<1> QED
  BY <1>5, <1>6, <1>10, <1>11 DEF Board!Answer

\* An attempt to file a result, of a posted task or not.
LEMMA Attempt ==
  ASSUME TypeOK, BoardInv, NEW c \in Cmds, board' \in {board, Recorded(c)},
         UNCHANGED <<stage, goal, late>>
  PROVE  BoardInv' /\ (Board!Answer(TaskOf(c)) \/ UNCHANGED Board!vars)
<1>1. CASE board' = board
  BY <1>1, OffBoard
<1>2. CASE board[TaskOf(c)] = None
  BY <1>2, OffBoard DEF Recorded
<1>3. CASE board[TaskOf(c)] # None /\ board' = Recorded(c)
  BY <1>3, Filing
<1> QED
  BY <1>1, <1>2, <1>3

\* A task grows old, and its partial results count.
LEMMA Aging ==
  ASSUME TypeOK, BoardInv, NEW t \in Tasks, Age(t)
  PROVE  BoardInv' /\ Board!Late(t)
<1>1. /\ board[t] \in Entry /\ t \notin late /\ late' = late \cup {t}
      /\ UNCHANGED <<stage, goal, board>>
  BY DEF Age, TypeOK, senderVars
<1>2. /\ Cardinality(goal[t]) \in Nat
      /\ board[t].results \in Seq(Targets) /\ Len(board[t].results) \in Nat
      /\ Len(board[t].results) > 0 <=> board[t].results # <<>>
  <2>1. board[t].results \in Seq(Targets)
    BY <1>1 DEF Entry
  <2>2. Len(board[t].results) = 0 => board[t].results = <<>>
    BY <2>1, EmptySeq, SeqEqual
  <2> QED
    BY <2>1, <2>2, FS_Subset, FS_CardinalityType, TargetsAssumption DEF TypeOK
<1>3. t \in Posted /\ UNCHANGED <<Posted, Asked, Got>>
  BY <1>1 DEF Posted, Asked, Got, Age
<1>4. Got'[t] = Len(board[t].results) /\ Asked[t] = Cardinality(goal[t])
  BY <1>1, <1>3 DEF Got, Asked
<1>5. ReportedDone(t)' <=> board[t].status = "done" \/ board[t].results # <<>>
  BY <1>1 DEF ReportedDone, Age
<1>6. \A u \in Tasks \ {t} : ReportedDone(u)' = ReportedDone(u)
  BY <1>1 DEF ReportedDone
<1>7. BoardInv'
  BY <1>1 DEF BoardInv
<1>8. Done' = Board!Close(t)
  <2>1. CASE Got'[t] >= Asked[t] \/ (t \in late' /\ Got'[t] > 0)
    <3>1. ReportedDone(t)'
      BY <2>1, <1>2, <1>4, <1>5, <1>1, NoneAssumption DEF BoardInv
    <3> QED
      BY <2>1, <3>1, <1>6 DEF Done, Board!Close
  <2>2. CASE ~(Got'[t] >= Asked[t] \/ (t \in late' /\ Got'[t] > 0))
    <3>1. board[t].status # "done" /\ board[t].results = <<>>
      BY <2>2, <1>1, <1>2, <1>4 DEF BoardInv, Age
    <3>2. ~ReportedDone(t)' /\ ~ReportedDone(t)
      BY <3>1, <1>5 DEF ReportedDone
    <3> QED
      BY <2>2, <3>2, <1>6 DEF Done, Board!Close
  <2> QED
    BY <2>1, <2>2
<1> QED
  BY <1>1, <1>3, <1>7, <1>8 DEF Board!Late

\* get_task writes down what it answers; readers see no change.
LEMMA Reading ==
  ASSUME TypeOK, BoardInv, NEW t \in Tasks, GetTask(t)
  PROVE  BoardInv' /\ UNCHANGED Board!vars
<1> DEFINE e == [status |-> "done", results |-> board[t].results]
<1>1. /\ board[t] \in Entry /\ t \in late /\ board[t].results # <<>>
      /\ board'[t] = [board[t] EXCEPT !.status = "done"]
      /\ \A u \in Tasks \ {t} : board'[u] = board[u]
      /\ UNCHANGED <<stage, goal, late>>
  BY DEF GetTask, ReportedDone, TypeOK, senderVars
<1>2. /\ board'[t] # None /\ board'[t].results = board[t].results
      /\ board'[t].status = "done" /\ board[t] # None
  <2>1. board'[t] = e
    BY <1>1 DEF Entry
  <2>2. e \in Entry /\ e.results = board[t].results /\ e.status = "done"
    BY <1>1 DEF Entry
  <2> QED
    BY <1>1, <2>1, <2>2, NoneAssumption
<1>3. UNCHANGED <<Posted, Asked, Got>>
  <2>1. \A u \in Tasks : board'[u] = None <=> board[u] = None
    BY <1>1, <1>2
  <2>2. Posted' = Posted
    BY <2>1 DEF Posted
  <2> QED
    BY <2>2, <1>1, <1>2 DEF Asked, Got
<1>4. Done' = Done
  BY <1>1, <1>2 DEF Done, ReportedDone
<1>5. BoardInv'
  <2>1. /\ goal'[t] = goal[t] /\ stage'[t] = stage[t] /\ late' = late
        /\ \A u \in Tasks \ {t} : goal'[u] = goal[u] /\ stage'[u] = stage[u]
    BY <1>1
  <2>2. /\ t \in late /\ board[t].results # <<>>
        /\ \A u \in Tasks \ {t} : board'[u] = board[u]
    BY <1>1
  <2> QED
    BY <1>2, <2>1, <2>2 DEF BoardInv
<1> QED
  BY <1>1, <1>3, <1>4, <1>5 DEF Board!vars

\* Every step of Dispatch is a step of TaskBoard or one its readers cannot see.
LEMMA RefineStep ==
  TypeOK /\ BoardInv /\ [Next]_vars => BoardInv' /\ [Board!Next]_(Board!vars)
<1> SUFFICES ASSUME TypeOK, BoardInv, [Next]_vars
             PROVE  BoardInv' /\ [Board!Next]_(Board!vars)
  OBVIOUS
<1> USE DEF senderVars, agentVars
<1>1. ASSUME NEW t \in Tasks, Choose(t) PROVE BoardInv' /\ UNCHANGED Board!vars
  BY <1>1, Unposted
<1>2. ASSUME NEW t \in Tasks, Enqueue(t) PROVE BoardInv' /\ UNCHANGED Board!vars
  BY <1>2, OffBoard DEF Enqueue
<1>3. ASSUME NEW t \in Tasks, Post(t) PROVE BoardInv' /\ Board!Next
  <2>1. Cardinality(goal[t]) \in 0..Cardinality(Targets)
    BY CountTargets DEF TypeOK
  <2> QED
    BY <1>3, <2>1, Posting DEF Board!Next
<1>4. ASSUME NEW t \in Tasks, Age(t) PROVE BoardInv' /\ Board!Next
  BY <1>4, Aging DEF Board!Next
<1>5. ASSUME NEW t \in Tasks, GetTask(t) PROVE BoardInv' /\ UNCHANGED Board!vars
  BY <1>5, Reading
<1>6. ASSUME NEW n \in Pull,
             Heartbeat(n) \/ LoseReply(n) \/ Begin(n) \/ Crash(n) \/ SendRestart(n)
      PROVE  BoardInv' /\ UNCHANGED Board!vars
  BY <1>6, OffBoard DEF Heartbeat, LoseReply, Begin, Crash, SendRestart
<1>7. ASSUME NEW n \in Push, Poll(n) PROVE BoardInv' /\ UNCHANGED Board!vars
  BY <1>7, OffBoard DEF Poll
<1>8. ASSUME NEW j \in jobs, Answer(j) PROVE BoardInv' /\ UNCHANGED Board!vars
  BY <1>8, OffBoard DEF Answer
<1>9. ASSUME NEW j \in jobs, Report(j) \/ Apologize(j) \/ Sent(j)
      PROVE  BoardInv' /\ [Board!Next]_(Board!vars)
  <2>1. j.cmd \in Cmds /\ TaskOf(j.cmd) \in Tasks
    BY CmdType DEF TypeOK, JobType
  <2>2. board' \in {board, Recorded(j.cmd)} /\ UNCHANGED <<stage, goal, late>>
    BY <1>9 DEF Report, Apologize, Sent
  <2> QED
    BY <2>1, <2>2, Attempt DEF Board!Next
<1>10. CASE UNCHANGED vars
  BY <1>10, OffBoard DEF vars
<1> QED
  BY <1>1, <1>2, <1>3, <1>4, <1>5, <1>6, <1>7, <1>8, <1>9, <1>10 DEF Next, JobStep

\* Dispatch implements TaskBoard: whoever waits for a task sees its answers
\* accumulate and, once told that it is done, never anything else, although
\* record_result sets a late task back to "running".
THEOREM Implements == Spec => BoardSpec
<1>1. Init => BoardInv
  BY DEF Init, BoardInv
<1>2. Init => Board!Init
  <2> SUFFICES ASSUME Init PROVE Board!Init
    OBVIOUS
  <2>1. Posted = {} /\ Done = {} /\ late = {}
    BY DEF Init, Posted, Done, ReportedDone
  <2>2. Asked = [t \in Tasks |-> 0] /\ Got = [t \in Tasks |-> 0]
    BY <2>1 DEF Asked, Got
  <2> QED
    BY <2>1, <2>2 DEF Board!Init
<1> QED
  BY <1>1, <1>2, RefineStep, TypeCorrect, PTL DEF Spec, BoardSpec, Board!Spec

----------------------------------------------------------------------------
(* No prompt runs twice.                                                    *)

Items == Cmds \cup {Restart}

\* A sequence holds a command; it holds no command twice.
At(s, c) == \E i \in 1..Len(s) : s[i] = c
NoRepeat(s) == \A i, j \in 1..Len(s) : s[i] = s[j] /\ s[i] # Restart => i = j

\* A command that its sender has not put in a queue yet.
Ahead(c) == stage[TaskOf(c)] = "unborn" \/ c[2] \in todo[TaskOf(c)]

\* A command is in one place at most on its way from the sender to its start:
\* with the sender, in the queue of its node, or in the reply to a heartbeat.
OneQueue ==
  \A n \in Nodes :
    /\ NoRepeat(queue[n])
    /\ \A c \in Cmds : At(queue[n], c) => NodeOf(c) = n /\ ~Ahead(c) /\ started[c] = 0
OneWire ==
  \A n \in Pull :
    /\ NoRepeat(wire[n])
    /\ \A c \in Cmds : At(wire[n], c) =>
         NodeOf(c) = n /\ ~Ahead(c) /\ ~At(queue[n], c) /\ started[c] = 0
StartedOnce ==
  \A c \in Cmds : started[c] <= 1 /\ (Ahead(c) => started[c] = 0)
OnePlace == OneQueue /\ OneWire /\ StartedOnce

\* What a queue holds after one more command.
LEMMA AppendAt ==
  ASSUME NEW s \in Seq(Items), NEW e \in Items
  PROVE  /\ \A c : At(Append(s, e), c) <=> At(s, c) \/ c = e
         /\ NoRepeat(s) /\ (e = Restart \/ ~At(s, e)) => NoRepeat(Append(s, e))
<1> DEFINE a == Append(s, e)
<1>1. /\ Len(s) \in Nat /\ Len(a) = Len(s) + 1
      /\ \A i \in 1..Len(s) : a[i] = s[i]
      /\ a[Len(s) + 1] = e
  BY AppendProperties
<1> HIDE DEF a
<1>2. \A c : At(a, c) <=> At(s, c) \/ c = e
  BY <1>1 DEF At
<1>3. NoRepeat(s) /\ (e = Restart \/ ~At(s, e)) => NoRepeat(a)
  BY <1>1 DEF At, NoRepeat
<1> QED
  BY <1>2, <1>3 DEF a

\* What is left of a reply after its first command.
LEMMA TailAt ==
  ASSUME NEW s \in Seq(Items), s # <<>>
  PROVE  /\ At(s, Head(s))
         /\ \A c : At(Tail(s), c) => At(s, c)
         /\ \A c : At(s, c) => c = Head(s) \/ At(Tail(s), c)
         /\ NoRepeat(s) => /\ NoRepeat(Tail(s))
                           /\ Head(s) # Restart => ~At(Tail(s), Head(s))
<1> DEFINE h == Head(s)
           u == Tail(s)
<1>1. /\ Len(s) \in Nat /\ Len(s) >= 1 /\ h = s[1]
      /\ Len(u) = Len(s) - 1
      /\ \A i \in 1..Len(u) : u[i] = s[i + 1]
  BY HeadTailProperties, EmptySeq, LenProperties
<1> HIDE DEF h, u
<1>2. At(s, h) /\ \A c : At(u, c) => At(s, c)
  BY <1>1 DEF At
<1>3. NoRepeat(s) => NoRepeat(u) /\ (h # Restart => ~At(u, h))
  BY <1>1 DEF At, NoRepeat
<1>4. ASSUME NEW c, At(s, c), c # h PROVE At(u, c)
  <2> PICK i \in 1..Len(s) : s[i] = c
    BY <1>4 DEF At
  <2>1. i - 1 \in 1..Len(u) /\ u[i - 1] = c
    BY <1>1, <1>4
  <2> QED
    BY <2>1 DEF At
<1> QED
  BY <1>2, <1>3, <1>4 DEF h, u

\* Nothing is in an empty sequence.
LEMMA NothingAt == NoRepeat(<<>>) /\ \A c : ~At(<<>>, c)
  BY DEF NoRepeat, At

\* The sender keeps a command in one place.
LEMMA SenderOnce ==
  ASSUME TypeOK, OnePlace, NEW t \in Tasks, Choose(t) \/ Enqueue(t) \/ Post(t)
  PROVE  OnePlace'
<1> USE DEF senderVars, agentVars
<1>1. CASE Choose(t) \/ Post(t)
  <2>1. \A c \in Cmds : Ahead(c)' => Ahead(c)
    <3> SUFFICES ASSUME NEW c \in Cmds, Ahead(c)' PROVE Ahead(c)
      OBVIOUS
    <3>1. TaskOf(c) \in Tasks
      BY CmdType
    <3> QED
      BY <1>1, <3>1 DEF Choose, Post, Ahead, TypeOK
  <2>2. UNCHANGED <<queue, wire, started>>
    BY <1>1 DEF Choose, Post
  <2> QED
    BY <2>1, <2>2 DEF OnePlace, OneQueue, OneWire, StartedOnce
<1>2. CASE Enqueue(t)
  <2> PICK g \in todo[t] :
         /\ stage[t] = "sending"
         /\ todo' = [todo EXCEPT ![t] = @ \ {g}]
         /\ queue' = [queue EXCEPT ![g[1]] = Append(@, <<t, g>>)]
         /\ UNCHANGED <<goal, stage, board, late, agentVars, faults>>
    BY <1>2 DEF Enqueue
  <2> DEFINE e == <<t, g>>
             m == g[1]
  <2>1. /\ g \in Targets /\ m \in Nodes /\ e \in Cmds
        /\ TaskOf(e) = t /\ e[2] = g /\ NodeOf(e) = m
    BY DEF TypeOK, Targets, Cmds, TaskOf, NodeOf
  <2>2. Ahead(e) /\ ~Ahead(e)'
    BY <2>1 DEF Ahead, TypeOK
  <2>3. \A c \in Cmds : Ahead(c)' => Ahead(c)
    BY CmdType DEF Ahead, TypeOK
  <2>4. started[e] = 0 /\ (\A n \in Nodes : ~At(queue[n], e)) /\ (\A n \in Pull : ~At(wire[n], e))
    BY <2>1, <2>2 DEF OnePlace, OneQueue, OneWire, StartedOnce
  <2>5. queue[m] \in Seq(Items) /\ e \in Items /\ e # Restart
    BY <2>1, RestartAssumption DEF TypeOK, Items
  <2>6. /\ queue'[m] = Append(queue[m], e)
        /\ \A n \in Nodes \ {m} : queue'[n] = queue[n]
    BY <2>1 DEF TypeOK
  <2> HIDE DEF e, m
  <2>7. /\ NoRepeat(queue'[m])
        /\ \A c : At(queue'[m], c) <=> At(queue[m], c) \/ c = e
    <3>1. NoRepeat(queue[m]) /\ ~At(queue[m], e)
      BY <2>1, <2>4 DEF OnePlace, OneQueue
    <3>2. /\ NoRepeat(Append(queue[m], e))
          /\ \A c : At(Append(queue[m], e), c) <=> At(queue[m], c) \/ c = e
      BY <2>5, <3>1, AppendAt
    <3> QED
      BY <2>6, <3>2
  <2>8. OneQueue'
    BY <2>1, <2>2, <2>3, <2>4, <2>6, <2>7 DEF OnePlace, OneQueue
  <2>9. OneWire'
    BY <2>1, <2>3, <2>4, <2>6, <2>7 DEF OnePlace, OneWire, Nodes
  <2> QED
    BY <2>3, <2>8, <2>9 DEF OnePlace, StartedOnce
<1> QED
  BY <1>1, <1>2

\* A pull agent keeps a command in one place.
LEMMA PullOnce ==
  ASSUME TypeOK, OnePlace, NEW n \in Pull,
         Heartbeat(n) \/ LoseReply(n) \/ Begin(n) \/ Crash(n) \/ SendRestart(n)
  PROVE  OnePlace'
<1> USE DEF senderVars, agentVars
<1>1. \A c \in Cmds : Ahead(c)' = Ahead(c)
  BY DEF Heartbeat, LoseReply, Begin, Crash, SendRestart, Ahead
<1>2. n \in Nodes
  BY DEF Nodes
<1>3. CASE Heartbeat(n)
  <2>1. /\ wire'[n] = queue[n] /\ queue'[n] = <<>> /\ started' = started
        /\ \A m \in Nodes \ {n} : queue'[m] = queue[m]
        /\ \A m \in Pull \ {n} : wire'[m] = wire[m]
    BY <1>2, <1>3 DEF Heartbeat, TypeOK
  <2>2. OneQueue'
    BY <1>1, <2>1, NothingAt DEF OnePlace, OneQueue
  <2>3. OneWire'
    BY <1>1, <1>2, <2>1, NothingAt DEF OnePlace, OneQueue, OneWire, Nodes
  <2> QED
    BY <1>1, <2>1, <2>2, <2>3 DEF OnePlace, StartedOnce
<1>4. CASE LoseReply(n) \/ Crash(n)
  <2>1. /\ wire'[n] = <<>> /\ UNCHANGED <<queue, started>>
        /\ \A m \in Pull \ {n} : wire'[m] = wire[m]
    BY <1>4 DEF LoseReply, Crash, TypeOK
  <2>2. OneWire'
    BY <1>1, <2>1, NothingAt DEF OnePlace, OneWire
  <2> QED
    BY <1>1, <2>1, <2>2 DEF OnePlace, OneQueue, StartedOnce
<1>5. CASE SendRestart(n)
  <2>1. /\ queue'[n] = Append(queue[n], Restart) /\ UNCHANGED <<wire, started>>
        /\ \A m \in Nodes \ {n} : queue'[m] = queue[m]
    BY <1>2, <1>5 DEF SendRestart, TypeOK
  <2>2. queue[n] \in Seq(Items) /\ Restart \in Items
    BY <1>2 DEF TypeOK, Items
  <2>3. /\ NoRepeat(queue[n]) => NoRepeat(queue'[n])
        /\ \A c \in Cmds : At(queue'[n], c) <=> At(queue[n], c)
    BY <2>1, <2>2, AppendAt, RestartAssumption
  <2>4. OneQueue'
    BY <1>1, <1>2, <2>1, <2>3 DEF OnePlace, OneQueue
  <2>5. OneWire'
    BY <1>1, <1>2, <2>1, <2>3 DEF OnePlace, OneWire, Nodes
  <2> QED
    BY <1>1, <2>1, <2>4, <2>5 DEF OnePlace, StartedOnce
<1>6. CASE Begin(n)
  <2> DEFINE h == Head(wire[n])
  <2>1. wire[n] \in Seq(Items) /\ wire[n] # <<>> /\ h \in Items
    BY <1>6 DEF Begin, TypeOK, Items
  <2>2. /\ At(wire[n], h)
        /\ \A c : At(Tail(wire[n]), c) => At(wire[n], c)
        /\ NoRepeat(wire[n]) => NoRepeat(Tail(wire[n])) /\ (h # Restart => ~At(Tail(wire[n]), h))
    BY <2>1, TailAt
  <2>3. queue' = queue /\ \A m \in Pull \ {n} : wire'[m] = wire[m]
    BY <1>6 DEF Begin, TypeOK
  <2>4. CASE h = Restart
    <3>1. wire'[n] = <<>> /\ started' = started
      BY <1>6, <2>4 DEF Begin, TypeOK
    <3>2. OneWire'
      BY <1>1, <2>3, <3>1, NothingAt DEF OnePlace, OneWire
    <3> QED
      BY <1>1, <2>3, <3>1, <3>2 DEF OnePlace, OneQueue, StartedOnce
  <2>5. CASE h # Restart
    <3>1. /\ h \in Cmds
          /\ wire'[n] = Tail(wire[n]) /\ started' = [started EXCEPT ![h] = @ + 1]
      BY <1>6, <2>1, <2>5 DEF Begin, TypeOK, Items
    <3>2. /\ NodeOf(h) = n /\ ~Ahead(h) /\ ~At(queue[n], h) /\ started[h] = 0
          /\ NoRepeat(wire[n])
      BY <2>2, <3>1 DEF OnePlace, OneWire
    <3>3. started'[h] = 1 /\ \A c \in Cmds \ {h} : started'[c] = started[c]
      BY <3>1, <3>2 DEF TypeOK
    <3> HIDE DEF h
    <3>4. OneQueue'
      BY <1>1, <2>3, <3>1, <3>2, <3>3 DEF OnePlace, OneQueue
    <3>5. OneWire'
      <4>1. NoRepeat(wire'[n]) /\ ~At(wire'[n], h) /\ \A c : At(wire'[n], c) => At(wire[n], c)
        BY <2>2, <2>5, <3>1, <3>2
      <4>2. \A m \in Pull \ {n} : ~At(wire[m], h)
        BY <3>1, <3>2 DEF OnePlace, OneWire
      <4> QED
        BY <1>1, <2>3, <3>3, <4>1, <4>2 DEF OnePlace, OneWire
    <3>6. StartedOnce'
      BY <1>1, <3>2, <3>3 DEF OnePlace, StartedOnce
    <3> QED
      BY <3>4, <3>5, <3>6 DEF OnePlace
  <2> QED
    BY <2>4, <2>5
<1> QED
  BY <1>3, <1>4, <1>5, <1>6

\* The prompts that a poll sends are the commands in the queue.
LEMMA PromptsAt ==
  ASSUME TypeOK, NEW n \in Nodes
  PROVE  \A c \in Cmds : c \in PromptsIn(queue[n]) <=> At(queue[n], c)
<1>1. queue[n] \in Seq(Items)
  BY DEF TypeOK, Items
<1>2. \A c \in Cmds : c # Restart
  BY RestartAssumption
<1>3. DOMAIN queue[n] = 1..Len(queue[n])
  BY <1>1
<1> QED
  BY <1>2, <1>3 DEF PromptsIn, At

\* The poller keeps a command in one place.
LEMMA PollOnce ==
  ASSUME TypeOK, OnePlace, NEW n \in Push, Poll(n)
  PROVE  OnePlace'
<1> USE DEF senderVars, agentVars
<1>1. n \in Nodes /\ n \notin Pull
  BY NodesAssumption DEF Nodes
<1>2. /\ queue'[n] = <<>> /\ wire' = wire
      /\ \A m \in Nodes \ {n} : queue'[m] = queue[m]
      /\ \A c \in Cmds : Ahead(c)' = Ahead(c)
  BY <1>1 DEF Poll, TypeOK, Ahead
<1>3. \A c \in Cmds : c \in PromptsIn(queue[n]) <=> At(queue[n], c)
  BY <1>1, PromptsAt
<1>4. \A c \in Cmds : started'[c] = IF At(queue[n], c) THEN started[c] + 1 ELSE started[c]
  BY <1>3 DEF Poll
<1>5. \A c \in Cmds : At(queue[n], c) => NodeOf(c) = n /\ ~Ahead(c) /\ started[c] = 0
  BY <1>1 DEF OnePlace, OneQueue
<1>6. OneQueue'
  BY <1>1, <1>2, <1>4, <1>5, NothingAt DEF OnePlace, OneQueue
<1>7. OneWire'
  BY <1>1, <1>2, <1>4, <1>5 DEF OnePlace, OneWire, Nodes
<1>8. StartedOnce'
  BY <1>2, <1>4, <1>5 DEF OnePlace, StartedOnce
<1> QED
  BY <1>6, <1>7, <1>8 DEF OnePlace

\* Every step keeps a command in one place.
LEMMA OnePlaceStep == TypeOK /\ OnePlace /\ [Next]_vars => OnePlace'
<1> SUFFICES ASSUME TypeOK, OnePlace, [Next]_vars PROVE OnePlace'
  OBVIOUS
<1> USE DEF senderVars, agentVars
<1>1. ASSUME UNCHANGED <<stage, todo, queue, wire, started>> PROVE OnePlace'
  BY <1>1 DEF OnePlace, OneQueue, OneWire, StartedOnce, Ahead
<1>2. ASSUME NEW t \in Tasks, Age(t) \/ GetTask(t)
      PROVE  UNCHANGED <<stage, todo, queue, wire, started>>
  BY <1>2 DEF Age, GetTask
<1>3. ASSUME NEW j \in jobs, Answer(j) \/ Report(j) \/ Apologize(j) \/ Sent(j)
      PROVE  UNCHANGED <<stage, todo, queue, wire, started>>
  BY <1>3 DEF Answer, Report, Apologize, Sent
<1>4. ASSUME UNCHANGED vars PROVE UNCHANGED <<stage, todo, queue, wire, started>>
  BY <1>4 DEF vars
<1> QED
  BY <1>1, <1>2, <1>3, <1>4, SenderOnce, PullOnce, PollOnce DEF Next, JobStep

\* A command is always in one place.
LEMMA OnePlaceHolds == Spec => []OnePlace
<1>1. Init => OnePlace
  <2> SUFFICES ASSUME Init PROVE OnePlace
    OBVIOUS
  <2>1. /\ \A n \in Nodes : queue[n] = <<>>
        /\ \A n \in Pull : wire[n] = <<>>
        /\ \A c \in Cmds : started[c] = 0
    BY DEF Init
  <2> QED
    BY <2>1, NothingAt DEF OnePlace, OneQueue, OneWire, StartedOnce
<1> QED
  BY <1>1, OnePlaceStep, TypeCorrect, PTL DEF Spec

\* No command is started twice, whatever reply is lost, whatever agent restarts
\* or crashes, however often results are retried.
THEOREM RunsAtMostOnce == Spec => []AtMostOnce
<1>1. OnePlace => AtMostOnce
  BY DEF OnePlace, StartedOnce, AtMostOnce
<1> QED
  BY <1>1, OnePlaceHolds, PTL

----------------------------------------------------------------------------
(* No prompt is forgotten while nothing fails.                              *)

\* On its way a command is with the sender, in the queue of its node, or in the
\* reply that its agent goes through; a restart is no part of it.
OnTheWay(c) ==
  \/ c[2] \in todo[TaskOf(c)]
  \/ At(queue[NodeOf(c)], c)
  \/ NodeOf(c) \in Pull /\ At(wire[NodeOf(c)], c)
  \/ started[c] >= 1
NoRestart == /\ \A n \in Nodes : ~At(queue[n], Restart)
             /\ \A n \in Pull : ~At(wire[n], Restart)
Wanted(c) == c[2] \in goal[TaskOf(c)]
KeptInv ==
  /\ \A t \in Tasks : stage[t] = "posted" => todo[t] = {}
  /\ faults = 0 => NoRestart /\ \A c \in Cmds : Wanted(c) => OnTheWay(c)

\* What Delivered rests on: until something fails, each command of a task that
\* is posted is in the queue of its node, in a reply, or started, once.
CommandsKept ==
  faults = 0 =>
    \A c \in Cmds : stage[TaskOf(c)] = "posted" /\ Wanted(c) =>
      \/ At(queue[NodeOf(c)], c)
      \/ NodeOf(c) \in Pull /\ At(wire[NodeOf(c)], c)
      \/ started[c] = 1

\* The sender hands each command over to the queue of its node.
LEMMA SenderKeeps ==
  ASSUME TypeOK, KeptInv, NEW t \in Tasks, Choose(t) \/ Enqueue(t) \/ Post(t)
  PROVE  KeptInv'
<1> USE DEF senderVars, agentVars
<1>1. CASE Choose(t)
  <2> PICK G \in SUBSET Targets :
         goal' = [goal EXCEPT ![t] = G] /\ todo' = [todo EXCEPT ![t] = G]
    BY <1>1 DEF Choose
  <2>1. /\ goal'[t] = todo'[t] /\ stage'[t] = "sending"
        /\ \A u \in Tasks \ {t} :
             goal'[u] = goal[u] /\ todo'[u] = todo[u] /\ stage'[u] = stage[u]
        /\ UNCHANGED <<queue, wire, started, faults>>
    BY <1>1 DEF Choose, TypeOK
  <2> QED
    BY <2>1, CmdType DEF KeptInv, NoRestart, Wanted, OnTheWay
<1>2. CASE Post(t)
  <2>1. /\ todo[t] = {} /\ UNCHANGED <<goal, todo, queue, wire, started, faults>>
        /\ \A u \in Tasks \ {t} : stage'[u] = stage[u]
    BY <1>2 DEF Post, TypeOK
  <2> QED
    BY <2>1 DEF KeptInv, NoRestart, Wanted, OnTheWay
<1>3. CASE Enqueue(t)
  <2> PICK g \in todo[t] :
         /\ stage[t] = "sending"
         /\ todo' = [todo EXCEPT ![t] = @ \ {g}]
         /\ queue' = [queue EXCEPT ![g[1]] = Append(@, <<t, g>>)]
         /\ UNCHANGED <<goal, stage, board, late, agentVars, faults>>
    BY <1>3 DEF Enqueue
  <2> DEFINE e == <<t, g>>
             m == g[1]
  <2>1. /\ g \in Targets /\ m \in Nodes /\ e \in Cmds
        /\ TaskOf(e) = t /\ e[2] = g /\ NodeOf(e) = m
    BY DEF TypeOK, Targets, Cmds, TaskOf, NodeOf
  <2>2. queue[m] \in Seq(Items) /\ e \in Items /\ e # Restart
    BY <2>1, RestartAssumption DEF TypeOK, Items
  <2>3. /\ queue'[m] = Append(queue[m], e)
        /\ \A n \in Nodes \ {m} : queue'[n] = queue[n]
        /\ todo'[t] = todo[t] \ {g}
        /\ \A u \in Tasks \ {t} : todo'[u] = todo[u]
    BY <2>1 DEF TypeOK
  <2>4. \A c \in Cmds : TaskOf(c) = t /\ c[2] = g => c = e
    BY CmdType
  <2> HIDE DEF e, m
  <2>5. \A c : At(queue'[m], c) <=> At(queue[m], c) \/ c = e
    <3>1. \A c : At(Append(queue[m], e), c) <=> At(queue[m], c) \/ c = e
      BY <2>2, AppendAt
    <3> QED
      BY <2>3, <3>1
  <2>6. NoRestart => NoRestart'
    BY <2>1, <2>2, <2>3, <2>5 DEF NoRestart
  <2>7. \A c \in Cmds : OnTheWay(c) => OnTheWay(c)'
    <3> SUFFICES ASSUME NEW c \in Cmds, OnTheWay(c) PROVE OnTheWay(c)'
      OBVIOUS
    <3>1. TaskOf(c) \in Tasks /\ NodeOf(c) \in Nodes
      BY CmdType
    <3>2. CASE c = e
      BY <2>1, <2>5, <3>2 DEF OnTheWay
    <3>3. CASE c # e
      <4>1. c[2] \in todo[TaskOf(c)] => c[2] \in todo'[TaskOf(c)]
        BY <2>3, <2>4, <3>1, <3>3
      <4>2. At(queue[NodeOf(c)], c) => At(queue'[NodeOf(c)], c)
        BY <2>3, <2>5, <3>1
      <4> QED
        BY <4>1, <4>2 DEF OnTheWay
    <3> QED
      BY <3>2, <3>3
  <2> QED
    BY <2>3, <2>6, <2>7 DEF KeptInv, Wanted
<1> QED
  BY <1>1, <1>2, <1>3

\* A pull agent takes the whole queue and starts one command after the other.
LEMMA PullKeeps ==
  ASSUME TypeOK, KeptInv, NEW n \in Pull,
         Heartbeat(n) \/ LoseReply(n) \/ Begin(n) \/ Crash(n) \/ SendRestart(n)
  PROVE  KeptInv'
<1> USE DEF senderVars, agentVars
<1>1. UNCHANGED <<goal, todo, stage>> /\ faults \in Nat /\ n \in Nodes
  BY DEF Heartbeat, LoseReply, Begin, Crash, SendRestart, TypeOK, Nodes
<1>2. CASE Heartbeat(n)
  <2>1. /\ wire[n] = <<>> /\ wire'[n] = queue[n] /\ UNCHANGED <<started, faults>>
        /\ queue'[n] = <<>>
        /\ \A m \in Nodes \ {n} : queue'[m] = queue[m]
        /\ \A m \in Pull \ {n} : wire'[m] = wire[m]
    BY <1>1, <1>2 DEF Heartbeat, TypeOK
  <2>2. NoRestart => NoRestart'
    BY <1>1, <2>1, NothingAt DEF NoRestart
  <2>3. \A c \in Cmds : OnTheWay(c) => OnTheWay(c)'
    BY <1>1, <2>1, NothingAt, CmdType DEF OnTheWay
  <2> QED
    BY <1>1, <2>1, <2>2, <2>3 DEF KeptInv, Wanted
<1>3. CASE LoseReply(n) \/ Crash(n) \/ SendRestart(n)
  <2>1. faults' # 0
    BY <1>1, <1>3 DEF LoseReply, Crash, SendRestart
  <2> QED
    BY <1>1, <2>1 DEF KeptInv
<1>4. CASE Begin(n)
  <2> DEFINE h == Head(wire[n])
  <2>1. wire[n] \in Seq(Items) /\ wire[n] # <<>> /\ h \in Items
    BY <1>4 DEF Begin, TypeOK, Items
  <2>2. /\ At(wire[n], h)
        /\ \A c : At(Tail(wire[n]), c) => At(wire[n], c)
        /\ \A c : At(wire[n], c) => c = h \/ At(Tail(wire[n]), c)
    BY <2>1, TailAt
  <2>3. UNCHANGED <<queue, faults>> /\ \A m \in Pull \ {n} : wire'[m] = wire[m]
    BY <1>4 DEF Begin, TypeOK
  <2>4. CASE faults = 0
    <3>1. h # Restart /\ h \in Cmds
      BY <2>1, <2>2, <2>4 DEF KeptInv, NoRestart, Items
    <3>2. /\ wire'[n] = Tail(wire[n])
          /\ started'[h] = started[h] + 1
          /\ \A c \in Cmds \ {h} : started'[c] = started[c]
      BY <1>4, <3>1 DEF Begin, TypeOK
    <3>3. started \in [Cmds -> Nat]
      BY DEF TypeOK
    <3> HIDE DEF h
    <3>4. \A c \in Cmds : OnTheWay(c) => OnTheWay(c)'
      <4> SUFFICES ASSUME NEW c \in Cmds, OnTheWay(c) PROVE OnTheWay(c)'
        OBVIOUS
      <4>1. started[c] >= 1 \/ c = h => started'[c] >= 1
        BY <3>2, <3>3
      <4>2. NodeOf(c) \in Pull /\ At(wire[NodeOf(c)], c) /\ c # h => At(wire'[NodeOf(c)], c)
        BY <2>2, <2>3, <3>2
      <4> QED
        BY <1>1, <2>3, <4>1, <4>2 DEF OnTheWay
    <3>5. NoRestart => NoRestart'
      BY <2>2, <2>3, <3>2 DEF NoRestart
    <3> QED
      BY <1>1, <2>3, <3>4, <3>5 DEF KeptInv, Wanted
  <2> QED
    BY <1>1, <2>3, <2>4 DEF KeptInv
<1> QED
  BY <1>2, <1>3, <1>4

\* The poller starts all that it takes.
LEMMA PollKeeps ==
  ASSUME TypeOK, KeptInv, NEW n \in Push, Poll(n)
  PROVE  KeptInv'
<1> USE DEF senderVars, agentVars
<1>1. n \in Nodes
  BY DEF Nodes
<1>2. /\ queue'[n] = <<>> /\ UNCHANGED <<goal, todo, stage, wire, faults>>
      /\ \A m \in Nodes \ {n} : queue'[m] = queue[m]
  BY <1>1 DEF Poll, TypeOK
<1>3. \A c \in Cmds : started'[c] = IF At(queue[n], c) THEN started[c] + 1 ELSE started[c]
  BY <1>1, PromptsAt DEF Poll
<1>4. started \in [Cmds -> Nat]
  BY DEF TypeOK
<1>5. \A c \in Cmds : OnTheWay(c) => OnTheWay(c)'
  BY <1>2, <1>3, <1>4, CmdType DEF OnTheWay
<1>6. NoRestart => NoRestart'
  BY <1>2, NothingAt DEF NoRestart
<1> QED
  BY <1>2, <1>5, <1>6 DEF KeptInv, Wanted

\* Every step keeps the commands.
LEMMA KeptStep == TypeOK /\ KeptInv /\ [Next]_vars => KeptInv'
<1> SUFFICES ASSUME TypeOK, KeptInv, [Next]_vars PROVE KeptInv'
  OBVIOUS
<1> USE DEF senderVars, agentVars
<1> DEFINE same == UNCHANGED <<goal, stage, todo, queue, wire, started, faults>>
<1>1. ASSUME same PROVE KeptInv'
  BY <1>1 DEF KeptInv, NoRestart, Wanted, OnTheWay
<1>2. ASSUME NEW t \in Tasks, Age(t) \/ GetTask(t) PROVE same
  BY <1>2 DEF Age, GetTask
<1>3. ASSUME NEW j \in jobs, Answer(j) \/ Report(j) \/ Apologize(j) \/ Sent(j) PROVE same
  BY <1>3 DEF Answer, Report, Apologize, Sent
<1>4. ASSUME UNCHANGED vars PROVE same
  BY <1>4 DEF vars
<1> HIDE DEF same
<1> QED
  BY <1>1, <1>2, <1>3, <1>4, SenderKeeps, PullKeeps, PollKeeps DEF Next, JobStep

\* No command of a posted task vanishes without a fault: a queue that is drained
\* goes into a reply or to the threads of the poller whole, a reply is gone
\* through to its end.  With AtMostOnce: each is started exactly once or waits
\* at its node, and all that Delivered adds is that nodes go on.
THEOREM NothingIsForgotten == Spec => []CommandsKept
<1>1. Init => KeptInv
  <2> SUFFICES ASSUME Init PROVE KeptInv
    OBVIOUS
  <2>1. /\ \A n \in Nodes : queue[n] = <<>>
        /\ \A n \in Pull : wire[n] = <<>>
        /\ \A t \in Tasks : goal[t] = {} /\ todo[t] = {}
    BY DEF Init
  <2> QED
    BY <2>1, NothingAt, CmdType DEF KeptInv, NoRestart, Wanted
<1>2. TypeOK /\ OnePlace /\ KeptInv => CommandsKept
  <2> SUFFICES ASSUME TypeOK, OnePlace, KeptInv, faults = 0, NEW c \in Cmds,
                      stage[TaskOf(c)] = "posted", Wanted(c)
               PROVE  \/ At(queue[NodeOf(c)], c)
                      \/ NodeOf(c) \in Pull /\ At(wire[NodeOf(c)], c)
                      \/ started[c] = 1
    BY DEF CommandsKept
  <2>1. todo[TaskOf(c)] = {} /\ OnTheWay(c)
    BY CmdType DEF KeptInv
  <2>2. started[c] \in Nat /\ started[c] <= 1
    BY DEF TypeOK, OnePlace, StartedOnce
  <2> QED
    BY <2>1, <2>2 DEF OnTheWay
<1> QED
  BY <1>1, <1>2, KeptStep, TypeCorrect, OnePlaceHolds, PTL DEF Spec

----------------------------------------------------------------------------
(* The results of a command.                                                *)

\* How often a target is among the results, and the results of a command.
Times(s, g) == Cardinality({i \in 1..Len(s) : s[i] = g})
Filed(c) == IF board[TaskOf(c)] = None THEN 0 ELSE Times(board[TaskOf(c)].results, c[2])
Allowed(c) == IF NodeOf(c) \in Push THEN 1 ELSE Tries + 1

\* A command that was started has one thread at most, which has filed no more results
\* than it has made attempts.
OneThread ==
  /\ \A j, k \in jobs : j.cmd = k.cmd => j = k
  /\ \A j \in jobs :
       /\ started[j.cmd] # 0 /\ Filed(j.cmd) <= j.tries
       /\ j.at = "send" <=> NodeOf(j.cmd) \in Push
       /\ j.at \in {"send", "run"} => j.tries = 0
ResultsOfStarted ==
  \A c \in Cmds : Filed(c) <= Allowed(c) /\ (started[c] = 0 => Filed(c) = 0)

\* One more result is counted once.
LEMMA OnceMore ==
  ASSUME NEW S, NEW s \in Seq(S), NEW e \in S, NEW g
  PROVE  /\ Times(s, g) \in Nat
         /\ Times(Append(s, e), g) = IF e = g THEN Times(s, g) + 1 ELSE Times(s, g)
<1> DEFINE I == {i \in 1..Len(s) : s[i] = g}
           a == Append(s, e)
           J == {i \in 1..Len(a) : a[i] = g}
<1>1. /\ Len(s) \in Nat /\ Len(a) = Len(s) + 1
      /\ \A i \in 1..Len(s) : a[i] = s[i]
      /\ a[Len(s) + 1] = e
  BY AppendProperties
<1>2. IsFiniteSet(I) /\ Cardinality(I) \in Nat
  <2>1. IsFiniteSet(1..Len(s))
    BY <1>1, FS_Interval
  <2>2. I \subseteq 1..Len(s)
    OBVIOUS
  <2> HIDE DEF I
  <2> QED
    BY <2>1, <2>2, FS_Subset, FS_CardinalityType
<1>3. J = IF e = g THEN I \cup {Len(s) + 1} ELSE I
  <2> HIDE DEF a
  <2> QED
    BY <1>1
<1>4. Len(s) + 1 \notin I
  BY <1>1
<1>5. Cardinality(I \cup {Len(s) + 1}) = Cardinality(I) + 1
  <2> HIDE DEF I
  <2> QED
    BY <1>2, <1>4, FS_AddElement
<1> QED
  BY <1>2, <1>3, <1>5 DEF Times

\* The results of a command are a number.
LEMMA FiledType == ASSUME TypeOK, NEW c \in Cmds PROVE Filed(c) \in Nat
<1>1. TaskOf(c) \in Tasks
  BY CmdType
<1>2. CASE board[TaskOf(c)] # None
  <2>1. board[TaskOf(c)].results \in Seq(Targets)
    BY <1>1, <1>2 DEF TypeOK, Entry
  <2>2. Times(board[TaskOf(c)].results, c[2]) \in Nat
    BY <2>1, CmdType, OnceMore
  <2> QED
    BY <1>2, <2>2 DEF Filed
<1> QED
  BY <1>2 DEF Filed

\* An attempt to file a result of a command adds at most one, and none of another.
LEMMA FilesOne ==
  ASSUME TypeOK, NEW c \in Cmds, board' \in {board, Recorded(c)}
  PROVE  /\ Filed(c) \in Nat /\ Filed(c)' \in Nat /\ Filed(c)' <= Filed(c) + 1
         /\ board' = board => Filed(c)' = Filed(c)
         /\ \A d \in Cmds \ {c} : Filed(d)' = Filed(d)
<1> DEFINE t == TaskOf(c)
           r == board[t].results
<1>1. \A d \in Cmds : Filed(d) \in Nat
  BY FiledType
<1>5. board' = board => \A d \in Cmds : Filed(d)' = Filed(d)
  BY DEF Filed
<1>2. CASE board' = board
  BY <1>1, <1>2, <1>5
<1>3. CASE board[t] = None
  BY <1>2, <1>3 DEF Recorded
<1>4. CASE board' = Recorded(c) /\ board[t] # None
  <2>1. t \in Tasks /\ c[2] \in Targets
    BY CmdType
  <2>2. board[t] \in Entry /\ r \in Seq(Targets)
    BY <1>4, <2>1 DEF TypeOK, Entry
  <2>3. /\ board'[t] # None /\ board'[t].results = Append(r, c[2])
        /\ \A u \in Tasks \ {t} : board'[u] = board[u]
    <3>1. Recorded(c) \in [Tasks -> Entry \cup {None}]
      BY RecordedType
    <3> DEFINE e == [status |-> IF Len(Append(r, c[2])) >= Cardinality(goal[t])
                                THEN "done" ELSE "running",
                     results |-> Append(r, c[2])]
    <3>2. board' = [board EXCEPT ![t] = e]
      BY <1>4 DEF Recorded
    <3>3. e \in Entry
      BY <2>1, <2>2 DEF Entry
    <3>4. board'[t] = e
      BY <2>1, <3>2 DEF TypeOK
    <3> QED
      BY <2>1, <3>2, <3>3, <3>4, NoneAssumption DEF TypeOK
  <2>4. Filed(c) = Times(r, c[2]) /\ Filed(c)' = Times(Append(r, c[2]), c[2])
    BY <1>4, <2>3 DEF Filed
  <2>5. Filed(c)' = Filed(c) + 1
    BY <2>1, <2>2, <2>4, OnceMore
  <2>6. ASSUME NEW d \in Cmds \ {c} PROVE Filed(d)' = Filed(d)
    <3>1. CASE TaskOf(d) = t
      <4>1. d[2] # c[2]
        BY <3>1, CmdType
      <4>2. Filed(d) = Times(r, d[2]) /\ Filed(d)' = Times(Append(r, c[2]), d[2])
        BY <1>4, <2>3, <3>1 DEF Filed
      <4> QED
        BY <2>1, <2>2, <4>1, <4>2, OnceMore
    <3>2. CASE TaskOf(d) # t
      BY <2>3, <3>2, CmdType DEF Filed
    <3> QED
      BY <3>1, <3>2
  <2> QED
    BY <1>1, <1>5, <2>5, <2>6
<1> QED
  BY <1>2, <1>3, <1>4

\* The invariant.
ResultsInv == OneThread /\ ResultsOfStarted

\* A thread that has made an attempt moves on to the next, or ends.
LEMMA ThreadMoves ==
  ASSUME TypeOK, ResultsInv, NEW j \in jobs, NEW k, board' \in {board, Recorded(j.cmd)},
         started' = started, jobs' \subseteq (jobs \ {j}) \cup {k}, k # j,
         Filed(j.cmd)' <= Allowed(j.cmd),
         k \in jobs' \ jobs => /\ k.cmd = j.cmd /\ k.at \notin {"send", "run"}
                               /\ NodeOf(j.cmd) \notin Push /\ Filed(j.cmd)' <= k.tries
  PROVE  ResultsInv'
<1>1. /\ \A i \in jobs : i.cmd \in Cmds /\ (i # j => i.cmd # j.cmd)
      /\ j.cmd \in Cmds
  BY DEF TypeOK, JobType, ResultsInv, OneThread
<1>2. \A d \in Cmds \ {j.cmd} : Filed(d)' = Filed(d)
  BY <1>1, FilesOne
<1>3. \A i \in jobs' : i \in jobs \ {j} \/ (i = k /\ k \in jobs' \ jobs)
  OBVIOUS
<1>4. OneThread'
  BY <1>1, <1>2, <1>3 DEF ResultsInv, OneThread
<1>5. started[j.cmd] # 0
  BY DEF ResultsInv, OneThread
<1>6. ResultsOfStarted'
  BY <1>1, <1>2, <1>5 DEF ResultsInv, ResultsOfStarted, Allowed
<1> QED
  BY <1>4, <1>6 DEF ResultsInv

\* A thread keeps count of its results.
LEMMA ThreadResults ==
  ASSUME TypeOK, ResultsInv, NEW j \in jobs, Answer(j) \/ Report(j) \/ Apologize(j) \/ Sent(j)
  PROVE  ResultsInv'
<1>1. /\ j \in JobType /\ j.cmd \in Cmds /\ NodeOf(j.cmd) \in Nodes /\ Tries \in Nat
      /\ j.tries \in 0..Tries /\ (j.at = "report" => j.tries < Tries)
  BY CmdType, TriesAssumption DEF TypeOK, JobType
<1>2. /\ Filed(j.cmd) <= j.tries
      /\ j.at = "send" <=> NodeOf(j.cmd) \in Push
      /\ j.at \in {"send", "run"} => j.tries = 0
  BY DEF ResultsInv, OneThread
<1>3. /\ board' \in {board, Recorded(j.cmd)} /\ started' = started
  BY DEF Answer, Report, Apologize, Sent, agentVars
<1>4. /\ Filed(j.cmd) \in Nat /\ Filed(j.cmd)' \in Nat /\ Filed(j.cmd)' <= Filed(j.cmd) + 1
      /\ board' = board => Filed(j.cmd)' = Filed(j.cmd)
  BY <1>1, <1>3, FilesOne
<1>5. Filed(j.cmd)' <= Allowed(j.cmd)
  BY <1>1, <1>2, <1>4 DEF Allowed
\* The thread ends.
<1>6. ASSUME jobs' = jobs \ {j} PROVE ResultsInv'
  <2> DEFINE k == [j EXCEPT !.tries = j.tries + 1]
  <2>1. k # j /\ (k \notin jobs' \ jobs)
    BY <1>1, <1>6 DEF JobType
  <2> HIDE DEF k
  <2> QED
    BY <1>3, <1>5, <1>6, <2>1, ThreadMoves
<1>7. CASE Answer(j)
  <2> DEFINE k == Job(j.cmd, "report", 0)
  <2>1. /\ j.at = "run" /\ NodeOf(j.cmd) \in Pull /\ board' = board
        /\ jobs' = (jobs \ {j}) \cup {k}
    BY <1>7 DEF Answer
  <2>2. k.cmd = j.cmd /\ k.at = "report" /\ k.tries = 0
    BY DEF Job
  <2> HIDE DEF k
  <2>3. k # j /\ NodeOf(j.cmd) \notin Push /\ Filed(j.cmd)' <= k.tries
    BY <1>2, <1>4, <2>1, <2>2, NodesAssumption
  <2> QED
    BY <1>3, <1>5, <2>1, <2>2, <2>3, ThreadMoves
<1>8. CASE Report(j)
  <2> DEFINE k == Job(j.cmd, IF j.tries + 1 < Tries THEN "report" ELSE "apology", j.tries + 1)
  <2>1. j.at = "report" /\ jobs' \in {jobs \ {j}, (jobs \ {j}) \cup {k}}
    BY <1>8 DEF Report, Retried
  <2>2. k.cmd = j.cmd /\ k.at \in {"report", "apology"} /\ k.tries = j.tries + 1
    BY DEF Job
  <2> HIDE DEF k
  <2>3. k # j /\ NodeOf(j.cmd) \notin Push /\ Filed(j.cmd)' <= k.tries
    BY <1>1, <1>2, <1>4, <2>1, <2>2
  <2> QED
    BY <1>3, <1>5, <1>6, <2>1, <2>2, <2>3, ThreadMoves
<1>9. CASE Apologize(j) \/ Sent(j)
  BY <1>6, <1>9 DEF Apologize, Sent
<1> QED
  BY <1>7, <1>8, <1>9

\* A thread that starts has filed nothing, for its command was not started before.
LEMMA ThreadBegins ==
  ASSUME TypeOK, ResultsInv, NEW C \in SUBSET Cmds, NEW at \in {"run", "send"},
         \A c \in C : started[c] = 0 /\ (at = "send" <=> NodeOf(c) \in Push),
         jobs' = jobs \cup {Job(c, at, 0) : c \in C}, board' = board,
         started' = [c \in Cmds |-> IF c \in C THEN started[c] + 1 ELSE started[c]]
  PROVE  ResultsInv'
<1>1. \A c \in Cmds : Filed(c)' = Filed(c) /\ Filed(c) \in Nat
  BY FiledType DEF Filed
<1>2. /\ \A c \in C : started'[c] # 0 /\ Filed(c) = 0
      /\ \A c \in Cmds : started[c] \in Nat /\ (started'[c] = 0 => started[c] = 0)
      /\ \A c \in Cmds \ C : started'[c] = started[c]
  BY DEF TypeOK, ResultsInv, ResultsOfStarted
<1>3. \A j \in jobs : j.cmd \in Cmds /\ j.cmd \notin C
  BY DEF TypeOK, JobType, ResultsInv, OneThread
<1>4. \A c \in C : Job(c, at, 0).cmd = c /\ Job(c, at, 0).at = at /\ Job(c, at, 0).tries = 0
  BY DEF Job
<1>5. OneThread'
  <2>1. \A j, k \in jobs' : j.cmd = k.cmd => j = k
    BY <1>3, <1>4 DEF ResultsInv, OneThread
  <2>2. ASSUME NEW j \in jobs'
        PROVE  /\ started'[j.cmd] # 0 /\ Filed(j.cmd)' <= j.tries
               /\ j.at = "send" <=> NodeOf(j.cmd) \in Push
               /\ j.at \in {"send", "run"} => j.tries = 0
    <3>1. CASE j \in jobs
      BY <1>1, <1>2, <1>3, <3>1 DEF ResultsInv, OneThread
    <3>2. CASE j \notin jobs
      <4>1. PICK c \in C : j = Job(c, at, 0)
        BY <3>2
      <4>2. j.cmd = c /\ j.at = at /\ j.tries = 0 /\ c \in Cmds
        BY <1>4, <4>1
      <4>3. Filed(j.cmd)' <= 0
        BY <1>1, <1>2, <4>2
      <4> QED
        BY <1>2, <4>2, <4>3
    <3> QED
      BY <3>1, <3>2
  <2> QED
    BY <2>1, <2>2 DEF OneThread
<1>6. ResultsOfStarted'
  BY <1>1, <1>2 DEF ResultsInv, ResultsOfStarted, Allowed
<1> QED
  BY <1>5, <1>6 DEF ResultsInv

\* Threads that end, of an agent that exits, change no results.
LEMMA ThreadsEnd ==
  ASSUME ResultsInv, jobs' \subseteq jobs, board' = board, started' = started
  PROVE  ResultsInv'
BY DEF ResultsInv, OneThread, ResultsOfStarted, Filed, Allowed

\* Every step keeps the count of results.
LEMMA ResultsStep == TypeOK /\ OnePlace /\ ResultsInv /\ [Next]_vars => ResultsInv'
<1> SUFFICES ASSUME TypeOK, OnePlace, ResultsInv, [Next]_vars PROVE ResultsInv'
  OBVIOUS
<1> USE DEF senderVars, agentVars
<1>1. ASSUME NEW t \in Tasks, Post(t) PROVE ResultsInv'
  <2>1. UNCHANGED <<jobs, started>>
    BY <1>1 DEF Post
  <2>2. \A c \in Cmds : Filed(c)' = 0 \/ Filed(c)' = Filed(c)
    <3> SUFFICES ASSUME NEW c \in Cmds PROVE Filed(c)' = 0 \/ Filed(c)' = Filed(c)
      OBVIOUS
    <3>1. CASE TaskOf(c) = t
      <4>1. board'[t].results = <<>>
        BY <1>1 DEF Post, TypeOK
      <4>2. {i \in 1..Len(<<>>) : <<>>[i] = c[2]} = {}
        OBVIOUS
      <4>3. Times(<<>>, c[2]) = 0
        BY <4>2, FS_EmptySet DEF Times
      <4> QED
        BY <3>1, <4>1, <4>3 DEF Filed
    <3>2. CASE TaskOf(c) # t
      BY <1>1, <3>2, CmdType DEF Post, TypeOK, Filed
    <3> QED
      BY <3>1, <3>2
  <2>3. /\ \A j \in jobs : j.cmd \in Cmds /\ j.tries \in Nat
        /\ \A c \in Cmds : Allowed(c) \in Nat /\ Allowed(c)' = Allowed(c)
    BY TriesAssumption DEF TypeOK, JobType, Allowed
  <2>4. OneThread'
    BY <2>1, <2>2, <2>3 DEF ResultsInv, OneThread
  <2>5. ResultsOfStarted'
    BY <2>1, <2>2, <2>3 DEF ResultsInv, ResultsOfStarted
  <2> QED
    BY <2>4, <2>5 DEF ResultsInv
<1>2. ASSUME NEW t \in Tasks, Choose(t) \/ Enqueue(t) \/ Age(t) PROVE ResultsInv'
  BY <1>2, ThreadsEnd DEF Choose, Enqueue, Age
<1>3. ASSUME NEW t \in Tasks, GetTask(t) PROVE ResultsInv'
  <2>1. \A u \in Tasks : /\ board'[u] = None <=> board[u] = None
                         /\ board[u] # None => board'[u].results = board[u].results
    <3>1. /\ board' = [board EXCEPT ![t].status = "done"] /\ board[t] # None
          /\ board[t] \in Entry
      BY <1>3 DEF GetTask, ReportedDone, TypeOK
    <3>2. board'[t] = [status |-> "done", results |-> board[t].results]
      BY <3>1 DEF TypeOK, Entry
    <3>3. board'[t] \in Entry /\ board'[t].results = board[t].results
      BY <3>1, <3>2 DEF Entry
    <3> QED
      BY <3>1, <3>3, NoneAssumption DEF TypeOK
  <2>2. \A c \in Cmds : Filed(c)' = Filed(c) /\ Allowed(c)' = Allowed(c)
    BY <2>1, CmdType DEF Filed, Allowed
  <2>3. UNCHANGED <<jobs, started>> /\ \A j \in jobs : j.cmd \in Cmds
    BY <1>3 DEF GetTask, TypeOK, JobType
  <2> QED
    BY <2>2, <2>3 DEF ResultsInv, OneThread, ResultsOfStarted
<1>4. ASSUME NEW n \in Pull, Heartbeat(n) \/ LoseReply(n) \/ Crash(n) \/ SendRestart(n)
      PROVE  ResultsInv'
  BY <1>4, ThreadsEnd DEF Heartbeat, LoseReply, Crash, SendRestart
<1>5. ASSUME NEW n \in Pull, Begin(n) PROVE ResultsInv'
  <2> DEFINE h == Head(wire[n])
  <2>1. wire[n] \in Seq(Items) /\ wire[n] # <<>> /\ h \in Items /\ board' = board
    BY <1>5 DEF Begin, TypeOK, Items
  <2>2. CASE h = Restart
    BY <1>5, <2>1, <2>2, ThreadsEnd DEF Begin, JobsOf
  <2>3. CASE h # Restart
    <3>1. /\ h \in Cmds /\ jobs' = jobs \cup {Job(h, "run", 0)}
          /\ started' = [started EXCEPT ![h] = @ + 1]
      BY <1>5, <2>1, <2>3 DEF Begin, Items
    <3>2. At(wire[n], h)
      BY <2>1, TailAt
    <3>3. NodeOf(h) = n /\ started[h] = 0
      BY <3>1, <3>2 DEF OnePlace, OneWire
    <3> HIDE DEF h
    <3>4. /\ jobs' = jobs \cup {Job(c, "run", 0) : c \in {h}}
          /\ started' = [c \in Cmds |-> IF c \in {h} THEN started[c] + 1 ELSE started[c]]
      BY <3>1 DEF TypeOK
    <3>5. NodeOf(h) \notin Push
      BY <3>3, NodesAssumption
    <3> QED
      BY <2>1, <3>1, <3>3, <3>4, <3>5, ThreadBegins
  <2> QED
    BY <2>2, <2>3
<1>6. ASSUME NEW n \in Push, Poll(n) PROVE ResultsInv'
  <2> DEFINE C == PromptsIn(queue[n])
  <2>1. n \in Nodes
    BY DEF Nodes
  <2>5. queue[n] \in Seq(Cmds \cup {Restart})
    BY <2>1 DEF TypeOK
  <2>2. C \in SUBSET Cmds /\ \A c \in C : At(queue[n], c)
    BY <2>5 DEF PromptsIn, At
  <2>3. \A c \in C : started[c] = 0 /\ NodeOf(c) \in Push
    BY <2>1, <2>2 DEF OnePlace, OneQueue
  <2>4. /\ jobs' = jobs \cup {Job(c, "send", 0) : c \in C} /\ board' = board
        /\ started' = [c \in Cmds |-> IF c \in C THEN started[c] + 1 ELSE started[c]]
    BY <1>6 DEF Poll
  <2> HIDE DEF C
  <2> QED
    BY <2>2, <2>3, <2>4, ThreadBegins
<1>7. CASE UNCHANGED vars
  BY <1>7, ThreadsEnd DEF vars
<1> QED
  BY <1>1, <1>2, <1>3, <1>4, <1>5, <1>6, <1>7, ThreadResults DEF Next, JobStep

\* A command of a push node files one result at most, one of a pull node at most one for
\* each attempt and the error report.
THEOREM ResultsAreBounded == Spec => []ResultsPerCommand
<1>1. Init => ResultsInv
  <2> SUFFICES ASSUME Init PROVE ResultsInv
    OBVIOUS
  <2>1. \A c \in Cmds : Filed(c) = 0 /\ Allowed(c) \in Nat /\ Allowed(c) >= 0
    BY CmdType, TriesAssumption DEF Init, Filed, Allowed
  <2> QED
    BY <2>1 DEF Init, ResultsInv, OneThread, ResultsOfStarted
<1>2. TypeOK /\ ResultsInv => ResultsPerCommand
  <2> SUFFICES ASSUME TypeOK, ResultsInv, NEW t \in Tasks, board[t] # None, NEW g \in Targets
               PROVE  Times(board[t].results, g) <= IF g[1] \in Push THEN 1 ELSE Tries + 1
    BY DEF ResultsPerCommand, Times
  <2> DEFINE c == <<t, g>>
  <2>1. c \in Cmds /\ TaskOf(c) = t /\ c[2] = g /\ NodeOf(c) = g[1]
    BY DEF Cmds, TaskOf, NodeOf
  <2>2. Filed(c) <= Allowed(c)
    BY <2>1 DEF ResultsInv, ResultsOfStarted
  <2> QED
    BY <2>1, <2>2 DEF Filed, Allowed
<1> QED
  BY <1>1, <1>2, ResultsStep, TypeCorrect, OnePlaceHolds, PTL DEF Spec
=============================================================================
