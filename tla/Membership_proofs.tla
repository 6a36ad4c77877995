--------------------------- MODULE Membership_proofs ---------------------------
(***************************************************************************)
(* Proofs about Membership, for every set of nodes and modes and every     *)
(* value of the bounds: nobody is in without consent, no agent waits for a *)
(* reply that will not come, every request ends, a permitted node only     *)
(* comes nearer to the registry and one that cannot be heard only fades.   *)
(***************************************************************************)
EXTENDS Membership, TLAPS

\* A request that is about to write has something to write.
Saving == \A n \in Nodes : h[n] = "write" => snap[n] # None

----------------------------------------------------------------------------
(* Helpers.                                                                 *)

\* What a save collects is a snapshot.
LEMMA NowIsSnapshot == TypeOK => Now \in Snapshot
  BY DEF TypeOK, Now, Snapshot

\* A snapshot without a token is one still, with fewer tokens.
LEMMA WithoutType ==
  ASSUME NEW s \in Snapshot \cup {None}, NEW n
  PROVE  /\ Without(s, n) \in Snapshot \cup {None}
         /\ s # None => /\ Without(s, n) \in Snapshot
                        /\ Without(s, n).valid \subseteq s.valid
         /\ s = None => Without(s, n) = None
  BY NoneAssumption DEF Without, Snapshot

\* Only the lists of the administrator change under the calls of access.py.
LEMMA ListsType ==
  ASSUME TypeOK, SetAccess
  PROVE  /\ mode' \in Modes
         /\ allowed' \subseteq Nodes /\ denied' \subseteq Nodes /\ pending' \subseteq Nodes
         /\ due' = TRUE /\ moves' \in Nat
<1> USE DEF TypeOK, Move, SetLists
<1>1. ASSUME NEW m \in Modes, SetMode(m)
      PROVE  /\ mode' \in Modes
             /\ allowed' \subseteq Nodes /\ denied' \subseteq Nodes /\ pending' \subseteq Nodes
             /\ due' = TRUE /\ moves' \in Nat
  BY <1>1 DEF SetMode
<1>2. ASSUME NEW n \in Nodes, Allow(n) \/ Deny(n) \/ Remove(n) \/ Approve(n) \/ Reject(n)
      PROVE  /\ mode' \in Modes
             /\ allowed' \subseteq Nodes /\ denied' \subseteq Nodes /\ pending' \subseteq Nodes
             /\ due' = TRUE /\ moves' \in Nat
  BY <1>2 DEF Allow, Deny, Remove, Approve, Reject
<1> QED
  BY <1>1, <1>2 DEF SetAccess

\* A request that ends, and one that goes on, keep the types of the agent.
LEMMA StepType ==
  ASSUME TypeOK, NEW n \in Nodes,
         NEW step \in {"idle"} \cup RegSteps \cup HbSteps, NEW next \in {"join", "beat"}
  PROVE  /\ GoTo(n, step) => h' \in [Nodes -> {"idle"} \cup RegSteps \cup HbSteps]
         /\ Reply(n, next) =>
              /\ h' \in [Nodes -> {"idle"} \cup RegSteps \cup HbSteps]
              /\ agent' \in [Nodes -> {"join", "joining", "beat", "beating", "off"}]
  BY DEF TypeOK, GoTo, Reply, RegSteps, HbSteps

----------------------------------------------------------------------------
(* Types.                                                                   *)

\* The initial states have the types.
LEMMA TypeInit == Init => TypeOK /\ Saving
<1> SUFFICES ASSUME Init PROVE TypeOK /\ Saving
  OBVIOUS
<1>1. Now \in Snapshot
  BY DEF Init, Now, Snapshot
<1>2. h \in [Nodes -> {"idle"} \cup RegSteps \cup HbSteps]
  BY DEF Init
<1>3. snap \in [Nodes -> Snapshot \cup {None}]
  BY DEF Init
<1>4. agent \in [Nodes -> {"join", "joining", "beat", "beating", "off"}]
  BY DEF Init
<1>5. Saving
  BY DEF Init, Saving
<1> QED
  BY <1>1, <1>2, <1>3, <1>4, <1>5 DEF Init, TypeOK

\* Every variable keeps its type under the steps of the agents.
LEMMA TypeAgent ==
  ASSUME TypeOK, NEW n \in Nodes, Ask(n) \/ GiveUp(n) \/ Die(n) \/ Start(n)
  PROVE  TypeOK'
<1> USE DEF TypeOK, accessVars, agentVars, reqVars, adminVars, boundVars, RegSteps, HbSteps
<1>1. CASE Ask(n)
  BY <1>1 DEF Ask
<1>2. CASE GiveUp(n)
  BY <1>2 DEF GiveUp, Fault, Again
<1>3. CASE Die(n)
  BY <1>3 DEF Die, Fault
<1>4. CASE Start(n)
  BY <1>4 DEF Start, Again
<1> QED
  BY <1>1, <1>2, <1>3, <1>4

\* Every variable keeps its type under the steps of a request.
LEMMA TypeRequest ==
  ASSUME TypeOK, Saving, NEW n \in Nodes, Request(n)
  PROVE  TypeOK'
<1> USE DEF TypeOK, accessVars, agentVars, reqVars, adminVars, boundVars
<1>1. CASE RegCheck(n)
  BY <1>1, StepType DEF RegCheck, RegSteps, HbSteps
<1>2. CASE RegQueue(n)
  BY <1>2, StepType DEF RegQueue, RegSteps
<1>3. CASE RegLocal(n)
  BY <1>3, StepType DEF RegLocal, RegSteps
<1>4. CASE RegIssue(n)
  <2>1. h' \in [Nodes -> {"idle"} \cup RegSteps \cup HbSteps]
    BY <1>4, StepType DEF RegIssue, RegSteps
  <2>2. snap' \in [Nodes -> Snapshot \cup {None}]
    BY <1>4, WithoutType DEF RegIssue
  <2>3. adminSnap' \in Snapshot \cup {None} /\ disk' \in Snapshot
    BY <1>4, WithoutType, NoneAssumption DEF RegIssue
  <2> QED
    BY <1>4, <2>1, <2>2, <2>3 DEF RegIssue
<1>5. CASE RegAdd(n)
  BY <1>5, StepType DEF RegAdd, RegSteps
<1>6. CASE RegSave(n)
  BY <1>6, StepType, NowIsSnapshot DEF RegSave, RegSteps
<1>7. CASE RegReply(n)
  <2>1. disk' \in Snapshot
    BY <1>7 DEF RegReply, Saving
  <2>2. snap' \in [Nodes -> Snapshot \cup {None}] /\ holds' \subseteq Nodes
    BY <1>7 DEF RegReply
  <2>3. /\ h' \in [Nodes -> {"idle"} \cup RegSteps \cup HbSteps]
        /\ agent' \in [Nodes -> {"join", "joining", "beat", "beating", "off"}]
    BY <1>7, StepType DEF RegReply
  <2> QED
    BY <1>7, <2>1, <2>2, <2>3 DEF RegReply
<1>8. CASE HbAuth(n)
  BY <1>8, StepType DEF HbAuth, HbSteps
<1>9. CASE HbSeen(n)
  BY <1>9, StepType DEF HbSeen, HbSteps
<1>10. CASE HbReadmit(n)
  BY <1>10, StepType DEF HbReadmit, HbSteps
<1>11. CASE HbReply(n)
  BY <1>11, StepType DEF HbReply
<1> QED
  BY <1>1, <1>2, <1>3, <1>4, <1>5, <1>6, <1>7, <1>8, <1>9, <1>10, <1>11 DEF Request

\* Every variable keeps its type under the requests of the administrator, the
\* reaper and a restart.
LEMMA TypeAdmin ==
  ASSUME TypeOK,
         \/ SetAccess \/ AdminSave \/ AdminWrite \/ Reap \/ Restart
         \/ \E n \in Nodes :
              Revoke(n) \/ Delete(n) \/ DeleteRevoke(n) \/ LocalAgent(n) \/ Silence(n)
  PROVE  TypeOK'
<1> USE DEF TypeOK, accessVars, agentVars, reqVars, adminVars, boundVars
<1>1. CASE SetAccess
  <2>1. UNCHANGED <<valid, registry, quiet, localHosts, agentVars, reqVars, deleting,
                    adminSnap, disk, consented, faults>>
    BY <1>1 DEF SetAccess
  <2>2. /\ mode' \in Modes
        /\ allowed' \subseteq Nodes /\ denied' \subseteq Nodes /\ pending' \subseteq Nodes
        /\ due' = TRUE /\ moves' \in Nat
    BY <1>1, ListsType
  <2>3. /\ h' = h /\ agent' = agent /\ holds' = holds /\ snap' = snap /\ disk' = disk
        /\ adminSnap' = adminSnap
    BY <2>1
  <2> QED
    BY <2>1, <2>2, <2>3
<1>2. CASE AdminSave
  BY <1>2, NowIsSnapshot DEF AdminSave
<1>3. CASE AdminWrite
  BY <1>3 DEF AdminWrite
<1>4. CASE Reap
  BY <1>4 DEF Reap
<1>5. CASE Restart
  <2>1. /\ mode' \in Modes /\ allowed' \subseteq Nodes /\ denied' \subseteq Nodes
        /\ pending' \subseteq Nodes /\ valid' \subseteq Nodes
    BY <1>5 DEF Restart, SetLists, Snapshot
  <2>2. agent' \in [Nodes -> {"join", "joining", "beat", "beating", "off"}]
    BY <1>5 DEF Restart, Again
  <2>3. h' \in [Nodes -> {"idle"} \cup RegSteps \cup HbSteps]
    BY <1>5 DEF Restart
  <2>4. /\ registry' = {} /\ quiet' = {} /\ localHosts' = {} /\ granted' = {}
        /\ deleting' = {} /\ due' = FALSE /\ adminSnap' = None
        /\ faults' \in Nat /\ UNCHANGED <<holds, disk, consented, moves>>
    BY <1>5 DEF Restart, Fault
  <2>5. snap' \in [Nodes -> Snapshot \cup {None}]
    BY <1>5 DEF Restart
  <2> QED
    BY <2>1, <2>2, <2>3, <2>4, <2>5
<1>6. ASSUME NEW n \in Nodes,
             Revoke(n) \/ Delete(n) \/ DeleteRevoke(n) \/ LocalAgent(n) \/ Silence(n)
      PROVE TypeOK'
  <2>1. CASE Revoke(n)
    BY <2>1 DEF Revoke, Move
  <2>2. CASE Delete(n)
    BY <2>2 DEF Delete
  <2>3. CASE DeleteRevoke(n)
    BY <2>3 DEF DeleteRevoke
  <2>4. CASE LocalAgent(n)
    BY <2>4 DEF LocalAgent, Move
  <2>5. CASE Silence(n)
    BY <2>5 DEF Silence
  <2> QED
    BY <1>6, <2>1, <2>2, <2>3, <2>4, <2>5
<1> QED
  BY <1>1, <1>2, <1>3, <1>4, <1>5, <1>6

\* Only the request itself leaves its steps, and it takes a snapshot first.
LEMMA SavingStep == TypeOK /\ Saving /\ [Next]_vars => Saving'
<1> SUFFICES ASSUME TypeOK, Saving, [Next]_vars PROVE Saving'
  OBVIOUS
<1> USE DEF Saving, TypeOK
<1>1. ASSUME NEW n \in Nodes, Ask(n) PROVE Saving'
  BY <1>1 DEF Ask
<1>2. ASSUME NEW n \in Nodes, GiveUp(n) \/ Die(n) \/ Start(n) PROVE Saving'
  BY <1>2 DEF GiveUp, Die, Start, reqVars
<1>3. ASSUME NEW n \in Nodes, RegIssue(n) PROVE Saving'
  <2>1. ASSUME NEW k \in Nodes, h'[k] = "write" PROVE snap'[k] # None
    <3>1. h[k] = "write" /\ snap'[k] = Without(snap[k], n)
      BY <1>3, <2>1 DEF RegIssue, GoTo
    <3>2. snap[k] \in Snapshot \cup {None} /\ snap[k] # None
      BY <3>1
    <3>3. Without(snap[k], n) \in Snapshot
      BY <3>2, WithoutType
    <3> QED
      BY <3>1, <3>3, NoneAssumption
  <2> QED
    BY <2>1
<1>4. ASSUME NEW n \in Nodes, RegSave(n) PROVE Saving'
  BY <1>4, NowIsSnapshot, NoneAssumption DEF RegSave, GoTo
<1>5. ASSUME NEW n \in Nodes, RegReply(n) PROVE Saving'
  BY <1>5 DEF RegReply, GoTo, Reply
<1>6. ASSUME NEW n \in Nodes,
             RegCheck(n) \/ RegQueue(n) \/ RegLocal(n) \/ RegAdd(n)
      PROVE Saving'
  BY <1>6 DEF RegCheck, RegQueue, RegLocal, RegAdd, GoTo, Reply
<1>7. ASSUME NEW n \in Nodes, HbAuth(n) \/ HbSeen(n) \/ HbReadmit(n) \/ HbReply(n)
      PROVE Saving'
  BY <1>7 DEF HbAuth, HbSeen, HbReadmit, HbReply, GoTo, Reply
<1>8. ASSUME SetAccess \/ AdminSave \/ AdminWrite \/ Reap PROVE Saving'
  BY <1>8 DEF SetAccess, AdminSave, AdminWrite, Reap, reqVars
<1>9. ASSUME NEW n \in Nodes,
             Revoke(n) \/ Delete(n) \/ DeleteRevoke(n) \/ LocalAgent(n) \/ Silence(n)
      PROVE Saving'
  BY <1>9 DEF Revoke, Delete, DeleteRevoke, LocalAgent, Silence, reqVars
<1>10. ASSUME Restart PROVE Saving'
  BY <1>10 DEF Restart
<1>11. ASSUME UNCHANGED vars PROVE Saving'
  BY <1>11 DEF vars, reqVars
<1> QED
  BY <1>1, <1>2, <1>3, <1>4, <1>5, <1>6, <1>7, <1>8, <1>9, <1>10, <1>11 DEF Next, Request

\* The types and what the writes need are inductive together.
LEMMA TypeStep == TypeOK /\ Saving /\ [Next]_vars => TypeOK'
<1> SUFFICES ASSUME TypeOK, Saving, [Next]_vars PROVE TypeOK'
  OBVIOUS
<1>1. CASE UNCHANGED vars
  BY <1>1 DEF TypeOK, vars, accessVars, agentVars, reqVars, adminVars, boundVars
<1>2. CASE Next
  BY <1>2, TypeAgent, TypeRequest, TypeAdmin DEF Next
<1> QED
  BY <1>1, <1>2

\* Every variable of registration, heartbeats and admission keeps its type.
THEOREM TypeCorrect == Spec => []TypeOK
<1>1. TypeOK /\ Saving /\ [Next]_vars => (TypeOK /\ Saving)'
  BY TypeStep, SavingStep
<1>2. Spec => [](TypeOK /\ Saving)
  BY TypeInit, <1>1, PTL DEF Spec
<1> QED
  BY <1>2, PTL
----------------------------------------------------------------------------
(* Nobody is in who was not let in.                                         *)

\* Steps of a request that only a node that was let in reaches.
LetIn == {"local", "issue", "add", "seen", "readmit", "reply"}

\* The tokens a save that is under way will write.
SavedTokens ==
  /\ adminSnap # None => adminSnap.valid \subseteq consented
  /\ \A n \in Nodes : snap[n] # None => snap[n].valid \subseteq consented

\* Beside the registry, the tokens and the disk, the requests and the saves
\* under way concern only nodes that were let in: a heartbeat that has passed
\* its check puts a node back without another.
Consent ==
  /\ ConsentedOnly
  /\ SavedTokens
  /\ \A n \in Nodes : h[n] \in LetIn => n \in consented

\* What a save collects names only nodes that were let in.
LEMMA NowConsents == Consent => Now.valid \subseteq consented
  BY DEF Consent, ConsentedOnly, Now

\* A request that goes on, or ends, leaves the others where they are.
LEMMA OthersStay ==
  ASSUME TypeOK, NEW n \in Nodes, NEW step, NEW next
  PROVE  /\ GoTo(n, step) => h'[n] = step /\ \A k \in Nodes \ {n} : h'[k] = h[k]
         /\ Reply(n, next) => h'[n] = "idle" /\ \A k \in Nodes \ {n} : h'[k] = h[k]
  BY DEF TypeOK, GoTo, Reply

\* The steps of a registration keep the consent.
LEMMA ConsentRegister ==
  ASSUME TypeOK, Saving, Consent, NEW n \in Nodes,
         \/ RegCheck(n) \/ RegQueue(n) \/ RegLocal(n) \/ RegIssue(n)
         \/ RegAdd(n) \/ RegSave(n) \/ RegReply(n)
  PROVE  Consent'
<1> USE DEF ConsentedOnly, SavedTokens, LetIn, adminVars
<1>1. CASE RegCheck(n)
  <2>1. consented \subseteq consented'
    BY <1>1 DEF RegCheck
  <2>2. \A k \in Nodes : h'[k] \in LetIn => k \in consented'
    BY <1>1, OthersStay DEF RegCheck, Consent
  <2>3. UNCHANGED <<registry, valid, disk, snap, adminSnap>>
    BY <1>1 DEF RegCheck
  <2> QED
    BY <2>1, <2>2, <2>3 DEF Consent
<1>2. CASE RegQueue(n)
  BY <1>2, OthersStay DEF RegQueue, Consent
<1>3. CASE RegLocal(n)
  BY <1>3, OthersStay DEF RegLocal, Consent
<1>4. CASE RegIssue(n)
  <2>1. n \in consented
    BY <1>4 DEF RegIssue, Consent
  <2>2. disk'.valid \subseteq consented
    BY <1>4, WithoutType, NoneAssumption DEF RegIssue, Consent, TypeOK
  <2>3. adminSnap' # None => adminSnap'.valid \subseteq consented
    BY <1>4, WithoutType DEF RegIssue, Consent, TypeOK
  <2>4. ASSUME NEW k \in Nodes, snap'[k] # None PROVE snap'[k].valid \subseteq consented
    <3>1. snap'[k] = Without(snap[k], n) /\ snap[k] \in Snapshot \cup {None}
      BY <1>4 DEF RegIssue, TypeOK
    <3>2. snap[k] # None
      BY <2>4, <3>1, WithoutType
    <3> QED
      BY <3>1, <3>2, WithoutType DEF Consent
  <2>5. \A k \in Nodes : h'[k] \in LetIn => k \in consented
    BY <1>4, <2>1, OthersStay DEF RegIssue, Consent
  <2>6. valid' = valid \cup {n} /\ UNCHANGED <<registry, consented>>
    BY <1>4 DEF RegIssue
  <2> QED
    BY <2>1, <2>2, <2>3, <2>4, <2>5, <2>6 DEF Consent
<1>5. CASE RegAdd(n)
  BY <1>5, OthersStay DEF RegAdd, Consent
<1>6. CASE RegSave(n)
  <2>1. \A k \in Nodes : h'[k] \in LetIn => k \in consented
    BY <1>6, OthersStay DEF RegSave, Consent
  <2>2. \A k \in Nodes : snap'[k] # None => snap'[k].valid \subseteq consented
    BY <1>6, NowConsents DEF RegSave, Consent, TypeOK
  <2> QED
    BY <1>6, <2>1, <2>2 DEF RegSave, Consent
<1>7. CASE RegReply(n)
  <2>1. \A k \in Nodes : h'[k] \in LetIn => k \in consented
    BY <1>7, OthersStay DEF RegReply, Consent
  <2>2. \A k \in Nodes : snap'[k] # None => snap'[k].valid \subseteq consented
    BY <1>7 DEF RegReply, Consent, TypeOK
  <2>3. disk'.valid \subseteq consented
    BY <1>7 DEF RegReply, Consent, Saving
  <2> QED
    BY <1>7, <2>1, <2>2, <2>3 DEF RegReply, Consent
<1> QED
  BY <1>1, <1>2, <1>3, <1>4, <1>5, <1>6, <1>7

\* The steps of a heartbeat keep the consent: a token is valid only for a
\* node that was let in.
LEMMA ConsentHeartbeat ==
  ASSUME TypeOK, Consent, NEW n \in Nodes,
         HbAuth(n) \/ HbSeen(n) \/ HbReadmit(n) \/ HbReply(n)
  PROVE  Consent'
<1> USE DEF Consent, ConsentedOnly, SavedTokens, LetIn, adminVars
<1>1. CASE HbAuth(n)
  BY <1>1, OthersStay DEF HbAuth
<1>2. CASE HbSeen(n)
  BY <1>2, OthersStay DEF HbSeen
<1>3. CASE HbReadmit(n)
  BY <1>3, OthersStay DEF HbReadmit
<1>4. CASE HbReply(n)
  BY <1>4, OthersStay DEF HbReply
<1> QED
  BY <1>1, <1>2, <1>3, <1>4

\* The consent survives every step.
LEMMA ConsentStep == TypeOK /\ Saving /\ Consent /\ [Next]_vars => Consent'
<1> SUFFICES ASSUME TypeOK, Saving, Consent, [Next]_vars PROVE Consent'
  OBVIOUS
<1> USE DEF ConsentedOnly, SavedTokens, LetIn, reqVars, adminVars
<1>1. ASSUME NEW n \in Nodes, Request(n) PROVE Consent'
  BY <1>1, ConsentRegister, ConsentHeartbeat DEF Request
<1>2. ASSUME NEW n \in Nodes, Ask(n) PROVE Consent'
  <2>1. \A k \in Nodes : h'[k] \in LetIn => h[k] \in LetIn
    BY <1>2 DEF Ask, TypeOK
  <2> QED
    BY <1>2, <2>1 DEF Ask, Consent
<1>3. ASSUME NEW n \in Nodes, GiveUp(n) \/ Die(n) \/ Start(n) PROVE Consent'
  BY <1>3 DEF GiveUp, Die, Start, Consent
<1>4. ASSUME SetAccess \/ AdminWrite \/ Reap PROVE Consent'
  BY <1>4 DEF SetAccess, AdminWrite, Reap, Consent
<1>5. ASSUME AdminSave PROVE Consent'
  BY <1>5, NowConsents DEF AdminSave, Consent
<1>6. ASSUME NEW n \in Nodes,
             Revoke(n) \/ Delete(n) \/ DeleteRevoke(n) \/ LocalAgent(n) \/ Silence(n)
      PROVE Consent'
  BY <1>6 DEF Revoke, Delete, DeleteRevoke, LocalAgent, Silence, Consent
<1>7. ASSUME Restart PROVE Consent'
  <2>1. \A k \in Nodes : h'[k] = "idle" /\ snap'[k] = None
    BY <1>7 DEF Restart
  <2>2. /\ valid' = disk.valid /\ registry' = {} /\ adminSnap' = None
        /\ UNCHANGED <<disk, consented>>
    BY <1>7 DEF Restart
  <2> QED
    BY <2>1, <2>2 DEF Consent
<1>8. ASSUME UNCHANGED vars PROVE Consent'
  BY <1>8 DEF vars, Consent
<1> QED
  BY <1>1, <1>2, <1>3, <1>4, <1>5, <1>6, <1>7, <1>8 DEF Next

\* Nobody is in the registry, and nobody's token is valid, in memory or on the
\* disk, whom is_permitted never let in.
THEOREM OnlyWithConsent == Spec => []ConsentedOnly
<1>1. Init => Consent
  BY NoneAssumption DEF Init, Now, Consent, ConsentedOnly, SavedTokens, LetIn
<1>2. TypeOK /\ Saving /\ Consent /\ [Next]_vars => (TypeOK /\ Saving /\ Consent)'
  BY TypeStep, SavingStep, ConsentStep
<1>3. Spec => [](TypeOK /\ Saving /\ Consent)
  BY TypeInit, <1>1, <1>2, PTL DEF Spec
<1>4. Consent => ConsentedOnly
  BY DEF Consent
<1> QED
  BY <1>3, <1>4, PTL

----------------------------------------------------------------------------
(* Every request ends, and the agent that waits for it hears.               *)

\* An agent that waits has its own request under way, and one that sends heartbeats
\* has a token: nobody waits for a reply that was lost or given to another.
WaitsForReply ==
  \A n \in Nodes :
    /\ agent[n] = "joining" => h[n] \in RegSteps
    /\ agent[n] = "beating" => h[n] \in HbSteps
    /\ agent[n] \in {"beat", "beating"} => n \in holds

\* The agents at work on nothing of n.
OthersLeave(n) == h'[n] = h[n] /\ agent'[n] = agent[n] /\ (n \in holds' <=> n \in holds)

\* What an agent does by itself: ask, give up, die and start.
LEMMA AgentMoves ==
  ASSUME TypeOK, NEW k \in Nodes, Ask(k) \/ GiveUp(k) \/ Die(k) \/ Start(k)
  PROVE  /\ \A n \in Nodes \ {k} : OthersLeave(n)
         /\ holds' = holds
         /\ Ask(k) => \/ agent[k] = "join" /\ agent'[k] = "joining"
                         /\ h[k] = "idle" /\ h'[k] = "check"
                      \/ agent[k] = "beat" /\ agent'[k] = "beating"
                         /\ h[k] = "idle" /\ h'[k] = "auth"
         /\ GiveUp(k) => h' = h /\ agent'[k] = Again(k)
         /\ Die(k) => h' = h /\ agent'[k] = "off"
         /\ Start(k) => h' = h /\ agent[k] = "off" /\ agent'[k] = Again(k)
<1> USE DEF TypeOK, OthersLeave, agentVars, reqVars
<1>1. CASE Ask(k)
  BY <1>1 DEF Ask, GiveUp, Die, Start, Again, Waiting
<1>2. CASE GiveUp(k)
  BY <1>2 DEF Ask, GiveUp, Die, Start, Again, Waiting
<1>3. CASE Die(k)
  BY <1>3 DEF Ask, GiveUp, Die, Start, Again, Waiting
<1>4. CASE Start(k)
  BY <1>4 DEF Ask, GiveUp, Die, Start, Again, Waiting
<1> QED
  BY <1>1, <1>2, <1>3, <1>4

\* The steps of a registration, as its agent sees them: on to the next one, or a reply.
RegMoves(k) ==
  \/ /\ h[k] = "check" /\ Verdict(k) = "yes"     /\ h'[k] = "local"
     /\ agent'[k] = agent[k]
  \/ /\ h[k] = "check" /\ Verdict(k) = "pending" /\ h'[k] = "queue"
     /\ agent'[k] = agent[k]
  \/ /\ h[k] = "check" /\ Verdict(k) = "no" /\ h'[k] = "idle"
     /\ agent'[k] = IF agent[k] \in Waiting THEN "join" ELSE agent[k]
  \/ /\ <<h[k], h'[k]>> \in {<<"queue", "save">>, <<"issue", "add">>, <<"save", "write">>}
     /\ agent'[k] = agent[k]
  \/ /\ h[k] = "local" /\ k \notin localHosts /\ h'[k] = "issue" /\ agent'[k] = agent[k]
  \/ /\ h[k] = "local" /\ k \in localHosts /\ h'[k] = "idle"
     /\ agent'[k] = IF agent[k] \in Waiting THEN "join" ELSE agent[k]
  \/ /\ h[k] = "add" /\ h'[k] = "save" /\ k \in registry' /\ agent'[k] = agent[k]
  \/ /\ h[k] = "write" /\ h'[k] = "idle"
     /\ agent'[k] \in IF agent[k] \in Waiting THEN {"join", "beat"} ELSE {agent[k]}

\* A registration takes one of its steps, and touches no other agent.
LEMMA RegStepMoves ==
  ASSUME TypeOK, NEW k \in Nodes,
         \/ RegCheck(k) \/ RegQueue(k) \/ RegLocal(k) \/ RegIssue(k)
         \/ RegAdd(k) \/ RegSave(k) \/ RegReply(k)
  PROVE  /\ RegMoves(k)
         /\ \A n \in Nodes \ {k} : OthersLeave(n)
         /\ k \in holds => k \in holds'
         /\ h[k] = "write" /\ agent'[k] = "beat" /\ agent[k] # "beat" => k \in holds'
<1> USE DEF TypeOK, OthersLeave, RegMoves, agentVars, GoTo, Reply, Waiting
<1>1. CASE RegCheck(k)
  BY <1>1 DEF RegCheck
<1>2. CASE RegQueue(k)
  BY <1>2 DEF RegQueue
<1>3. CASE RegLocal(k)
  BY <1>3 DEF RegLocal
<1>4. CASE RegIssue(k)
  BY <1>4 DEF RegIssue
<1>5. CASE RegAdd(k)
  BY <1>5 DEF RegAdd
<1>6. CASE RegSave(k)
  BY <1>6 DEF RegSave
<1>7. CASE RegReply(k)
  BY <1>7 DEF RegReply
<1> QED
  BY <1>1, <1>2, <1>3, <1>4, <1>5, <1>6, <1>7

\* The steps of a heartbeat, as its agent sees them.
HbMoves(k) ==
  \/ /\ <<h[k], h'[k]>> \in {<<"auth", "seen">>, <<"seen", "reply">>}
     /\ h[k] = "seen" => k \in registry
     /\ agent'[k] = agent[k]
  \/ /\ h[k] = "seen" /\ h'[k] = "readmit" /\ agent'[k] = agent[k]
  \/ /\ h[k] = "readmit" /\ k \notin localHosts /\ h'[k] = "reply" /\ k \in registry'
     /\ agent'[k] = agent[k]
  \/ /\ h[k] = "auth" /\ h'[k] = "idle"
     /\ agent'[k] = IF agent[k] \in Waiting THEN "join" ELSE agent[k]
  \/ /\ h[k] = "readmit" /\ k \in localHosts /\ h'[k] = "idle"
     /\ agent'[k] = IF agent[k] \in Waiting THEN "beat" ELSE agent[k]
  \/ /\ h[k] = "reply" /\ h'[k] = "idle"
     /\ agent'[k] = IF agent[k] \in Waiting THEN "beat" ELSE agent[k]

\* A heartbeat takes one of its steps, and touches no other agent.
LEMMA HbStepMoves ==
  ASSUME TypeOK, NEW k \in Nodes,
         HbAuth(k) \/ HbSeen(k) \/ HbReadmit(k) \/ HbReply(k)
  PROVE  /\ HbMoves(k)
         /\ \A n \in Nodes \ {k} : OthersLeave(n)
         /\ \/ k \in holds => k \in holds'
            \/ h[k] = "auth" /\ agent'[k] # "beat" /\ agent'[k] # "beating"
<1> USE DEF TypeOK, OthersLeave, HbMoves, agentVars, GoTo, Reply, Waiting
<1>1. CASE HbAuth(k)
  BY <1>1 DEF HbAuth
<1>2. CASE HbSeen(k)
  BY <1>2 DEF HbSeen
<1>3. CASE HbReadmit(k)
  BY <1>3 DEF HbReadmit
<1>4. CASE HbReply(k)
  BY <1>4 DEF HbReply
<1> QED
  BY <1>1, <1>2, <1>3, <1>4

\* What moves neither an agent nor a request.
Elsewhere ==
  \/ SetAccess \/ AdminSave \/ AdminWrite \/ Reap
  \/ \E n \in Nodes : Revoke(n) \/ Delete(n) \/ DeleteRevoke(n) \/ LocalAgent(n) \/ Silence(n)
  \/ UNCHANGED vars

\* The administrator, the reaper and time leave the agents and their requests alone.
LEMMA ElsewhereStays == Elsewhere => UNCHANGED <<h, agent, holds>>
<1> USE DEF reqVars, agentVars
<1>1. ASSUME SetAccess \/ AdminSave \/ AdminWrite \/ Reap PROVE UNCHANGED <<h, agent, holds>>
  BY <1>1 DEF SetAccess, AdminSave, AdminWrite, Reap
<1>2. ASSUME NEW n \in Nodes,
             Revoke(n) \/ Delete(n) \/ DeleteRevoke(n) \/ LocalAgent(n) \/ Silence(n)
      PROVE  UNCHANGED <<h, agent, holds>>
  BY <1>2 DEF Revoke, Delete, DeleteRevoke, LocalAgent, Silence
<1>3. ASSUME UNCHANGED vars PROVE UNCHANGED <<h, agent, holds>>
  BY <1>3 DEF vars
<1> QED
  BY <1>1, <1>2, <1>3 DEF Elsewhere

\* Every step is of one of these kinds.
LEMMA Kinds ==
  ASSUME [Next]_vars
  PROVE  \/ \E k \in Nodes : Ask(k) \/ GiveUp(k) \/ Die(k) \/ Start(k)
         \/ \E k \in Nodes : \/ RegCheck(k) \/ RegQueue(k) \/ RegLocal(k) \/ RegIssue(k)
                             \/ RegAdd(k) \/ RegSave(k) \/ RegReply(k)
         \/ \E k \in Nodes : HbAuth(k) \/ HbSeen(k) \/ HbReadmit(k) \/ HbReply(k)
         \/ Elsewhere
         \/ Restart
  BY DEF Next, Request, Elsewhere

\* Nobody is left waiting: agents and requests keep step.
LEMMA WaitsStep == TypeOK /\ WaitsForReply /\ [Next]_vars => WaitsForReply'
<1> SUFFICES ASSUME TypeOK, WaitsForReply, [Next]_vars PROVE WaitsForReply'
  OBVIOUS
<1> DEFINE Fits(n, s, a, t) == /\ a = "joining" => s \in RegSteps
                               /\ a = "beating" => s \in HbSteps
                               /\ a \in {"beat", "beating"} => t
<1>0. ASSUME \A n \in Nodes : Fits(n, h'[n], agent'[n], n \in holds') PROVE WaitsForReply'
  BY <1>0 DEF WaitsForReply
<1>1. \A n \in Nodes : /\ Fits(n, h[n], agent[n], n \in holds)
                       /\ h[n] \in {"idle"} \cup RegSteps \cup HbSteps
                       /\ agent[n] \in {"join", "joining", "beat", "beating", "off"}
  BY DEF WaitsForReply, TypeOK
<1>2. \A n \in Nodes : OthersLeave(n) => Fits(n, h'[n], agent'[n], n \in holds')
  BY <1>1 DEF OthersLeave
<1>3. ASSUME NEW k \in Nodes, Ask(k) \/ GiveUp(k) \/ Die(k) \/ Start(k)
      PROVE  WaitsForReply'
  <2>1. Fits(k, h'[k], agent'[k], k \in holds')
    BY <1>1, <1>3, AgentMoves DEF Again, RegSteps, HbSteps
  <2> QED
    BY <1>0, <1>2, <1>3, <2>1, AgentMoves
<1>4. ASSUME NEW k \in Nodes,
             \/ RegCheck(k) \/ RegQueue(k) \/ RegLocal(k) \/ RegIssue(k)
             \/ RegAdd(k) \/ RegSave(k) \/ RegReply(k)
      PROVE  WaitsForReply'
  <2>1. Fits(k, h'[k], agent'[k], k \in holds')
    BY <1>1, <1>4, RegStepMoves DEF RegMoves, RegSteps, HbSteps, Waiting
  <2> QED
    BY <1>0, <1>2, <1>4, <2>1, RegStepMoves
<1>5. ASSUME NEW k \in Nodes, HbAuth(k) \/ HbSeen(k) \/ HbReadmit(k) \/ HbReply(k)
      PROVE  WaitsForReply'
  <2>1. Fits(k, h'[k], agent'[k], k \in holds')
    BY <1>1, <1>5, HbStepMoves DEF HbMoves, RegSteps, HbSteps, Waiting
  <2> QED
    BY <1>0, <1>2, <1>5, <2>1, HbStepMoves
<1>6. ASSUME Elsewhere PROVE WaitsForReply'
  BY <1>6, ElsewhereStays DEF WaitsForReply
<1>7. ASSUME Restart PROVE WaitsForReply'
  <2>1. \A n \in Nodes : Fits(n, h'[n], agent'[n], n \in holds')
    BY <1>1, <1>7 DEF Restart, Again, Waiting
  <2> QED
    BY <1>0, <2>1
<1> QED
  BY <1>3, <1>4, <1>5, <1>6, <1>7, Kinds

MemberInv == TypeOK /\ Saving /\ WaitsForReply

\* Types, saves and waiting agents together are inductive.
LEMMA MemberInvariant == Spec => []MemberInv
<1>1. Init => WaitsForReply
  BY DEF Init, WaitsForReply
<1>2. MemberInv /\ [Next]_vars => MemberInv'
  BY TypeStep, SavingStep, WaitsStep DEF MemberInv
<1>3. Init => MemberInv
  BY <1>1, TypeInit DEF MemberInv
<1> QED
  BY <1>2, <1>3, PTL DEF Spec

\* No agent waits for a reply that will not come: through lost replies, agents that
\* die and come back, and restarts of nCore, an agent that waits has a request of its
\* own kind under way, and one that sends heartbeats has a token.
THEOREM NobodyWaitsInVain == Spec => []WaitsForReply
  BY MemberInvariant, PTL DEF MemberInv

\* How many steps a request has left at most.
RequestLeft(s) ==
  CASE s = "check"                    -> 6
    [] s = "local"                    -> 5
    [] s \in {"issue", "auth"}        -> 4
    [] s \in {"queue", "add", "seen"} -> 3
    [] s \in {"save", "readmit"}      -> 2
    [] s \in {"write", "reply"}       -> 1
    [] OTHER                          -> 0

\* A request only goes on to its end, and starts again only when its agent asks: six
\* steps at most, whatever its agent, the others or the administrator do meanwhile.
MembersMoveOn ==
  \A n \in Nodes :
    \/ h'[n] = h[n]
    \/ RequestLeft(h'[n]) < RequestLeft(h[n])
    \/ h[n] = "idle" /\ Ask(n)

\* Every step of a request brings it nearer to its reply.
LEMMA MoveStep == MemberInv /\ [Next]_vars => MembersMoveOn
<1> SUFFICES ASSUME MemberInv, [Next]_vars PROVE MembersMoveOn
  OBVIOUS
<1> USE DEF MemberInv
<1>1. ASSUME NEW k \in Nodes, Ask(k) \/ GiveUp(k) \/ Die(k) \/ Start(k)
      PROVE  MembersMoveOn
  <2>1. \A n \in Nodes \ {k} : h'[n] = h[n]
    BY <1>1, AgentMoves DEF OthersLeave
  <2>2. \/ h'[k] = h[k]
        \/ h[k] = "idle" /\ Ask(k)
    BY <1>1, AgentMoves
  <2> QED
    BY <2>1, <2>2 DEF MembersMoveOn
<1>2. ASSUME NEW k \in Nodes,
             \/ RegCheck(k) \/ RegQueue(k) \/ RegLocal(k) \/ RegIssue(k)
             \/ RegAdd(k) \/ RegSave(k) \/ RegReply(k)
      PROVE  MembersMoveOn
  <2>1. \A n \in Nodes \ {k} : h'[n] = h[n]
    BY <1>2, RegStepMoves DEF OthersLeave
  <2>2. \/ h[k] = "check" /\ h'[k] \in {"local", "queue", "idle"}
        \/ h[k] = "queue" /\ h'[k] = "save"
        \/ h[k] = "issue" /\ h'[k] = "add"
        \/ h[k] = "save" /\ h'[k] = "write"
        \/ h[k] = "local" /\ h'[k] \in {"issue", "idle"}
        \/ h[k] = "add" /\ h'[k] = "save"
        \/ h[k] = "write" /\ h'[k] = "idle"
    BY <1>2, RegStepMoves DEF RegMoves
  <2>3. RequestLeft(h'[k]) < RequestLeft(h[k])
    BY <2>2 DEF RequestLeft
  <2> QED
    BY <2>1, <2>3 DEF MembersMoveOn
<1>3. ASSUME NEW k \in Nodes, HbAuth(k) \/ HbSeen(k) \/ HbReadmit(k) \/ HbReply(k)
      PROVE  MembersMoveOn
  <2>1. \A n \in Nodes \ {k} : h'[n] = h[n]
    BY <1>3, HbStepMoves DEF OthersLeave
  <2>2. RequestLeft(h'[k]) < RequestLeft(h[k])
    BY <1>3, HbStepMoves DEF HbMoves, RequestLeft
  <2> QED
    BY <2>1, <2>2 DEF MembersMoveOn
<1>4. ASSUME Elsewhere PROVE MembersMoveOn
  BY <1>4, ElsewhereStays DEF MembersMoveOn
<1>5. ASSUME Restart PROVE MembersMoveOn
  <2>1. \A n \in Nodes : h'[n] = "idle" /\ h[n] \in {"idle"} \cup RegSteps \cup HbSteps
    BY <1>5 DEF Restart, TypeOK
  <2>2. \A n \in Nodes : h'[n] = h[n] \/ RequestLeft(h'[n]) < RequestLeft(h[n])
    BY <2>1 DEF RequestLeft, RegSteps, HbSteps
  <2> QED
    BY <2>2 DEF MembersMoveOn
<1> QED
  BY <1>1, <1>2, <1>3, <1>4, <1>5, Kinds

\* Every registration and every heartbeat comes to its end: a request never goes back
\* to a step it has left, and six steps of its own are the most it takes.
THEOREM EveryRequestEnds == Spec => [][MembersMoveOn]_vars
<1>1. MemberInv /\ [Next]_vars => [MembersMoveOn]_vars
  BY MoveStep
<1> QED
  BY MemberInvariant, <1>1, PTL DEF Spec

----------------------------------------------------------------------------
(* A node that is permitted comes back.                                     *)

\* The node is not registered though nothing keeps it out.
Out(n) == Verdict(n) = "yes" /\ n \notin localHosts \cup registry /\ agent[n] # "off"

\* How many steps of its own, at most, until such a node is registered: a heartbeat
\* whose token is refused, or a reply to a registration that has been undone, still
\* comes before the registration that counts.
StepsAway(s, a) ==
  CASE s = "idle"               -> IF a = "beat" THEN 7 ELSE 5
    [] s = "auth"               -> IF a = "beat" THEN 8 ELSE 6
    [] s = "check"              -> 4
    [] s = "local"              -> 3
    [] s \in {"issue", "seen"}  -> 2
    [] s \in {"add", "readmit"} -> 1
    [] s \in {"reply", "write"} -> 8
    [] s = "save"               -> 9
    [] OTHER                    -> 10

\* Unless the agent gives up or nCore restarts, each step of a node that is out brings
\* it nearer to the registry, and nothing takes it farther: revoked tokens, deletions,
\* reaps, changes of the lists and the requests of other nodes included.
ComingBack ==
  \A n \in Nodes :
    Out(n) /\ agent'[n] # "off" /\ ~GiveUp(n) /\ ~Restart =>
      \/ n \in registry'
      \/ StepsAway(h'[n], agent'[n]) < StepsAway(h[n], agent[n])
      \/ h'[n] = h[n] /\ agent'[n] = agent[n]

\* Each step of a node that is out brings it nearer to the registry.
LEMMA BackStep == MemberInv /\ [Next]_vars => ComingBack
<1> SUFFICES ASSUME MemberInv, [Next]_vars, NEW n \in Nodes,
                    Out(n), agent'[n] # "off", ~GiveUp(n), ~Restart
             PROVE  \/ n \in registry'
                    \/ StepsAway(h'[n], agent'[n]) < StepsAway(h[n], agent[n])
                    \/ h'[n] = h[n] /\ agent'[n] = agent[n]
  BY DEF ComingBack
<1> DEFINE Nearer == \/ n \in registry'
                     \/ StepsAway(h'[n], agent'[n]) < StepsAway(h[n], agent[n])
<1>1. /\ agent[n] = "joining" => h[n] \in RegSteps
      /\ agent[n] = "beating" => h[n] \in HbSteps
      /\ agent[n] \in {"join", "joining", "beat", "beating"}
      /\ Verdict(n) = "yes" /\ n \notin localHosts /\ n \notin registry
  BY DEF MemberInv, WaitsForReply, TypeOK, Out
<1>2. OthersLeave(n) => h'[n] = h[n] /\ agent'[n] = agent[n]
  BY DEF OthersLeave
<1>3. ASSUME Ask(n) \/ Die(n) \/ Start(n) PROVE Nearer
  <2>1. Ask(n)
    BY <1>1, <1>3, AgentMoves DEF MemberInv
  <2> QED
    BY <2>1, AgentMoves DEF MemberInv, StepsAway
<1>4. ASSUME \/ RegCheck(n) \/ RegQueue(n) \/ RegLocal(n) \/ RegIssue(n)
             \/ RegAdd(n) \/ RegSave(n) \/ RegReply(n)
      PROVE  Nearer
  <2>1. RegMoves(n)
    BY <1>4, RegStepMoves DEF MemberInv
  <2> QED
    BY <1>1, <2>1 DEF RegMoves, StepsAway, RegSteps, HbSteps, Waiting
<1>5. ASSUME HbAuth(n) \/ HbSeen(n) \/ HbReadmit(n) \/ HbReply(n) PROVE Nearer
  <2>1. HbMoves(n)
    BY <1>5, HbStepMoves DEF MemberInv
  <2> QED
    BY <1>1, <2>1 DEF HbMoves, StepsAway, RegSteps, HbSteps, Waiting
<1>6. ASSUME NEW k \in Nodes \ {n}, Ask(k) \/ GiveUp(k) \/ Die(k) \/ Start(k)
      PROVE  OthersLeave(n)
  BY <1>6, AgentMoves DEF MemberInv
<1>7. ASSUME NEW k \in Nodes \ {n},
             \/ RegCheck(k) \/ RegQueue(k) \/ RegLocal(k) \/ RegIssue(k)
             \/ RegAdd(k) \/ RegSave(k) \/ RegReply(k)
      PROVE  OthersLeave(n)
  BY <1>7, RegStepMoves DEF MemberInv
<1>8. ASSUME NEW k \in Nodes \ {n}, HbAuth(k) \/ HbSeen(k) \/ HbReadmit(k) \/ HbReply(k)
      PROVE  OthersLeave(n)
  BY <1>8, HbStepMoves DEF MemberInv
<1>9. ASSUME Elsewhere PROVE h'[n] = h[n] /\ agent'[n] = agent[n]
  BY <1>9, ElsewhereStays
<1>10. Nearer \/ OthersLeave(n) \/ Elsewhere
  BY <1>3, <1>4, <1>5, <1>6, <1>7, <1>8, Kinds
<1> QED
  BY <1>2, <1>9, <1>10

\* A permitted node that runs and is not registered comes nearer to the registry with
\* every step of its own, ten at most, as long as its agent waits for the replies and
\* nCore is up.
THEOREM ThePermittedComeBack == Spec => [][ComingBack]_vars
<1>1. MemberInv /\ [Next]_vars => [ComingBack]_vars
  BY BackStep
<1> QED
  BY MemberInvariant, <1>1, PTL DEF Spec

----------------------------------------------------------------------------
(* A node that cannot be heard fades.                                       *)

\* A node none of whose requests can reach its entry neither enters the registry nor is
\* seen again in it: what is left to happen is that the reaper takes it.
GhostsFade ==
  \A n \in Nodes :
    ~CanBeat(n) => /\ n \in registry' => n \in registry
                   /\ n \in quiet \cap registry' => n \in quiet'

\* Only a request that passed its check registers its node or hears from it.
LEMMA FadeStep == TypeOK /\ [Next]_vars => GhostsFade
<1> SUFFICES ASSUME TypeOK, [Next]_vars, NEW n \in Nodes, ~CanBeat(n)
             PROVE  /\ n \in registry' => n \in registry
                    /\ n \in quiet \cap registry' => n \in quiet'
  BY DEF GhostsFade
<1> DEFINE Fades == /\ n \in registry' => n \in registry
                    /\ n \in quiet \cap registry' => n \in quiet'
<1>1. ASSUME NEW k \in Nodes, Ask(k) \/ GiveUp(k) \/ Die(k) \/ Start(k) PROVE Fades
  BY <1>1 DEF Ask, GiveUp, Die, Start
<1>2. ASSUME NEW k \in Nodes,
             \/ RegCheck(k) \/ RegQueue(k) \/ RegLocal(k) \/ RegIssue(k)
             \/ RegSave(k) \/ RegReply(k) \/ HbAuth(k) \/ HbReply(k)
      PROVE  Fades
  BY <1>2 DEF RegCheck, RegQueue, RegLocal, RegIssue, RegSave, RegReply, HbAuth, HbReply
<1>3. ASSUME NEW k \in Nodes, RegAdd(k) \/ HbSeen(k) \/ HbReadmit(k) PROVE Fades
  <2>1. CASE k # n
    BY <1>3, <2>1 DEF RegAdd, HbSeen, HbReadmit
  <2>2. CASE k = n
    <3>1. HbReadmit(n) /\ n \in localHosts
      BY <1>3, <2>2 DEF RegAdd, HbSeen, HbReadmit, CanBeat
    <3> QED
      BY <3>1 DEF HbReadmit
  <2> QED
    BY <2>1, <2>2
<1>4. ASSUME SetAccess \/ AdminSave \/ AdminWrite \/ Reap \/ Restart PROVE Fades
  BY <1>4 DEF SetAccess, AdminSave, AdminWrite, Reap, Restart
<1>5. ASSUME NEW k \in Nodes,
             Revoke(k) \/ Delete(k) \/ DeleteRevoke(k) \/ LocalAgent(k) \/ Silence(k)
      PROVE  Fades
  BY <1>5 DEF Revoke, Delete, DeleteRevoke, LocalAgent, Silence
<1>6. ASSUME UNCHANGED vars PROVE Fades
  BY <1>6 DEF vars
<1> QED
  BY <1>1, <1>2, <1>3, <1>4, <1>5, <1>6 DEF Next, Request

\* A node without a valid token, as one that was deleted while its heartbeat was being
\* answered, can only leave the registry, also while its agent runs and goes on sending
\* heartbeats with a dead token or registrations that are refused.
THEOREM GhostsOnlyFade == Spec => [][GhostsFade]_vars
<1>1. TypeOK /\ [Next]_vars => [GhostsFade]_vars
  BY FadeStep
<1> QED
  BY TypeCorrect, <1>1, PTL DEF Spec
=============================================================================
