----------------------------- MODULE Pairing_proofs -----------------------------
(***************************************************************************)
(* Proofs about Pairing: for any number of requests, lost answers, outages *)
(* and restarts, a registered node and its agent hold the same token, and  *)
(* the state file is whole, as long as no two pairings or saves overlap;   *)
(* overlapping or not, every request ends, and a silent node whose agent   *)
(* has another token stays silent.                                         *)
(***************************************************************************)
EXTENDS Pairing, TLAPS

\* What a request has done before it has begun, and what a deletion tells the agent.
Begun ==
  \A r \in Requests : /\ at[r] = "idle" => call[r] = "none"
                      /\ at[r] \in {"idle", "pair"} => held[r] = NoToken
                      /\ call[r] = "auth" => held[r] # NoToken

\* A request that has yet to register its token.
Fresh(r) == at[r] \in {"idle", "pair"} \/ call[r] \in {"check", "set", "keep", "paired"}

\* Nobody else in nCore knows that token.
Unknown ==
  \A r \in Requests : Fresh(r) => /\ r \notin {nodeTok, file, tmp}
                                  /\ \A q \in Requests : held[q] # r
                                  /\ \A s \in Savers : snap[s] # r

\* A save between its collection and its move, and what it will leave in the file.
Writing(s) == at[s] \in {"open", "write", "move"}
Carried(s) == IF at[s] = "move" THEN tmp ELSE snap[s]

\* Without overlap there is one save at a time; it alone writes the temporary file.
OneSave ==
  ~saveClash =>
    /\ file \in Tokens
    /\ \A s, q \in Savers : Writing(s) /\ Writing(q) => s = q
    /\ \A s \in Savers : /\ at[s] = "write" => tmp = Empty /\ into[s] = "tmp"
                         /\ at[s] = "move" => tmp \in Tokens

\* What is registered is on the disk, or on its way there.
Reaches ==
  ~saveClash =>
    \/ \E s \in Savers : at[s] = "collect"
    \/ \E s \in Savers : Writing(s) /\ Carried(s) = nodeTok
    \/ file = nodeTok /\ \A s \in Savers : ~Writing(s)

\* A deletion from the removal of the node to the moment its token is compared.
Past(q) == held[q] # NoToken
           /\ (at[q] \in {"collect", "open", "write", "move", "saved"} \/ call[q] = "auth")
Collected(q) == held[q] # NoToken
                /\ (at[q] \in {"open", "write", "move", "saved"} \/ call[q] = "auth")
Saved(q) == held[q] # NoToken /\ (at[q] = "saved" \/ call[q] = "auth")

\* A token that was deleted does not come back: neither is it registered again nor is
\* it, once the deletion is saved, in the file.
NotBack ==
  ~saveClash =>
    \A q \in Requests :
      /\ Past(q) => held[q] # nodeTok
      /\ Collected(q) => \A s \in Savers : Writing(s) => Carried(s) # held[q]
      /\ Saved(q) => held[q] # file

\* What the agent does at the moment of a call.
Pairs(r) == call[r] \in {"set", "keep", "paired"}
Busy(r) == call[r] \in {"set", "keep", "paired", "clear", "forget"}

\* nCore neither knows a node nor is about to restore one.
Quiet == /\ nodeTok = NoToken /\ file = NoToken
         /\ \A s \in Savers : Writing(s) => Carried(s) = NoToken

\* The agent has the token of every node nCore knows or may restore, in memory and in
\* its file.
Agrees(x) == x # NoToken => x = agentTok /\ x = config

\* Calls that change the agent exclude one another; while one does, nCore knows no
\* node; and of two deletions only one can have the token of the agent.
Synced ==
  ~pairClash /\ ~saveClash =>
    /\ Agrees(nodeTok) /\ Agrees(file)
    /\ \A s \in Savers : Writing(s) => Agrees(Carried(s))
    /\ \A r, q \in Requests : Busy(r) /\ Busy(q) => r = q
    /\ (\A r \in Requests : call[r] \notin {"keep", "forget"}) => config = agentTok
    /\ \A r \in Requests :
         /\ call[r] \in {"set", "forget"} => agentTok = NoToken
         /\ call[r] \in {"keep", "paired"} => agentTok = r
         /\ call[r] = "keep" => config = NoToken
         /\ Busy(r) => Quiet
         /\ call[r] = "clear" => /\ agentTok # NoToken
                                 /\ \A q \in Requests : Past(q) => held[q] # agentTok
    /\ \A r, q \in Requests : r # q /\ Past(r) /\ Past(q) /\ held[r] = held[q]
                              => held[r] \notin {agentTok, config}

\* The inductive invariant.
PairInv == PairingTypeOK /\ Begun /\ Unknown /\ OneSave /\ Reaches /\ NotBack /\ Synced

----------------------------------------------------------------------------
(* The invariant holds at first.                                            *)

\* At first nCore, its file and the agent agree on the token of an earlier pairing, or on none.
LEMMA PairInit == PairingInit => PairInv
<1> SUFFICES ASSUME PairingInit PROVE PairInv
  OBVIOUS
<1> USE DEF PairingInit
<1>1. PairingTypeOK
  <2>1. agentTok \in Tokens /\ config = agentTok /\ nodeTok = agentTok /\ file = agentTok
        /\ NoToken \in Tokens
    BY DEF Tokens
  <2>2. agentTok \in Contents \ {Gone} /\ tmp \in Contents
    BY <2>1, PairingAssumption DEF Contents
  <2>3. pairFaults \in 0..MaxPairFaults
    BY PairingAssumption
  <2>4. /\ held \in [Requests -> Tokens]
        /\ snap \in [Savers -> Tokens] /\ into \in [Savers -> {"none", "tmp", "file", "gone"}]
    BY <2>1
  <2> QED
    BY <2>1, <2>2, <2>3, <2>4 DEF PairingTypeOK
<1>2. Begun
  BY DEF Begun, Savers
<1>3. Unknown
  <2>1. \A r \in Requests : r # NoToken /\ r # Old /\ r # Gone
    BY PairingAssumption DEF Requests, Old, Tokens
  <2> QED
    BY <2>1 DEF Unknown
<1>4. OneSave /\ Reaches
  BY DEF OneSave, Reaches, Writing, Tokens
<1>5. NotBack
  BY DEF NotBack, Past, Collected, Saved
<1>6. Synced
  BY DEF Synced, Agrees, Busy, Past, Writing
<1> QED
  BY <1>1, <1>2, <1>3, <1>4, <1>5, <1>6 DEF PairInv

----------------------------------------------------------------------------
(* And after every step.                                                    *)

\* Types.
LEMMA TypeStep ==
  ASSUME PairInv, [PairingNext]_pairingVars
  PROVE  PairingTypeOK'
<1> USE DEF PairingTypeOK, Tokens, Contents, Savers, Old
<1>0. PairingTypeOK /\ Begun
  BY DEF PairInv
<1>1. ASSUME NEW r \in Requests, PushAdd(r) PROVE PairingTypeOK'
  BY <1>0, <1>1, PairingAssumption DEF PushAdd, Step, Calls, Begins, saveVars
<1>2. ASSUME NEW r \in Requests, PushPaired(r) PROVE PairingTypeOK'
  <2>1. r \in Tokens
    OBVIOUS
  <2>2. call' \in [Requests -> {"none", "check", "set", "keep", "paired", "refused",
                           "auth", "clear", "forget", "told"}]
    BY <1>0, <1>2 DEF PushPaired
  <2>3. nodeTok' \in Tokens /\ silent' \in BOOLEAN
    BY <1>0, <1>2, <2>1 DEF PushPaired
  <2>4. at' \in [Savers -> {"idle", "pair", "remove", "collect", "open", "write", "move",
                           "saved", "unpair", "done"}]
    BY <1>0, <1>2 DEF PushPaired, Step
  <2> HIDE DEF Tokens
  <2> QED
    BY <1>0, <1>2, <2>2, <2>3, <2>4 DEF PushPaired, saveVars
<1>3. ASSUME NEW r \in Requests, GiveUpCall(r) PROVE PairingTypeOK'
  <2>1. call' \in [Requests -> {"none", "check", "set", "keep", "paired", "refused",
                           "auth", "clear", "forget", "told"}]
    BY <1>0, <1>3 DEF GiveUpCall
  <2>2. pairFaults' \in 0..MaxPairFaults
    BY <1>0, <1>3, PairingAssumption DEF GiveUpCall, PairFault
  <2> QED
    BY <1>0, <1>3, <2>1, <2>2 DEF GiveUpCall, Step, saveVars
<1>4. ASSUME NEW r \in Requests, DeleteNode(r) PROVE PairingTypeOK'
  BY <1>0, <1>4, PairingAssumption DEF DeleteNode, Step, Begins, saveVars, agentVars
<1>5. ASSUME NEW r \in Requests, RemoveNode(r) PROVE PairingTypeOK'
  BY <1>0, <1>5, PairingAssumption DEF RemoveNode, Step, saveVars, agentVars
<1>6. ASSUME NEW r \in Requests, TellAgent(r) PROVE PairingTypeOK'
  BY <1>0, <1>6, PairingAssumption DEF TellAgent, Step, Calls, saveVars
<1>7. ASSUME NEW r \in Requests, Told(r) PROVE PairingTypeOK'
  BY <1>0, <1>7, PairingAssumption DEF Told, Step, Calls, saveVars
<1>8. ASSUME NEW r \in Requests, PairCheck(r) PROVE PairingTypeOK'
  <2>1. call' \in [Requests -> {"none", "check", "set", "keep", "paired", "refused",
                           "auth", "clear", "forget", "told"}]
    BY <1>0, <1>8 DEF PairCheck, Calls, Ends
  <2>2. pairClash' \in BOOLEAN
    BY <1>0, <1>8 DEF PairCheck
  <2> QED
    BY <1>0, <1>8, <2>1, <2>2 DEF PairCheck, saveVars, ncoreVars
<1>9. ASSUME NEW r \in Requests, PairSet(r) PROVE PairingTypeOK'
  BY <1>0, <1>9, PairingAssumption DEF PairSet, Calls, saveVars, ncoreVars
<1>10. ASSUME NEW r \in Requests, PairKeep(r) PROVE PairingTypeOK'
  BY <1>0, <1>10, PairingAssumption DEF PairKeep, Calls, Ends, saveVars, ncoreVars
<1>11. ASSUME NEW r \in Requests, UnpairAuth(r) PROVE PairingTypeOK'
  BY <1>0, <1>11, PairingAssumption DEF UnpairAuth, Calls, Ends, saveVars, ncoreVars
<1>12. ASSUME NEW r \in Requests, UnpairClear(r) PROVE PairingTypeOK'
  BY <1>0, <1>12, PairingAssumption DEF UnpairClear, Calls, saveVars, ncoreVars
<1>13. ASSUME NEW r \in Requests, UnpairForget(r) PROVE PairingTypeOK'
  BY <1>0, <1>13, PairingAssumption DEF UnpairForget, Calls, Ends, saveVars, ncoreVars
<1>14. ASSUME NEW s \in Savers, Collect(s) PROVE PairingTypeOK'
  BY <1>0, <1>14, PairingAssumption DEF Collect, Step, agentVars, restVars
<1>15. ASSUME NEW s \in Savers, Open(s) PROVE PairingTypeOK'
  BY <1>0, <1>15, PairingAssumption DEF Open, Step, agentVars, restVars
<1>16. ASSUME NEW s \in Savers, Write(s) PROVE PairingTypeOK'
  BY <1>0, <1>16, PairingAssumption DEF Write, Step, agentVars, restVars, WriteOver
<1>17. ASSUME NEW s \in Savers, Move(s) PROVE PairingTypeOK'
  BY <1>0, <1>17, PairingAssumption DEF Move, Step, agentVars, restVars
<1>18. CASE AgentRestarts
  BY <1>0, <1>18, PairingAssumption DEF AgentRestarts, PairFault, saveVars
<1>19. CASE Polled
  BY <1>0, <1>19, PairingAssumption DEF Polled, saveVars, agentVars
<1>20. CASE FallSilent
  BY <1>0, <1>20, PairingAssumption DEF FallSilent, saveVars, agentVars
<1>21. CASE ReapNode
  BY <1>0, <1>21, PairingAssumption DEF ReapNode, saveVars, agentVars
<1>22. CASE RestartNCore
  BY <1>0, <1>22, PairingAssumption DEF RestartNCore, PairFault
<1>23. CASE UNCHANGED pairingVars
  BY <1>0, <1>23 DEF pairingVars, saveVars, agentVars
<1> QED
  BY <1>1, <1>2, <1>3, <1>4, <1>5, <1>6, <1>7, <1>8, <1>9, <1>10, <1>11, <1>12, <1>13,
     <1>14, <1>15, <1>16, <1>17, <1>18, <1>19, <1>20, <1>21, <1>22, <1>23
  DEF PairingNext, RequestStep, AgentStep, Saving

\* A request has made no call and read no token before it begins.
LEMMA BegunStep ==
  ASSUME PairInv, [PairingNext]_pairingVars
  PROVE  Begun'
<1> USE DEF PairingTypeOK, Begun, Tokens, Savers
<1>0. PairingTypeOK /\ Begun
  BY DEF PairInv
<1>1. ASSUME NEW r \in Requests, PushAdd(r) PROVE Begun'
  BY <1>0, <1>1, PairingAssumption DEF PushAdd, Step, Calls, Begins, saveVars
<1>2. ASSUME NEW r \in Requests, PushPaired(r) PROVE Begun'
  BY <1>0, <1>2, PairingAssumption DEF PushPaired, Step, saveVars
<1>3. ASSUME NEW r \in Requests, GiveUpCall(r) PROVE Begun'
  BY <1>0, <1>3, PairingAssumption DEF GiveUpCall, Step, PairFault, saveVars
<1>4. ASSUME NEW r \in Requests, DeleteNode(r) PROVE Begun'
  BY <1>0, <1>4, PairingAssumption DEF DeleteNode, Step, Begins, saveVars, agentVars
<1>5. ASSUME NEW r \in Requests, RemoveNode(r) PROVE Begun'
  BY <1>0, <1>5, PairingAssumption DEF RemoveNode, Step, saveVars, agentVars
<1>6. ASSUME NEW r \in Requests, TellAgent(r) PROVE Begun'
  BY <1>0, <1>6, PairingAssumption DEF TellAgent, Step, Calls, saveVars
<1>7. ASSUME NEW r \in Requests, Told(r) PROVE Begun'
  BY <1>0, <1>7, PairingAssumption DEF Told, Step, Calls, saveVars
<1>8. ASSUME NEW r \in Requests, PairCheck(r) PROVE Begun'
  BY <1>0, <1>8, PairingAssumption DEF PairCheck, Calls, Ends, saveVars, ncoreVars
<1>9. ASSUME NEW r \in Requests, PairSet(r) PROVE Begun'
  BY <1>0, <1>9, PairingAssumption DEF PairSet, Calls, saveVars, ncoreVars
<1>10. ASSUME NEW r \in Requests, PairKeep(r) PROVE Begun'
  BY <1>0, <1>10, PairingAssumption DEF PairKeep, Calls, Ends, saveVars, ncoreVars
<1>11. ASSUME NEW r \in Requests, UnpairAuth(r) PROVE Begun'
  BY <1>0, <1>11, PairingAssumption DEF UnpairAuth, Calls, Ends, saveVars, ncoreVars
<1>12. ASSUME NEW r \in Requests, UnpairClear(r) PROVE Begun'
  BY <1>0, <1>12, PairingAssumption DEF UnpairClear, Calls, saveVars, ncoreVars
<1>13. ASSUME NEW r \in Requests, UnpairForget(r) PROVE Begun'
  BY <1>0, <1>13, PairingAssumption DEF UnpairForget, Calls, Ends, saveVars, ncoreVars
<1>14. ASSUME NEW s \in Savers, Collect(s) PROVE Begun'
  BY <1>0, <1>14, PairingAssumption DEF Collect, Step, agentVars, restVars
<1>15. ASSUME NEW s \in Savers, Open(s) PROVE Begun'
  BY <1>0, <1>15, PairingAssumption DEF Open, Step, agentVars, restVars
<1>16. ASSUME NEW s \in Savers, Write(s) PROVE Begun'
  BY <1>0, <1>16, PairingAssumption DEF Write, Step, agentVars, restVars, WriteOver
<1>17. ASSUME NEW s \in Savers, Move(s) PROVE Begun'
  BY <1>0, <1>17, PairingAssumption DEF Move, Step, agentVars, restVars
<1>18. CASE AgentRestarts
  BY <1>0, <1>18, PairingAssumption DEF AgentRestarts, PairFault, saveVars
<1>19. CASE Polled
  BY <1>0, <1>19, PairingAssumption DEF Polled, saveVars, agentVars
<1>20. CASE FallSilent
  BY <1>0, <1>20, PairingAssumption DEF FallSilent, saveVars, agentVars
<1>21. CASE ReapNode
  BY <1>0, <1>21, PairingAssumption DEF ReapNode, saveVars, agentVars
<1>22. CASE RestartNCore
  BY <1>0, <1>22, PairingAssumption DEF RestartNCore, PairFault
<1>23. CASE UNCHANGED pairingVars
  BY <1>0, <1>23 DEF pairingVars, saveVars, agentVars
<1> QED
  BY <1>1, <1>2, <1>3, <1>4, <1>5, <1>6, <1>7, <1>8, <1>9, <1>10, <1>11, <1>12, <1>13,
     <1>14, <1>15, <1>16, <1>17, <1>18, <1>19, <1>20, <1>21, <1>22, <1>23
  DEF PairingNext, RequestStep, AgentStep, Saving

\* Only the registration of a pairing makes its token known.
LEMMA UnknownStep ==
  ASSUME PairInv, [PairingNext]_pairingVars
  PROVE  Unknown'
<1> USE DEF PairingTypeOK, Begun, Unknown, Fresh, Tokens, Savers, Old
<1>0. PairingTypeOK /\ Begun /\ Unknown
  BY DEF PairInv
<1>1. ASSUME NEW r \in Requests, PushAdd(r) PROVE Unknown'
  BY <1>0, <1>1, PairingAssumption DEF PushAdd, Step, Calls, Begins, saveVars
<1>2. ASSUME NEW r \in Requests, PushPaired(r) PROVE Unknown'
  BY <1>0, <1>2, PairingAssumption DEF PushPaired, Step, saveVars
<1>3. ASSUME NEW r \in Requests, GiveUpCall(r) PROVE Unknown'
  BY <1>0, <1>3, PairingAssumption DEF GiveUpCall, Step, PairFault, saveVars
<1>4. ASSUME NEW r \in Requests, DeleteNode(r) PROVE Unknown'
  BY <1>0, <1>4, PairingAssumption DEF DeleteNode, Step, Begins, saveVars, agentVars
<1>5. ASSUME NEW r \in Requests, RemoveNode(r) PROVE Unknown'
  BY <1>0, <1>5, PairingAssumption DEF RemoveNode, Step, saveVars, agentVars
<1>6. ASSUME NEW r \in Requests, TellAgent(r) PROVE Unknown'
  BY <1>0, <1>6, PairingAssumption DEF TellAgent, Step, Calls, saveVars
<1>7. ASSUME NEW r \in Requests, Told(r) PROVE Unknown'
  BY <1>0, <1>7, PairingAssumption DEF Told, Step, Calls, saveVars
<1>8. ASSUME NEW r \in Requests, PairCheck(r) PROVE Unknown'
  BY <1>0, <1>8, PairingAssumption DEF PairCheck, Calls, Ends, saveVars, ncoreVars
<1>9. ASSUME NEW r \in Requests, PairSet(r) PROVE Unknown'
  BY <1>0, <1>9, PairingAssumption DEF PairSet, Calls, saveVars, ncoreVars
<1>10. ASSUME NEW r \in Requests, PairKeep(r) PROVE Unknown'
  BY <1>0, <1>10, PairingAssumption DEF PairKeep, Calls, Ends, saveVars, ncoreVars
<1>11. ASSUME NEW r \in Requests, UnpairAuth(r) PROVE Unknown'
  BY <1>0, <1>11, PairingAssumption DEF UnpairAuth, Calls, Ends, saveVars, ncoreVars
<1>12. ASSUME NEW r \in Requests, UnpairClear(r) PROVE Unknown'
  BY <1>0, <1>12, PairingAssumption DEF UnpairClear, Calls, saveVars, ncoreVars
<1>13. ASSUME NEW r \in Requests, UnpairForget(r) PROVE Unknown'
  BY <1>0, <1>13, PairingAssumption DEF UnpairForget, Calls, Ends, saveVars, ncoreVars
<1>14. ASSUME NEW s \in Savers, Collect(s) PROVE Unknown'
  BY <1>0, <1>14, PairingAssumption DEF Collect, Step, agentVars, restVars
<1>15. ASSUME NEW s \in Savers, Open(s) PROVE Unknown'
  BY <1>0, <1>15, PairingAssumption DEF Open, Step, agentVars, restVars
<1>16. ASSUME NEW s \in Savers, Write(s) PROVE Unknown'
  BY <1>0, <1>16, PairingAssumption DEF Write, Step, agentVars, restVars, WriteOver
<1>17. ASSUME NEW s \in Savers, Move(s) PROVE Unknown'
  BY <1>0, <1>17, PairingAssumption DEF Move, Step, agentVars, restVars
<1>18. CASE AgentRestarts
  BY <1>0, <1>18, PairingAssumption DEF AgentRestarts, PairFault, saveVars
<1>19. CASE Polled
  BY <1>0, <1>19, PairingAssumption DEF Polled, saveVars, agentVars
<1>20. CASE FallSilent
  BY <1>0, <1>20, PairingAssumption DEF FallSilent, saveVars, agentVars
<1>21. CASE ReapNode
  BY <1>0, <1>21, PairingAssumption DEF ReapNode, saveVars, agentVars
<1>22. CASE RestartNCore
  BY <1>0, <1>22, PairingAssumption DEF RestartNCore, PairFault
<1>23. CASE UNCHANGED pairingVars
  BY <1>0, <1>23 DEF pairingVars, saveVars, agentVars
<1> QED
  BY <1>1, <1>2, <1>3, <1>4, <1>5, <1>6, <1>7, <1>8, <1>9, <1>10, <1>11, <1>12, <1>13,
     <1>14, <1>15, <1>16, <1>17, <1>18, <1>19, <1>20, <1>21, <1>22, <1>23
  DEF PairingNext, RequestStep, AgentStep, Saving

\* A save that begins while another is under way is a clash; the others follow one
\* another.
LEMMA OneSaveStep ==
  ASSUME PairInv, [PairingNext]_pairingVars
  PROVE  OneSave'
<1> USE DEF PairingTypeOK, OneSave, Writing, Tokens, Savers
<1>0. PairingTypeOK /\ OneSave
  BY DEF PairInv
<1>1. ASSUME NEW r \in Requests, PushAdd(r) PROVE OneSave'
  BY <1>0, <1>1, PairingAssumption DEF PushAdd, Step, Calls, Begins, saveVars
<1>2. ASSUME NEW r \in Requests, PushPaired(r) PROVE OneSave'
  BY <1>0, <1>2, PairingAssumption DEF PushPaired, Step, saveVars
<1>3. ASSUME NEW r \in Requests, GiveUpCall(r) PROVE OneSave'
  BY <1>0, <1>3, PairingAssumption DEF GiveUpCall, Step, PairFault, saveVars
<1>4. ASSUME NEW r \in Requests, DeleteNode(r) PROVE OneSave'
  BY <1>0, <1>4, PairingAssumption DEF DeleteNode, Step, Begins, saveVars, agentVars
<1>5. ASSUME NEW r \in Requests, RemoveNode(r) PROVE OneSave'
  BY <1>0, <1>5, PairingAssumption DEF RemoveNode, Step, saveVars, agentVars
<1>6. ASSUME NEW r \in Requests, TellAgent(r) PROVE OneSave'
  BY <1>0, <1>6, PairingAssumption DEF TellAgent, Step, Calls, saveVars
<1>7. ASSUME NEW r \in Requests, Told(r) PROVE OneSave'
  BY <1>0, <1>7, PairingAssumption DEF Told, Step, Calls, saveVars
<1>8. ASSUME NEW r \in Requests, PairCheck(r) PROVE OneSave'
  BY <1>0, <1>8, PairingAssumption DEF PairCheck, Calls, Ends, saveVars, ncoreVars
<1>9. ASSUME NEW r \in Requests, PairSet(r) PROVE OneSave'
  BY <1>0, <1>9, PairingAssumption DEF PairSet, Calls, saveVars, ncoreVars
<1>10. ASSUME NEW r \in Requests, PairKeep(r) PROVE OneSave'
  BY <1>0, <1>10, PairingAssumption DEF PairKeep, Calls, Ends, saveVars, ncoreVars
<1>11. ASSUME NEW r \in Requests, UnpairAuth(r) PROVE OneSave'
  BY <1>0, <1>11, PairingAssumption DEF UnpairAuth, Calls, Ends, saveVars, ncoreVars
<1>12. ASSUME NEW r \in Requests, UnpairClear(r) PROVE OneSave'
  BY <1>0, <1>12, PairingAssumption DEF UnpairClear, Calls, saveVars, ncoreVars
<1>13. ASSUME NEW r \in Requests, UnpairForget(r) PROVE OneSave'
  BY <1>0, <1>13, PairingAssumption DEF UnpairForget, Calls, Ends, saveVars, ncoreVars
<1>14. ASSUME NEW s \in Savers, Collect(s) PROVE OneSave'
  BY <1>0, <1>14, PairingAssumption DEF Collect, Step, agentVars, restVars
<1>15. ASSUME NEW s \in Savers, Open(s) PROVE OneSave'
  BY <1>0, <1>15, PairingAssumption DEF Open, Step, agentVars, restVars
<1>16. ASSUME NEW s \in Savers, Write(s) PROVE OneSave'
  BY <1>0, <1>16, PairingAssumption DEF Write, Step, agentVars, restVars, WriteOver
<1>17. ASSUME NEW s \in Savers, Move(s) PROVE OneSave'
  BY <1>0, <1>17, PairingAssumption DEF Move, Step, agentVars, restVars
<1>18. CASE AgentRestarts
  BY <1>0, <1>18, PairingAssumption DEF AgentRestarts, PairFault, saveVars
<1>19. CASE Polled
  BY <1>0, <1>19, PairingAssumption DEF Polled, saveVars, agentVars
<1>20. CASE FallSilent
  BY <1>0, <1>20, PairingAssumption DEF FallSilent, saveVars, agentVars
<1>21. CASE ReapNode
  BY <1>0, <1>21, PairingAssumption DEF ReapNode, saveVars, agentVars
<1>22. CASE RestartNCore
  BY <1>0, <1>22, PairingAssumption DEF RestartNCore, PairFault
<1>23. CASE UNCHANGED pairingVars
  BY <1>0, <1>23 DEF pairingVars, saveVars, agentVars
<1> QED
  BY <1>1, <1>2, <1>3, <1>4, <1>5, <1>6, <1>7, <1>8, <1>9, <1>10, <1>11, <1>12, <1>13,
     <1>14, <1>15, <1>16, <1>17, <1>18, <1>19, <1>20, <1>21, <1>22, <1>23
  DEF PairingNext, RequestStep, AgentStep, Saving

\* Who changes the registry collects afterwards, and one save at a time leaves what it
\* has collected.
LEMMA ReachesStep ==
  ASSUME PairInv, [PairingNext]_pairingVars
  PROVE  Reaches'
<1> USE DEF PairingTypeOK, OneSave, Reaches, Writing, Carried, Tokens, Savers
<1>0. PairingTypeOK /\ OneSave /\ Reaches
  BY DEF PairInv
<1>1. ASSUME NEW r \in Requests, PushAdd(r) PROVE Reaches'
  BY <1>0, <1>1, PairingAssumption DEF PushAdd, Step, Calls, Begins, saveVars
<1>2. ASSUME NEW r \in Requests, PushPaired(r) PROVE Reaches'
  BY <1>0, <1>2, PairingAssumption DEF PushPaired, Step, saveVars
<1>3. ASSUME NEW r \in Requests, GiveUpCall(r) PROVE Reaches'
  BY <1>0, <1>3, PairingAssumption DEF GiveUpCall, Step, PairFault, saveVars
<1>4. ASSUME NEW r \in Requests, DeleteNode(r) PROVE Reaches'
  BY <1>0, <1>4, PairingAssumption DEF DeleteNode, Step, Begins, saveVars, agentVars
<1>5. ASSUME NEW r \in Requests, RemoveNode(r) PROVE Reaches'
  BY <1>0, <1>5, PairingAssumption DEF RemoveNode, Step, saveVars, agentVars
<1>6. ASSUME NEW r \in Requests, TellAgent(r) PROVE Reaches'
  BY <1>0, <1>6, PairingAssumption DEF TellAgent, Step, Calls, saveVars
<1>7. ASSUME NEW r \in Requests, Told(r) PROVE Reaches'
  BY <1>0, <1>7, PairingAssumption DEF Told, Step, Calls, saveVars
<1>8. ASSUME NEW r \in Requests, PairCheck(r) PROVE Reaches'
  BY <1>0, <1>8, PairingAssumption DEF PairCheck, Calls, Ends, saveVars, ncoreVars
<1>9. ASSUME NEW r \in Requests, PairSet(r) PROVE Reaches'
  BY <1>0, <1>9, PairingAssumption DEF PairSet, Calls, saveVars, ncoreVars
<1>10. ASSUME NEW r \in Requests, PairKeep(r) PROVE Reaches'
  BY <1>0, <1>10, PairingAssumption DEF PairKeep, Calls, Ends, saveVars, ncoreVars
<1>11. ASSUME NEW r \in Requests, UnpairAuth(r) PROVE Reaches'
  BY <1>0, <1>11, PairingAssumption DEF UnpairAuth, Calls, Ends, saveVars, ncoreVars
<1>12. ASSUME NEW r \in Requests, UnpairClear(r) PROVE Reaches'
  BY <1>0, <1>12, PairingAssumption DEF UnpairClear, Calls, saveVars, ncoreVars
<1>13. ASSUME NEW r \in Requests, UnpairForget(r) PROVE Reaches'
  BY <1>0, <1>13, PairingAssumption DEF UnpairForget, Calls, Ends, saveVars, ncoreVars
<1>14. ASSUME NEW s \in Savers, Collect(s) PROVE Reaches'
  BY <1>0, <1>14, PairingAssumption DEF Collect, Step, agentVars, restVars
<1>15. ASSUME NEW s \in Savers, Open(s) PROVE Reaches'
  BY <1>0, <1>15, PairingAssumption DEF Open, Step, agentVars, restVars
<1>16. ASSUME NEW s \in Savers, Write(s) PROVE Reaches'
  BY <1>0, <1>16, PairingAssumption DEF Write, Step, agentVars, restVars, WriteOver
<1>17. ASSUME NEW s \in Savers, Move(s) PROVE Reaches'
  BY <1>0, <1>17, PairingAssumption DEF Move, Step, agentVars, restVars
<1>18. CASE AgentRestarts
  BY <1>0, <1>18, PairingAssumption DEF AgentRestarts, PairFault, saveVars
<1>19. CASE Polled
  BY <1>0, <1>19, PairingAssumption DEF Polled, saveVars, agentVars
<1>20. CASE FallSilent
  BY <1>0, <1>20, PairingAssumption DEF FallSilent, saveVars, agentVars
<1>21. CASE ReapNode
  BY <1>0, <1>21, PairingAssumption DEF ReapNode, saveVars, agentVars
<1>22. CASE RestartNCore
  BY <1>0, <1>22, PairingAssumption DEF RestartNCore, PairFault
<1>23. CASE UNCHANGED pairingVars
  BY <1>0, <1>23 DEF pairingVars, saveVars, agentVars
<1> QED
  BY <1>1, <1>2, <1>3, <1>4, <1>5, <1>6, <1>7, <1>8, <1>9, <1>10, <1>11, <1>12, <1>13,
     <1>14, <1>15, <1>16, <1>17, <1>18, <1>19, <1>20, <1>21, <1>22, <1>23
  DEF PairingNext, RequestStep, AgentStep, Saving

\* A deleted token stays away from the registry, the saves and the file.
LEMMA NotBackStep ==
  ASSUME PairInv, [PairingNext]_pairingVars
  PROVE  NotBack'
<1> USE DEF PairingTypeOK, Begun, Unknown, OneSave, NotBack, Fresh, Past, Collected, Saved,
            Writing, Carried, Tokens, Savers
<1>0. PairingTypeOK /\ Begun /\ Unknown /\ OneSave /\ NotBack
  BY DEF PairInv
<1>1. ASSUME NEW r \in Requests, PushAdd(r) PROVE NotBack'
  BY <1>0, <1>1, PairingAssumption DEF PushAdd, Step, Calls, Begins, saveVars
<1>2. ASSUME NEW r \in Requests, PushPaired(r) PROVE NotBack'
  BY <1>0, <1>2, PairingAssumption DEF PushPaired, Step, saveVars
<1>3. ASSUME NEW r \in Requests, GiveUpCall(r) PROVE NotBack'
  BY <1>0, <1>3, PairingAssumption DEF GiveUpCall, Step, PairFault, saveVars
<1>4. ASSUME NEW r \in Requests, DeleteNode(r) PROVE NotBack'
  BY <1>0, <1>4, PairingAssumption DEF DeleteNode, Step, Begins, saveVars, agentVars
<1>5. ASSUME NEW r \in Requests, RemoveNode(r) PROVE NotBack'
  BY <1>0, <1>5, PairingAssumption DEF RemoveNode, Step, saveVars, agentVars
<1>6. ASSUME NEW r \in Requests, TellAgent(r) PROVE NotBack'
  BY <1>0, <1>6, PairingAssumption DEF TellAgent, Step, Calls, saveVars
<1>7. ASSUME NEW r \in Requests, Told(r) PROVE NotBack'
  BY <1>0, <1>7, PairingAssumption DEF Told, Step, Calls, saveVars
<1>8. ASSUME NEW r \in Requests, PairCheck(r) PROVE NotBack'
  BY <1>0, <1>8, PairingAssumption DEF PairCheck, Calls, Ends, saveVars, ncoreVars
<1>9. ASSUME NEW r \in Requests, PairSet(r) PROVE NotBack'
  BY <1>0, <1>9, PairingAssumption DEF PairSet, Calls, saveVars, ncoreVars
<1>10. ASSUME NEW r \in Requests, PairKeep(r) PROVE NotBack'
  BY <1>0, <1>10, PairingAssumption DEF PairKeep, Calls, Ends, saveVars, ncoreVars
<1>11. ASSUME NEW r \in Requests, UnpairAuth(r) PROVE NotBack'
  BY <1>0, <1>11, PairingAssumption DEF UnpairAuth, Calls, Ends, saveVars, ncoreVars
<1>12. ASSUME NEW r \in Requests, UnpairClear(r) PROVE NotBack'
  BY <1>0, <1>12, PairingAssumption DEF UnpairClear, Calls, saveVars, ncoreVars
<1>13. ASSUME NEW r \in Requests, UnpairForget(r) PROVE NotBack'
  BY <1>0, <1>13, PairingAssumption DEF UnpairForget, Calls, Ends, saveVars, ncoreVars
<1>14. ASSUME NEW s \in Savers, Collect(s) PROVE NotBack'
  <2> SUFFICES ASSUME ~saveClash', NEW q \in Requests
               PROVE  /\ Past(q)' => held'[q] # nodeTok'
                      /\ Collected(q)' => \A p \in Savers : Writing(p)' => Carried(p)' # held'[q]
                      /\ Saved(q)' => held'[q] # file'
    OBVIOUS
  <2>1. /\ ~saveClash /\ \A p \in Savers : ~Writing(p)
        /\ at[s] = "collect" /\ at' = [at EXCEPT ![s] = "open"]
        /\ snap' = [snap EXCEPT ![s] = nodeTok]
        /\ UNCHANGED <<call, held, nodeTok, file, tmp>>
    BY <1>0, <1>14 DEF Collect, Step, restVars, agentVars
  <2>2. /\ Past(q)' => Past(q)
        /\ Collected(q)' => Past(q)
        /\ Saved(q)' => Saved(q)
    BY <1>0, <2>1
  <2>3. Past(q)' => held'[q] # nodeTok'
    BY <1>0, <2>1, <2>2
  <2>4. ASSUME Collected(q)', NEW p \in Savers, Writing(p)'
        PROVE  Carried(p)' # held'[q]
    <3>1. p = s /\ Carried(p)' = nodeTok
      BY <1>0, <2>1, <2>4
    <3> QED
      BY <1>0, <2>1, <2>2, <2>4, <3>1
  <2>5. Saved(q)' => held'[q] # file'
    BY <1>0, <2>1, <2>2
  <2> QED
    BY <2>3, <2>4, <2>5
<1>15. ASSUME NEW s \in Savers, Open(s) PROVE NotBack'
  BY <1>0, <1>15, PairingAssumption DEF Open, Step, agentVars, restVars
<1>16. ASSUME NEW s \in Savers, Write(s) PROVE NotBack'
  BY <1>0, <1>16, PairingAssumption DEF Write, Step, agentVars, restVars, WriteOver
<1>17. ASSUME NEW s \in Savers, Move(s) PROVE NotBack'
  BY <1>0, <1>17, PairingAssumption DEF Move, Step, agentVars, restVars
<1>18. CASE AgentRestarts
  BY <1>0, <1>18, PairingAssumption DEF AgentRestarts, PairFault, saveVars
<1>19. CASE Polled
  BY <1>0, <1>19, PairingAssumption DEF Polled, saveVars, agentVars
<1>20. CASE FallSilent
  BY <1>0, <1>20, PairingAssumption DEF FallSilent, saveVars, agentVars
<1>21. CASE ReapNode
  BY <1>0, <1>21, PairingAssumption DEF ReapNode, saveVars, agentVars
<1>22. CASE RestartNCore
  BY <1>0, <1>22, PairingAssumption DEF RestartNCore, PairFault
<1>23. CASE UNCHANGED pairingVars
  BY <1>0, <1>23 DEF pairingVars, saveVars, agentVars
<1> QED
  BY <1>1, <1>2, <1>3, <1>4, <1>5, <1>6, <1>7, <1>8, <1>9, <1>10, <1>11, <1>12, <1>13,
     <1>14, <1>15, <1>16, <1>17, <1>18, <1>19, <1>20, <1>21, <1>22, <1>23
  DEF PairingNext, RequestStep, AgentStep, Saving

\* The agent and nCore stay in step.
LEMMA SyncedStep ==
  ASSUME PairInv, [PairingNext]_pairingVars
  PROVE  Synced'
<1> USE DEF PairingTypeOK, Begun, Unknown, OneSave, NotBack, Synced, Agrees, Busy, Quiet, Fresh,
            Past, Collected, Saved, Writing, Carried, Tokens, Savers
<1>0. PairingTypeOK /\ Begun /\ Unknown /\ OneSave /\ NotBack /\ Synced
  BY DEF PairInv
<1>1. ASSUME NEW r \in Requests, PushAdd(r) PROVE Synced'
  BY <1>0, <1>1, PairingAssumption DEF PushAdd, Step, Calls, Begins, saveVars
<1>2. ASSUME NEW r \in Requests, PushPaired(r) PROVE Synced'
  BY <1>0, <1>2, PairingAssumption DEF PushPaired, Step, saveVars
<1>3. ASSUME NEW r \in Requests, GiveUpCall(r) PROVE Synced'
  BY <1>0, <1>3, PairingAssumption DEF GiveUpCall, Step, PairFault, saveVars
<1>4. ASSUME NEW r \in Requests, DeleteNode(r) PROVE Synced'
  BY <1>0, <1>4, PairingAssumption DEF DeleteNode, Step, Begins, saveVars, agentVars
<1>5. ASSUME NEW r \in Requests, RemoveNode(r) PROVE Synced'
  BY <1>0, <1>5, PairingAssumption DEF RemoveNode, Step, saveVars, agentVars
<1>6. ASSUME NEW r \in Requests, TellAgent(r) PROVE Synced'
  BY <1>0, <1>6, PairingAssumption DEF TellAgent, Step, Calls, saveVars
<1>7. ASSUME NEW r \in Requests, Told(r) PROVE Synced'
  BY <1>0, <1>7, PairingAssumption DEF Told, Step, Calls, saveVars
<1>8. ASSUME NEW r \in Requests, PairCheck(r) PROVE Synced'
  <2>1. CASE agentTok # NoToken
    BY <1>0, <1>8, <2>1 DEF PairCheck, Calls, Ends, saveVars, ncoreVars
  <2>2. CASE agentTok = NoToken
    <3> SUFFICES ASSUME ~pairClash', ~saveClash' PROVE Synced'
      OBVIOUS
    <3>1. /\ call[r] = "check" /\ call' = [call EXCEPT ![r] = "set"]
          /\ UNCHANGED <<at, held, agentTok, config, nodeTok, snap, tmp, file>>
          /\ ~pairClash /\ ~saveClash
          /\ \A q \in Requests : call[q] \notin {"set", "forget"}
      BY <1>8, <2>2 DEF PairCheck, Calls, saveVars, ncoreVars
    <3>2. \A q \in Requests : ~Busy(q)
      BY <1>0, <2>2, <3>1, PairingAssumption
    <3>3. config = NoToken /\ Quiet
      BY <1>0, <2>2, <3>1, <3>2
    <3> QED
      BY <1>0, <2>2, <3>1, <3>2, <3>3
  <2> QED
    BY <2>1, <2>2
<1>9. ASSUME NEW r \in Requests, PairSet(r) PROVE Synced'
  BY <1>0, <1>9, PairingAssumption DEF PairSet, Calls, saveVars, ncoreVars
<1>10. ASSUME NEW r \in Requests, PairKeep(r) PROVE Synced'
  BY <1>0, <1>10, PairingAssumption DEF PairKeep, Calls, Ends, saveVars, ncoreVars
<1>11. ASSUME NEW r \in Requests, UnpairAuth(r) PROVE Synced'
  BY <1>0, <1>11, PairingAssumption DEF UnpairAuth, Calls, Ends, saveVars, ncoreVars
<1>12. ASSUME NEW r \in Requests, UnpairClear(r) PROVE Synced'
  BY <1>0, <1>12, PairingAssumption DEF UnpairClear, Calls, saveVars, ncoreVars
<1>13. ASSUME NEW r \in Requests, UnpairForget(r) PROVE Synced'
  BY <1>0, <1>13, PairingAssumption DEF UnpairForget, Calls, Ends, saveVars, ncoreVars
<1>14. ASSUME NEW s \in Savers, Collect(s) PROVE Synced'
  BY <1>0, <1>14, PairingAssumption DEF Collect, Step, agentVars, restVars
<1>15. ASSUME NEW s \in Savers, Open(s) PROVE Synced'
  BY <1>0, <1>15, PairingAssumption DEF Open, Step, agentVars, restVars
<1>16. ASSUME NEW s \in Savers, Write(s) PROVE Synced'
  BY <1>0, <1>16, PairingAssumption DEF Write, Step, agentVars, restVars, WriteOver
<1>17. ASSUME NEW s \in Savers, Move(s) PROVE Synced'
  BY <1>0, <1>17, PairingAssumption DEF Move, Step, agentVars, restVars
<1>18. CASE AgentRestarts
  BY <1>0, <1>18, PairingAssumption DEF AgentRestarts, PairFault, saveVars
<1>19. CASE Polled
  BY <1>0, <1>19, PairingAssumption DEF Polled, saveVars, agentVars
<1>20. CASE FallSilent
  BY <1>0, <1>20, PairingAssumption DEF FallSilent, saveVars, agentVars
<1>21. CASE ReapNode
  BY <1>0, <1>21, PairingAssumption DEF ReapNode, saveVars, agentVars
<1>22. CASE RestartNCore
  BY <1>0, <1>22, PairingAssumption DEF RestartNCore, PairFault
<1>23. CASE UNCHANGED pairingVars
  BY <1>0, <1>23 DEF pairingVars, saveVars, agentVars
<1> QED
  BY <1>1, <1>2, <1>3, <1>4, <1>5, <1>6, <1>7, <1>8, <1>9, <1>10, <1>11, <1>12, <1>13,
     <1>14, <1>15, <1>16, <1>17, <1>18, <1>19, <1>20, <1>21, <1>22, <1>23
  DEF PairingNext, RequestStep, AgentStep, Saving

\* Every step keeps the invariant.
LEMMA PairStep == PairInv /\ [PairingNext]_pairingVars => PairInv'
  BY TypeStep, BegunStep, UnknownStep, OneSaveStep, ReachesStep, NotBackStep, SyncedStep
  DEF PairInv

----------------------------------------------------------------------------
(* Theorems.                                                                *)

\* Every variable keeps its type.
THEOREM PairingTypeCorrect == PairingSpec => []PairingTypeOK
<1>1. PairInv => PairingTypeOK
  BY DEF PairInv
<1> QED
  BY <1>1, PairInit, PairStep, PTL DEF PairingSpec

\* A registered node and its agent hold the same token, also after lost answers, outages
\* and restarts of either side, unless two pairings or two saves have overlapped.
THEOREM RegisteredStaysPaired == PairingSpec => []RegisteredIsPaired
<1>1. PairInv => RegisteredIsPaired
  BY DEF PairInv, Synced, Agrees, RegisteredIsPaired
<1> QED
  BY <1>1, PairInit, PairStep, PTL DEF PairingSpec

\* As long as no two saves overlap, a crash at any moment leaves a file that can be read,
\* and that names the registered node when nobody is about to save.
THEOREM FileStaysWhole == PairingSpec => []FileWhole
<1>1. PairInv => FileWhole
  BY DEF PairInv, OneSave, Reaches, Writing, FileWhole
<1> QED
  BY <1>1, PairInit, PairStep, PTL DEF PairingSpec

----------------------------------------------------------------------------
(* Every request ends, and a silent node stays silent.                      *)

\* How far a request, and its call to the agent, are from their end.
StageLeft(s) ==
  CASE s = "idle"                -> 9
    [] s \in {"pair", "remove"}  -> 7
    [] s = "collect"             -> 6
    [] s = "open"                -> 5
    [] s = "write"               -> 4
    [] s = "move"                -> 3
    [] s = "saved"               -> 2
    [] s = "unpair"              -> 1
    [] OTHER                     -> 0

CallLeft(c) ==
  CASE c \in {"check", "auth"}             -> 4
    [] c \in {"set", "clear"}              -> 3
    [] c \in {"keep", "forget"}            -> 2
    [] c \in {"paired", "refused", "told"} -> 1
    [] OTHER                               -> 0

\* A stage of a request outlasts the steps of one call.
LeftOf(s, c) == 5 * StageLeft(s) + CallLeft(c)

\* A request and its call only go on to their end, and so does a save of the reaper.
PairingMovesOn ==
  /\ \A r \in Requests :
       \/ at'[r] = at[r] /\ call'[r] = call[r]
       \/ LeftOf(at'[r], call'[r]) < LeftOf(at[r], call[r])
  /\ \/ at'[Reaper] = at[Reaper]
     \/ at[Reaper] \in {"idle", "done"} \/ at'[Reaper] = "idle"
     \/ StageLeft(at'[Reaper]) < StageLeft(at[Reaper])

\* A node that the agent does not obey, once silent, is silent until it is removed,
\* replaced, or the agent has its token.
SilenceStays ==
  silent /\ nodeTok # NoToken /\ nodeTok # agentTok /\ nodeTok' = nodeTok => silent'

\* A stage less, or the same stage and less of the call, is less.
LEMMA LeftFalls ==
  \A s, c, u, d :
    /\ StageLeft(u) < StageLeft(s) => LeftOf(u, d) < LeftOf(s, c)
    /\ CallLeft(d) < CallLeft(c) => LeftOf(s, d) < LeftOf(s, c)
<1>1. \A s : StageLeft(s) \in 0..9
  BY DEF StageLeft
<1>2. \A c : CallLeft(c) \in 0..4
  BY DEF CallLeft
<1> QED
  BY <1>1, <1>2 DEF LeftOf

\* A request, a call or a save that takes one of its steps leaves the others alone.
LEMMA OneMoves ==
  ASSUME PairingTypeOK
  PROVE  /\ \A s \in Savers : \A from, to :
              Step(s, from, to) => /\ at[s] = from /\ at'[s] = to
                                   /\ \A q \in Savers \ {s} : at'[q] = at[q]
         /\ \A r \in Requests : \A from, to :
              Calls(r, from, to) => /\ call[r] = from /\ call'[r] = to
                                    /\ \A q \in Requests \ {r} : call'[q] = call[q]
         /\ Requests \subseteq Savers /\ Reaper \in Savers /\ Reaper \notin Requests
  BY PairingAssumption DEF PairingTypeOK, Step, Calls, Savers

\* Every step of a request or a save brings it nearer to its end.
LEMMA PairMoveStep == PairInv /\ [PairingNext]_pairingVars => PairingMovesOn
<1> SUFFICES ASSUME PairInv, [PairingNext]_pairingVars PROVE PairingMovesOn
  OBVIOUS
<1>0. PairingTypeOK
  BY DEF PairInv
<1> DEFINE Stays(q) == at'[q] = at[q] /\ call'[q] = call[q]
           Nearer(q) == \/ StageLeft(at'[q]) < StageLeft(at[q])
                        \/ at'[q] = at[q] /\ CallLeft(call'[q]) < CallLeft(call[q])
           ReaperOn == \/ at'[Reaper] = at[Reaper]
                       \/ at[Reaper] \in {"idle", "done"} \/ at'[Reaper] = "idle"
                       \/ StageLeft(at'[Reaper]) < StageLeft(at[Reaper])
<1>1. ASSUME \A q \in Requests : Stays(q) \/ Nearer(q), ReaperOn PROVE PairingMovesOn
  BY <1>1, LeftFalls DEF PairingMovesOn
<1>2. ASSUME NEW r \in Requests, Nearer(r), \A q \in Requests \ {r} : Stays(q),
             at'[Reaper] = at[Reaper]
      PROVE  PairingMovesOn
  BY <1>1, <1>2
<1>3. ASSUME NEW r \in Requests, PushAdd(r) \/ DeleteNode(r) PROVE PairingMovesOn
  <2>1. Nearer(r)
    BY <1>0, <1>3, OneMoves DEF PushAdd, DeleteNode, Begins, StageLeft
  <2>2. (\A q \in Requests \ {r} : Stays(q)) /\ at'[Reaper] = at[Reaper]
    BY <1>0, <1>3, OneMoves DEF PushAdd, DeleteNode, Begins, agentVars
  <2> QED
    BY <1>2, <2>1, <2>2
<1>4. ASSUME NEW r \in Requests, PushPaired(r) \/ GiveUpCall(r) PROVE PairingMovesOn
  <2>1. Nearer(r)
    BY <1>0, <1>4, OneMoves DEF PushPaired, GiveUpCall, StageLeft
  <2>2. (\A q \in Requests \ {r} : Stays(q)) /\ at'[Reaper] = at[Reaper]
    BY <1>0, <1>4, OneMoves DEF PushPaired, GiveUpCall, PairingTypeOK
  <2> QED
    BY <1>2, <2>1, <2>2
<1>5. ASSUME NEW r \in Requests, RemoveNode(r) \/ TellAgent(r) \/ Told(r) PROVE PairingMovesOn
  <2>1. Nearer(r)
    BY <1>0, <1>5, OneMoves DEF RemoveNode, TellAgent, Told, StageLeft
  <2>2. (\A q \in Requests \ {r} : Stays(q)) /\ at'[Reaper] = at[Reaper]
    BY <1>0, <1>5, OneMoves DEF RemoveNode, TellAgent, Told, agentVars
  <2> QED
    BY <1>2, <2>1, <2>2
<1>6. ASSUME NEW r \in Requests, AgentStep(r) PROVE PairingMovesOn
  <2>1. at' = at /\ \A q \in Requests \ {r} : call'[q] = call[q]
    BY <1>0, <1>6, OneMoves DEF AgentStep, PairCheck, PairSet, PairKeep, UnpairAuth, UnpairClear,
                                UnpairForget, Ends, ncoreVars
  <2>2. CallLeft(call'[r]) < CallLeft(call[r])
    BY <1>0, <1>6, OneMoves DEF AgentStep, PairCheck, PairSet, PairKeep, UnpairAuth, UnpairClear,
                                UnpairForget, Ends, CallLeft
  <2> QED
    BY <1>2, <2>1, <2>2
<1>7. ASSUME NEW s \in Savers, Saving(s) PROVE PairingMovesOn
  <2>1. call' = call /\ \A q \in Savers \ {s} : at'[q] = at[q]
    BY <1>0, <1>7, OneMoves DEF Saving, Collect, Open, Write, Move, restVars, agentVars
  <2>2. StageLeft(at'[s]) < StageLeft(at[s])
    BY <1>0, <1>7, OneMoves DEF Saving, Collect, Open, Write, Move, StageLeft
  <2>3. \A q \in Requests : q \in Savers
    BY <1>0, OneMoves
  <2>4. Reaper \in Savers
    BY <1>0, OneMoves
  <2> QED
    BY <1>1, <2>1, <2>2, <2>3, <2>4
<1>8. CASE AgentRestarts
  <2>1. \A s \in Savers : at'[s] = IF at[s] \in {"pair", "unpair"} THEN "done" ELSE at[s]
    BY <1>8 DEF AgentRestarts
  <2>2. \A q \in Requests : call'[q] = "none"
    BY <1>8 DEF AgentRestarts
  <2>3. StageLeft("done") = 0 /\ StageLeft("pair") = 7 /\ StageLeft("unpair") = 1
    BY DEF StageLeft
  <2>4. \A c : CallLeft("none") < CallLeft(c) \/ CallLeft(c) = 0
    BY DEF CallLeft
  <2>5. \A q \in Requests : call[q] # "none" => CallLeft("none") < CallLeft(call[q])
    BY <1>0 DEF PairingTypeOK, CallLeft
  <2>6. \A q \in Requests : q \in Savers
    BY <1>0, OneMoves
  <2>7. \A q \in Requests : Stays(q) \/ Nearer(q)
    BY <2>1, <2>2, <2>3, <2>5, <2>6
  <2>8. ReaperOn
    BY <1>0, <2>1, <2>3, OneMoves
  <2> QED
    BY <1>1, <2>7, <2>8
<1>9. CASE RestartNCore
  <2>1. \A s \in Savers : at'[s] = IF at[s] = "idle" \/ s = Reaper THEN "idle" ELSE "done"
    BY <1>9 DEF RestartNCore
  <2>2. \A q \in Requests :
          call'[q] = IF call[q] \in {"paired", "refused", "told"} THEN "none" ELSE call[q]
    BY <1>9 DEF RestartNCore
  <2>3. \A q \in Requests : at[q] = "done" \/ at[q] = "idle" \/ StageLeft("done") < StageLeft(at[q])
    BY <1>0, OneMoves DEF PairingTypeOK, StageLeft
  <2>4. /\ CallLeft("none") < CallLeft("paired") /\ CallLeft("none") < CallLeft("refused")
        /\ CallLeft("none") < CallLeft("told")
    BY DEF CallLeft
  <2>5. \A q \in Requests : q \in Savers /\ q # Reaper
    BY <1>0, OneMoves
  <2>6. \A q \in Requests : Stays(q) \/ Nearer(q)
    BY <2>1, <2>2, <2>3, <2>4, <2>5
  <2>7. at'[Reaper] = "idle"
    BY <1>0, <2>1, OneMoves
  <2> QED
    BY <1>1, <2>6, <2>7
<1>10. CASE ReapNode
  <2>1. call' = call /\ at[Reaper] \in {"idle", "done"} /\ \A q \in Savers \ {Reaper} : at'[q] = at[q]
    BY <1>0, <1>10 DEF ReapNode, agentVars, PairingTypeOK
  <2>2. \A q \in Requests : q \in Savers \ {Reaper}
    BY <1>0, OneMoves
  <2> QED
    BY <1>1, <2>1, <2>2
<1>11. CASE Polled \/ FallSilent \/ UNCHANGED pairingVars
  <2>1. at' = at /\ call' = call
    BY <1>11 DEF Polled, FallSilent, pairingVars, agentVars
  <2> QED
    BY <1>1, <2>1
<1> QED
  BY <1>3, <1>4, <1>5, <1>6, <1>7, <1>8, <1>9, <1>10, <1>11 DEF PairingNext, RequestStep

\* Every request of a user and every call to the agent comes to its end, whatever is lost
\* or restarts, and so does each save of the reaper.
THEOREM EveryPairingMovesOn == PairingSpec => [][PairingMovesOn]_pairingVars
<1>1. PairInv /\ [PairingNext]_pairingVars => [PairingMovesOn]_pairingVars
  BY PairMoveStep
<1> QED
  BY <1>1, PairInit, PairStep, PTL DEF PairingSpec

\* Only a poll that is answered, or a pairing with a token nCore does not know, breaks the
\* silence of a node.
LEMMA SilenceStep == PairInv /\ [PairingNext]_pairingVars => SilenceStays
<1> SUFFICES ASSUME PairInv, [PairingNext]_pairingVars,
                    silent, nodeTok # NoToken, nodeTok # agentTok, nodeTok' = nodeTok
             PROVE  silent'
  BY DEF SilenceStays
<1>1. ASSUME NEW r \in Requests, PushPaired(r) PROVE silent'
  <2>1. r # nodeTok
    BY <1>1 DEF PushPaired, PairInv, Unknown, Fresh
  <2> QED
    BY <1>1, <2>1 DEF PushPaired
<1>2. ASSUME NEW r \in Requests, PushAdd(r) \/ DeleteNode(r) \/ GiveUpCall(r) \/ RemoveNode(r)
             \/ TellAgent(r) \/ Told(r) \/ AgentStep(r)
      PROVE  silent'
  BY <1>2 DEF PushAdd, DeleteNode, GiveUpCall, RemoveNode, TellAgent, Told, AgentStep, PairCheck,
              PairSet, PairKeep, UnpairAuth, UnpairClear, UnpairForget, ncoreVars
<1>3. ASSUME NEW s \in Savers, Saving(s) PROVE silent'
  BY <1>3 DEF Saving, Collect, Open, Write, Move, restVars
<1>4. CASE AgentRestarts \/ Polled \/ FallSilent \/ ReapNode \/ RestartNCore \/ UNCHANGED pairingVars
  BY <1>4 DEF AgentRestarts, Polled, FallSilent, ReapNode, RestartNCore, pairingVars
<1> QED
  BY <1>1, <1>2, <1>3, <1>4 DEF PairingNext, RequestStep

\* A node whose agent has another token or none, once it is silent, stays so for the
\* reaper to see: no poll, save, restart or other request revives it.
THEOREM TheSilentStaySilent == PairingSpec => [][SilenceStays]_pairingVars
<1>1. PairInv /\ [PairingNext]_pairingVars => [SilenceStays]_pairingVars
  BY SilenceStep
<1> QED
  BY <1>1, PairInit, PairStep, PTL DEF PairingSpec
=================================================================================
