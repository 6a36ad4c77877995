------------------------------- MODULE MCNodes -------------------------------
(* What runs on or beside one node: the model server of its agent, the        *)
(* pairing with an agent that is polled, and the agent nCore keeps on its own *)
(* host.  The three share no state: in a behaviour one of them, the focus,    *)
(* moves, and the others stay in one initial state.                           *)
EXTENDS ModelServer, LocalAgent, Pairing

CONSTANTS g0, m1, m2, t1, t2
OneDevice == {g0}
TwoModels == {m1, m2}
TwoThreads == {t1, t2}
TwoMenus == {Serial \cup {"prompt"}, AllCommands}

VARIABLE focus

Init ==
  /\ focus \in {"server", "local", "pairing"}
  /\ ServerInit /\ LocalInit /\ PairingInit
  /\ focus # "server" => link = "pull" /\ menu = AllCommands /\ auto
  /\ focus # "local" => sweeps
  /\ focus # "pairing" => agentTok = NoToken

Next ==
  /\ UNCHANGED focus
  /\ \/ focus = "server" /\ ServerNext /\ UNCHANGED <<localVars, pairingVars>>
     \/ focus = "local" /\ LocalNext /\ UNCHANGED <<serverVars, pairingVars>>
     \/ focus = "pairing" /\ PairingNext /\ UNCHANGED <<serverVars, localVars>>

vars == <<focus, serverVars, localVars, pairingVars>>

\* ServerFairness and PairingFairness; nothing that must happen is stated of the third.
Fairness ==
  /\ \A a \in Actors : WF_serverVars(focus = "server" /\ (CommandStep(a) \/ BeatStep(a)))
  /\ WF_serverVars(focus = "server" /\ \E a \in Actors : BeginBeat(a))
  /\ \A s \in Savers : WF_pairingVars(focus = "pairing" /\ Saving(s))
  /\ \A r \in Requests : /\ WF_pairingVars(focus = "pairing" /\ RequestStep(r))
                         /\ WF_pairingVars(focus = "pairing" /\ AgentStep(r))
  /\ WF_pairingVars(focus = "pairing" /\ Polled)
  /\ WF_pairingVars(focus = "pairing" /\ FallSilent /\ agentTok # nodeTok)
  /\ WF_pairingVars(focus = "pairing" /\ ReapNode)

Spec == Init /\ [][Next]_vars /\ Fairness

\* The types of the three modules.
TypesOK == ServerTypeOK /\ LocalTypeOK /\ PairingTypeOK
=============================================================================
