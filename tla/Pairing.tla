--------------------------------- MODULE Pairing ---------------------------------
(***************************************************************************)
(* A push node: pairing on both sides (nCore/server.py, agent/link.py),    *)
(* its polls (nCore/push.py), the reaper (nCore/registry.py), and the      *)
(* state file that all requests save through one temporary file            *)
(* (nCore/state.py).                                                       *)
(*                                                                         *)
(* One agent. A request that pairs makes up a token, here its own number.  *)
(* The agent serves each call in a thread of its own, nCore each request.  *)
(* Of the state file only the token of the node is kept: every save writes *)
(* all there is.                                                           *)
(***************************************************************************)
EXTENDS Naturals

CONSTANTS
  MaxRequests,     \* requests of users (bound)
  Reaper,          \* the thread that removes silent nodes
  NoToken,
  Empty, Torn,     \* a file just truncated; one that two saves wrote into
  Gone,            \* there is no such file
  MaxPairFaults    \* lost answers, outages and restarts (bound)

Requests == 1..MaxRequests
Savers == Requests \cup {Reaper}
Old == 0  \* the token of an earlier pairing
Tokens == Requests \cup {Old, NoToken}
Contents == Tokens \cup {Empty, Torn, Gone}

ASSUME PairingAssumption ==
  /\ Reaper \notin Requests
  /\ NoToken \notin Requests \cup {Old}
  /\ {Empty, Torn, Gone} \cap Tokens = {} /\ Gone \notin {Empty, Torn} /\ Empty # Torn
  /\ MaxRequests \in Nat /\ MaxPairFaults \in Nat

VARIABLES
  at,         \* the step of each request and of the reaper
  held,       \* the token a deletion has read
  call,       \* the step of the call to the agent for each request
  agentTok,   \* _ctx of the agent: orch_token, or none when not paired
  config,     \* the token in the file of the agent
  nodeTok,    \* orchestrator_token of the node in the registry, or none
  silent,     \* last_seen is longer ago than REMOVE_AFTER
  snap,       \* what each save has collected
  into,       \* the file each save has opened: still the temporary one, or moved since
  tmp, file,  \* state.tmp and state.json
  reaps,      \* the reaper runs
  pairClash, saveClash,  \* two pairings, two saves have ever overlapped
  pairFaults

saveVars    == <<snap, into, tmp, file, saveClash>>
agentVars   == <<call, agentTok, config, pairClash>>
pairingVars == <<at, held, agentVars, nodeTok, silent, saveVars, reaps, pairFaults>>

PairingInit ==
  /\ at = [s \in Savers |-> "idle"] /\ held = [r \in Requests |-> NoToken]
  /\ call = [r \in Requests |-> "none"]
  /\ agentTok \in {NoToken, Old} /\ config = agentTok
  /\ nodeTok = agentTok /\ silent = FALSE
  /\ snap = [s \in Savers |-> NoToken] /\ into = [s \in Savers |-> "none"]
  /\ tmp = Gone /\ file = nodeTok
  /\ reaps = TRUE
  /\ pairClash = FALSE /\ saveClash = FALSE /\ pairFaults = 0

PairFault == pairFaults < MaxPairFaults /\ pairFaults' = pairFaults + 1
Step(s, from, to) == at[s] = from /\ at' = [at EXCEPT ![s] = to]
Calls(r, from, to) == call[r] = from /\ call' = [call EXCEPT ![r] = to]
Begins(r, to) == Step(r, "idle", to) /\ \A q \in 1..(r - 1) : at[q] # "idle"

\* The end of a call; nobody may be waiting for it any more.
Ends(r, from, answer) == Calls(r, from, IF at[r] \in {"pair", "unpair"} THEN answer ELSE "none")

----------------------------------------------------------------------------
(* nCore: _push_add and _delete_node.                                       *)

PushAdd(r) ==
  /\ Begins(r, "pair") /\ Calls(r, "none", "check")
  /\ UNCHANGED <<held, agentTok, config, pairClash, nodeTok, silent, saveVars,
                 reaps, pairFaults>>

\* The agent has answered; the policy or a local agent may still refuse the node.
PushPaired(r) ==
  /\ at[r] = "pair" /\ call[r] \in {"paired", "refused"}
  /\ \/ /\ call[r] = "paired"
        /\ nodeTok' = r /\ silent' = FALSE
        /\ Step(r, "pair", "collect")
     \/ Step(r, "pair", "done") /\ UNCHANGED <<nodeTok, silent>>
  /\ call' = [call EXCEPT ![r] = "none"]
  /\ UNCHANGED <<held, agentTok, config, pairClash, saveVars, reaps, pairFaults>>

\* It does not in time, or its answer is lost; the call goes on.
GiveUpCall(r) ==
  /\ at[r] \in {"pair", "unpair"}
  /\ PairFault
  /\ Step(r, at[r], "done")
  /\ call' = [call EXCEPT ![r] = IF @ \in {"paired", "refused", "told"} THEN "none" ELSE @]
  /\ UNCHANGED <<held, agentTok, config, pairClash, nodeTok, silent, saveVars, reaps>>

\* get_node, then rm_node.
DeleteNode(r) ==
  /\ Begins(r, "remove")
  /\ held' = [held EXCEPT ![r] = nodeTok]
  /\ UNCHANGED <<agentVars, nodeTok, silent, saveVars, reaps, pairFaults>>

RemoveNode(r) ==
  /\ Step(r, "remove", IF nodeTok = NoToken THEN "done" ELSE "collect")
  /\ nodeTok' = NoToken
  /\ UNCHANGED <<held, agentVars, silent, saveVars, reaps, pairFaults>>

\* After the save a deletion tells the agent.
TellAgent(r) ==
  /\ at[r] = "saved"
  /\ IF held[r] = NoToken
     THEN Step(r, "saved", "done") /\ UNCHANGED call
     ELSE Step(r, "saved", "unpair") /\ Calls(r, "none", "auth")
  /\ UNCHANGED <<held, agentTok, config, pairClash, nodeTok, silent, saveVars,
                 reaps, pairFaults>>

Told(r) ==
  /\ Step(r, "unpair", "done") /\ Calls(r, "told", "none")
  /\ UNCHANGED <<held, agentTok, config, pairClash, nodeTok, silent, saveVars, reaps, pairFaults>>

----------------------------------------------------------------------------
(* The agent: _pair and _unpair.                                            *)

ncoreVars == <<at, nodeTok, silent, saveVars, reaps, pairFaults>>

\* (bug variant) A paired agent is paired again.
PairCheckAnyone(r) ==
  /\ Calls(r, "check", "set")
  /\ pairClash' = (pairClash \/ \E q \in Requests : call[q] \in {"set", "forget"})
  /\ UNCHANGED <<held, agentTok, config, ncoreVars>>

PairCheck(r) ==
  /\ IF agentTok # NoToken THEN Ends(r, "check", "refused") /\ UNCHANGED pairClash
     ELSE /\ Calls(r, "check", "set")
          /\ pairClash' = (pairClash \/ \E q \in Requests : call[q] \in {"set", "forget"})
  /\ UNCHANGED <<held, agentTok, config, ncoreVars>>

PairSet(r) ==
  /\ Calls(r, "set", "keep")
  /\ agentTok' = r
  /\ UNCHANGED <<held, config, pairClash, ncoreVars>>

PairKeep(r) ==
  /\ Ends(r, "keep", "paired")
  /\ config' = r
  /\ UNCHANGED <<held, agentTok, pairClash, ncoreVars>>

UnpairAuth(r) ==
  /\ IF agentTok = held[r] THEN Calls(r, "auth", "clear") ELSE Ends(r, "auth", "told")
  /\ held' = [held EXCEPT ![r] = NoToken]
  /\ UNCHANGED <<agentTok, config, pairClash, ncoreVars>>

UnpairClear(r) ==
  /\ Calls(r, "clear", "forget")
  /\ agentTok' = NoToken
  /\ UNCHANGED <<held, config, pairClash, ncoreVars>>

UnpairForget(r) ==
  /\ Ends(r, "forget", "told")
  /\ config' = NoToken
  /\ UNCHANGED <<held, agentTok, pairClash, ncoreVars>>

AgentStep(r) == \/ PairCheck(r) \/ PairSet(r) \/ PairKeep(r)
                \/ UnpairAuth(r) \/ UnpairClear(r) \/ UnpairForget(r)

\* Calls under way are cut off: for nCore they fail.
AgentRestarts ==
  /\ PairFault
  /\ agentTok' = config
  /\ call' = [r \in Requests |-> "none"]
  /\ at' = [s \in Savers |-> IF at[s] \in {"pair", "unpair"} THEN "done" ELSE at[s]]
  /\ held' = [r \in Requests |-> IF at[r] = "unpair" THEN NoToken ELSE held[r]]
  /\ UNCHANGED <<config, pairClash, nodeTok, silent, saveVars, reaps>>

----------------------------------------------------------------------------
(* _persist and state.save                                                  *)

restVars == <<held, agentVars, nodeTok, silent, pairFaults>>

Collect(s) ==
  /\ Step(s, "collect", "open")
  /\ snap' = [snap EXCEPT ![s] = nodeTok]
  /\ saveClash' = (saveClash \/ \E q \in Savers : at[q] \in {"open", "write", "move"})
  /\ UNCHANGED <<into, tmp, file, restVars, reaps>>

\* (bug variant) The state file is written in place.
OpenInPlace(s) ==
  /\ Step(s, "open", "write")
  /\ file' = Empty /\ into' = [into EXCEPT ![s] = "file"]
  /\ UNCHANGED <<snap, tmp, saveClash, restVars, reaps>>

Open(s) ==
  /\ Step(s, "open", "write")
  /\ tmp' = Empty /\ into' = [into EXCEPT ![s] = "tmp"]
  /\ UNCHANGED <<snap, file, saveClash, restVars, reaps>>

\* What is there already stays where the new text does not cover it.
WriteOver(old, s) == IF old = Empty THEN {snap[s]} ELSE {snap[s], Torn}

Write(s) ==
  /\ Step(s, "write", "move")
  /\ \/ into[s] = "tmp"  /\ tmp'  \in WriteOver(tmp, s)  /\ UNCHANGED file
     \/ into[s] = "file" /\ file' \in WriteOver(file, s) /\ UNCHANGED tmp
     \/ into[s] = "gone" /\ UNCHANGED <<tmp, file>>
  /\ snap' = [snap EXCEPT ![s] = NoToken]
  /\ UNCHANGED <<into, saveClash, restVars, reaps>>

\* Without a temporary file the move raises: the request ends there, and so does the
\* thread of the reaper.
Move(s) ==
  /\ Step(s, "move", IF tmp = Gone \/ s = Reaper THEN "done" ELSE "saved")
  /\ IF tmp = Gone
     THEN UNCHANGED <<tmp, file>> /\ into' = [into EXCEPT ![s] = "none"]
     ELSE /\ file' = tmp /\ tmp' = Gone
          /\ into' = [q \in Savers |-> IF q = s THEN "none"
                                       ELSE IF into[q] = "tmp" THEN "file"
                                       ELSE IF into[q] = "file" THEN "gone" ELSE into[q]]
  /\ reaps' = (reaps /\ ~(s = Reaper /\ tmp = Gone))
  /\ UNCHANGED <<snap, saveClash, restVars>>

Saving(s) == Collect(s) \/ Open(s) \/ Write(s) \/ Move(s)

----------------------------------------------------------------------------
(* Polls, the reaper and restarts of nCore.                                 *)

\* (bug variant) A refused poll counts as a sign of life.
PolledAny ==
  /\ silent /\ nodeTok # NoToken
  /\ silent' = FALSE
  /\ UNCHANGED <<at, held, agentVars, nodeTok, saveVars, reaps, pairFaults>>

Polled ==
  /\ silent /\ nodeTok # NoToken /\ agentTok = nodeTok
  /\ silent' = FALSE
  /\ UNCHANGED <<at, held, agentVars, nodeTok, saveVars, reaps, pairFaults>>

\* Ten minutes of failed polls: of a wrong token, or an outage.
FallSilent ==
  /\ nodeTok # NoToken /\ ~silent
  /\ agentTok = nodeTok => pairFaults < MaxPairFaults
  /\ pairFaults' = IF agentTok = nodeTok THEN pairFaults + 1 ELSE pairFaults
  /\ silent' = TRUE
  /\ UNCHANGED <<at, held, agentVars, nodeTok, saveVars, reaps>>

ReapNode ==
  /\ reaps /\ at[Reaper] \in {"idle", "done"}
  /\ silent /\ nodeTok # NoToken
  /\ nodeTok' = NoToken
  /\ at' = [at EXCEPT ![Reaper] = "collect"]
  /\ UNCHANGED <<held, agentVars, silent, saveVars, reaps, pairFaults>>

\* A state file that cannot be read is none. A restored node was never seen.
RestartNCore ==
  /\ PairFault
  /\ nodeTok' = IF file \in Tokens THEN file ELSE NoToken
  /\ silent' = TRUE
  /\ at' = [s \in Savers |-> IF at[s] = "idle" \/ s = Reaper THEN "idle" ELSE "done"]
  /\ into' = [s \in Savers |-> "none"] /\ snap' = [s \in Savers |-> NoToken]
  /\ reaps' = TRUE
  /\ held' = [r \in Requests |-> IF call[r] = "auth" THEN held[r] ELSE NoToken]
  /\ call' = [r \in Requests |-> IF call[r] \in {"paired", "refused", "told"} THEN "none" ELSE call[r]]
  /\ UNCHANGED <<agentTok, config, pairClash, tmp, file, saveClash>>

RequestStep(r) == PushPaired(r) \/ RemoveNode(r) \/ TellAgent(r) \/ Told(r)

PairingNext ==
  \/ \E r \in Requests : \/ PushAdd(r) \/ DeleteNode(r) \/ GiveUpCall(r)
                         \/ RequestStep(r) \/ AgentStep(r)
  \/ \E s \in Savers : Saving(s)
  \/ AgentRestarts \/ Polled \/ FallSilent \/ ReapNode \/ RestartNCore

\* Threads run on, polls and the reaper repeat, time passes.
PairingFairness ==
  /\ \A s \in Savers : WF_pairingVars(Saving(s))
  /\ \A r \in Requests : WF_pairingVars(RequestStep(r)) /\ WF_pairingVars(AgentStep(r))
  /\ WF_pairingVars(Polled)
  /\ WF_pairingVars(FallSilent /\ agentTok # nodeTok) /\ WF_pairingVars(ReapNode)

PairingSpec == PairingInit /\ [][PairingNext]_pairingVars /\ PairingFairness

----------------------------------------------------------------------------
(* Properties.                                                              *)

PairingTypeOK ==
  /\ at \in [Savers -> {"idle", "pair", "remove", "collect", "open", "write", "move",
                        "saved", "unpair", "done"}]
  /\ held \in [Requests -> Tokens]
  /\ call \in [Requests -> {"none", "check", "set", "keep", "paired", "refused",
                            "auth", "clear", "forget", "told"}]
  /\ agentTok \in Tokens /\ config \in Tokens /\ nodeTok \in Tokens
  /\ silent \in BOOLEAN /\ reaps \in BOOLEAN
  /\ snap \in [Savers -> Tokens] /\ into \in [Savers -> {"none", "tmp", "file", "gone"}]
  /\ tmp \in Contents /\ file \in Contents \ {Gone}
  /\ pairClash \in BOOLEAN /\ saveClash \in BOOLEAN
  /\ pairFaults \in 0..MaxPairFaults

\* The agent accepts the token of a registered node, also after restarts of either side
\* and lost answers, unless two pairings or two saves have overlapped: it keeps the
\* token before it answers, and it is told of its removal only when that is on the disk.
RegisteredIsPaired ==
  ~pairClash /\ ~saveClash /\ nodeTok # NoToken => nodeTok = agentTok

\* As long as no two saves overlap, a crash at any point of one leaves a file that can
\* be read (state.py), and it names the node that is registered when nobody is
\* about to save.
FileWhole ==
  ~saveClash =>
    /\ file \in Tokens
    /\ (\A s \in Savers : at[s] \notin {"collect", "open", "write", "move"}) => file = nodeTok

\* A node whose agent holds another token or none disappears, as long as the reaper runs.
MismatchGoes ==
  nodeTok # NoToken /\ nodeTok # agentTok ~> nodeTok = NoToken \/ nodeTok = agentTok \/ ~reaps
=============================================================================
