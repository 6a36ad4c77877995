--------------------------------- MODULE Sessions ---------------------------------
(***************************************************************************)
(* Sessions (nCore/session.py), their handlers (nCore/server.py) and the   *)
(* start of a mission, which creates, names and activates its session in   *)
(* three steps and starts the mission whatever came of them. A save of the *)
(* state file is one step here (see Pairing).                              *)
(***************************************************************************)
EXTENDS Naturals, Sequences, FiniteSets

CONSTANTS
  SessionIds, Texts, NoText,
  MaxConcurrent,  \* _max_concurrent
  Starters,       \* requests that start a mission, at the same time (bound)
  MaxEdits        \* mission_version (bound)

ASSUME SessionAssumption ==
  /\ IsFiniteSet(SessionIds)
  /\ NoText \notin Texts   \* the empty text
  /\ MaxConcurrent \in Nat \ {0} /\ MaxEdits \in Nat

VARIABLES
  sessions,   \* _sessions: what is there, with status, text, version and history
  savedCopy,  \* the sessions in the state file
  starts      \* the step of each start of a mission

sessionVars == <<sessions, savedCopy, starts>>

SessionStatus == {"idle", "active", "paused", "completed"}
\* blank observes which versions were empty texts: those the history leaves out.
NewSession ==
  [status |-> "idle", text |-> NoText, version |-> 0, history |-> <<>>, blank |-> {0}]
Waiting == [id |-> "none", text |-> NoText, step |-> "idle"]

SessionInit ==
  /\ sessions = [i \in {} |-> NewSession] /\ savedCopy = sessions
  /\ starts = [r \in Starters |-> Waiting]

Existing == DOMAIN sessions
With(i, s) == [j \in Existing \cup {i} |-> IF j = i THEN s ELSE sessions[j]]
WithStatus(i, st) == With(i, [sessions[i] EXCEPT !.status = st])

\* (bug variant) A paused session is not counted.
RoomForActive(i) ==
  Cardinality({j \in Existing \ {i} : sessions[j].status = "active"}) < MaxConcurrent

\* The cap on the others that hold resources.
Room(i) ==
  Cardinality({j \in Existing \ {i} : sessions[j].status \in {"active", "paused"}}) < MaxConcurrent

Created(i) == IF i \in Existing THEN sessions ELSE With(i, NewSession)

\* Another text, which may be empty, is a new version; the old one goes into the history
\* unless it was empty.
Edited(i, t) ==
  IF i \notin Existing \/ sessions[i].text = t THEN sessions
  ELSE LET s == sessions[i] IN
       With(i, [s EXCEPT !.text = t, !.version = @ + 1,
                         !.blank = IF t = NoText THEN @ \cup {s.version + 1} ELSE @,
                         !.history = IF s.text = NoText THEN @
                                     ELSE Append(@, [version |-> s.version, text |-> s.text])])

Activated(i) ==
  IF i \in Existing /\ sessions[i].status # "active" /\ Room(i) /\ sessions[i].text # NoText
  THEN WithStatus(i, "active") ELSE sessions

----------------------------------------------------------------------------
(* The handlers, each of which saves when it has succeeded.                 *)

Put(new) == sessions' = new /\ savedCopy' = new /\ UNCHANGED starts

CreateSession(i) == Put(Created(i))

\* It refuses a request without a text, not one with an empty text.
UpdateSession(i, t) == i \in Existing /\ sessions[i].version < MaxEdits /\ Put(Edited(i, t))

DeleteSession(i) == i \in Existing /\ Put([j \in Existing \ {i} |-> sessions[j]])

ActivateSession(i) ==
  i \in Existing /\ (sessions[i].status = "active" \/ Activated(i) # sessions) /\ Put(Activated(i))

PauseSession(i) == i \in Existing /\ sessions[i].status = "active" /\ Put(WithStatus(i, "paused"))

ResumeSession(i) ==
  i \in Existing /\ sessions[i].status = "paused" /\ Room(i) /\ Put(WithStatus(i, "active"))

CompleteSession(i) == i \in Existing /\ Put(WithStatus(i, "completed"))

----------------------------------------------------------------------------
(* _start_mission saves nothing and looks at none of the results.           *)

StartStep(r, from, to) == starts[r].step = from /\ starts' = [starts EXCEPT ![r].step = to]

BeginMission(r, i, t) ==
  /\ starts[r] = Waiting
  /\ starts' = [starts EXCEPT ![r] = [id |-> i, text |-> t, step |-> "text"]]
  /\ sessions' = Created(i)
  /\ UNCHANGED savedCopy

NameMission(r) ==
  /\ StartStep(r, "text", "activate")
  /\ starts[r].id \in Existing => sessions[starts[r].id].version < MaxEdits
  /\ sessions' = Edited(starts[r].id, starts[r].text)
  /\ UNCHANGED savedCopy

ActivateMission(r) ==
  /\ starts[r].step = "activate"
  /\ starts' = [starts EXCEPT ![r] = Waiting]
  /\ sessions' = Activated(starts[r].id)
  /\ UNCHANGED savedCopy

\* Any other handler that saves takes the sessions as they are.
SaveSessions == savedCopy' = sessions /\ UNCHANGED <<sessions, starts>>

ReloadSessions ==
  /\ sessions' = savedCopy
  /\ starts' = [r \in Starters |-> Waiting]
  /\ UNCHANGED savedCopy

SessionNext ==
  \/ \E i \in SessionIds :
       \/ CreateSession(i) \/ DeleteSession(i) \/ ActivateSession(i) \/ PauseSession(i)
       \/ ResumeSession(i) \/ CompleteSession(i)
       \/ \E t \in Texts \cup {NoText} : UpdateSession(i, t)
       \/ \E r \in Starters, t \in Texts : BeginMission(r, i, t)
  \/ \E r \in Starters : NameMission(r) \/ ActivateMission(r)
  \/ SaveSessions \/ ReloadSessions

SessionSpec == SessionInit /\ [][SessionNext]_sessionVars

----------------------------------------------------------------------------
(* Properties.                                                              *)

Versioned == [version : 1..MaxEdits, text : Texts]
Session == [status : SessionStatus, text : Texts \cup {NoText}, version : 0..MaxEdits,
            history : Seq(Versioned), blank : SUBSET (0..MaxEdits)]
Starting == {Waiting} \cup [id : SessionIds, text : Texts, step : {"text", "activate"}]

SessionTypeOK ==
  /\ \A f \in {sessions, savedCopy} : /\ DOMAIN f \subseteq SessionIds
                                    /\ f \in [DOMAIN f -> Session]
  /\ starts \in [Starters -> Starting]

\* Active and paused sessions never exceed the cap, in memory and on the disk, though
\* sessions are deleted and created between the steps of others.
Holders(f) == {i \in DOMAIN f : f[i].status \in {"active", "paused"}}
SessionCap ==
  /\ Cardinality(Holders(sessions)) <= MaxConcurrent
  /\ Cardinality(Holders(savedCopy)) <= MaxConcurrent

\* The history tells every earlier text of a session that was not empty, under the
\* version it had, in order and once; a session that holds resources has had a text.
\* (It may have none now: nothing keeps an active session from an empty text.)
Told(s) == {s.history[k].version : k \in DOMAIN s.history}
Whole(s) ==
  /\ Told(s) = (0..(s.version - 1)) \ s.blank
  /\ \A j, k \in DOMAIN s.history : j < k => s.history[j].version < s.history[k].version
  /\ s.version \in s.blank <=> s.text = NoText
  /\ s.status \in {"active", "paused"} => s.version > 0
HistoryWhole == \A i \in Existing : Whole(sessions[i])

\* The cap holds and no text of a session is lost, though sessions are edited, deleted,
\* created again and brought back by a restart while missions are started on them.
SessionsWhole == SessionCap /\ HistoryWhole
=============================================================================
