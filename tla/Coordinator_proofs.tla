---------------------------- MODULE Coordinator_proofs ----------------------------
(***************************************************************************)
(* Proofs about Sessions: the cap and the history hold for every set of    *)
(* sessions and texts, any number of starts at once and every cap. And     *)
(* about BenchAutoload: for every set of models, sizes and measured rates, *)
(* any number of devices and every target, limit and bound on failures, a  *)
(* device serves what it is shown to serve, and that is the closest model. *)
(* And about Autoload: for every set of models and sizes, every number of  *)
(* devices and every memory, a plan fits its devices and leaves no room    *)
(* that a model could use, and a run that is not over waits for a command  *)
(* that is on its way. The last section is about these three and Flock     *)
(* side by side, as they are model-checked (MCCoordinator).                *)
(***************************************************************************)
EXTENDS MCCoordinator, Flock_proofs, FiniteSetTheorems, SequenceTheorems,
        WellFoundedInduction

\* A session begins without a text, and no later version is known to be empty.
Numbered(s) == 0 \in s.blank /\ s.blank \subseteq 0..s.version

\* What has to hold of the sessions in memory and of those in the file alike.
Sound(f) == /\ \A i \in DOMAIN f : Whole(f[i]) /\ Numbered(f[i])
            /\ Cardinality(Holders(f)) <= MaxConcurrent

\* The sets of sessions there may be, and the types with them.
Stores == UNION {[S -> Session] : S \in SUBSET SessionIds}
StoreTypes == /\ sessions \in Stores /\ savedCopy \in Stores
              /\ starts \in [Starters -> Starting]

\* The inductive invariant: a reload brings back what was saved, so the saved
\* sessions are as sound as the others; and a session that gets a text must have
\* a version by then, which needs the version 0 to be an empty one.
SessionInv == StoreTypes /\ Sound(sessions) /\ Sound(savedCopy)

----------------------------------------------------------------------------
(* Stores of sessions.                                                      *)

\* What a store is.
LEMMA StoreIs ==
  ASSUME NEW f
  PROVE  f \in Stores <=> /\ DOMAIN f \subseteq SessionIds
                          /\ f \in [DOMAIN f -> Session]
<1>1. ASSUME f \in Stores PROVE DOMAIN f \subseteq SessionIds /\ f \in [DOMAIN f -> Session]
  BY <1>1 DEF Stores
<1>2. ASSUME DOMAIN f \subseteq SessionIds, f \in [DOMAIN f -> Session] PROVE f \in Stores
  BY <1>2 DEF Stores
<1> QED
  BY <1>1, <1>2

\* The sessions that hold resources are finitely many.
LEMMA HoldersFinite ==
  ASSUME NEW f \in Stores
  PROVE  IsFiniteSet(Holders(f)) /\ Cardinality(Holders(f)) \in Nat
<1>1. Holders(f) \subseteq SessionIds
  BY StoreIs DEF Holders
<1> QED
  BY <1>1, FS_Subset, FS_CardinalityType, SessionAssumption

\* A store with fewer holders than a sound one keeps to the cap.
LEMMA FewerHold ==
  ASSUME NEW f \in Stores, NEW g, Cardinality(Holders(f)) <= MaxConcurrent,
         Holders(g) \subseteq Holders(f)
  PROVE  Cardinality(Holders(g)) <= MaxConcurrent
<1>1. /\ IsFiniteSet(Holders(g)) /\ Cardinality(Holders(g)) <= Cardinality(Holders(f))
      /\ Cardinality(Holders(g)) \in Nat /\ Cardinality(Holders(f)) \in Nat
  BY HoldersFinite, FS_Subset, FS_CardinalityType
<1> QED
  BY <1>1, SessionAssumption

\* With writes one session and leaves the others.
LEMMA WithIs ==
  ASSUME sessions \in Stores, NEW i \in SessionIds, NEW s \in Session
  PROVE  /\ With(i, s) \in Stores
         /\ DOMAIN With(i, s) = Existing \cup {i}
         /\ With(i, s)[i] = s
         /\ \A j \in Existing \ {i} : With(i, s)[j] = sessions[j]
<1>1. Existing \subseteq SessionIds /\ sessions \in [Existing -> Session]
  BY StoreIs DEF Existing
<1>2. With(i, s) \in [Existing \cup {i} -> Session]
  BY <1>1 DEF With
<1>3. /\ DOMAIN With(i, s) = Existing \cup {i} /\ With(i, s)[i] = s
      /\ \A j \in Existing \ {i} : With(i, s)[j] = sessions[j]
  BY <1>1 DEF With
<1> QED
  BY <1>1, <1>2, <1>3, StoreIs

\* Writing a whole session that does not hold more than it did keeps a store sound.
LEMMA WithSound ==
  ASSUME sessions \in Stores, Sound(sessions), NEW i \in SessionIds, NEW s \in Session,
         Whole(s), Numbered(s),
         \/ s.status \notin {"active", "paused"}
         \/ i \in Existing /\ sessions[i].status \in {"active", "paused"}
  PROVE  With(i, s) \in Stores /\ Sound(With(i, s))
<1>0. /\ With(i, s) \in Stores /\ DOMAIN With(i, s) = Existing \cup {i}
      /\ With(i, s)[i] = s /\ \A j \in Existing \ {i} : With(i, s)[j] = sessions[j]
  BY WithIs
<1>1. \A j \in DOMAIN With(i, s) : Whole(With(i, s)[j]) /\ Numbered(With(i, s)[j])
  BY <1>0 DEF Sound, Existing
<1>2. Holders(With(i, s)) \subseteq Holders(sessions)
  BY <1>0 DEF Holders, Existing
<1> QED
  BY <1>0, <1>1, <1>2, FewerHold DEF Sound

\* So does one that begins to hold while there is room for it.
LEMMA WithRoom ==
  ASSUME sessions \in Stores, Sound(sessions), NEW i \in SessionIds, NEW s \in Session,
         Whole(s), Numbered(s), Room(i)
  PROVE  With(i, s) \in Stores /\ Sound(With(i, s))
<1> DEFINE Others == {j \in Existing \ {i} : sessions[j].status \in {"active", "paused"}}
<1>0. /\ With(i, s) \in Stores /\ DOMAIN With(i, s) = Existing \cup {i}
      /\ With(i, s)[i] = s /\ \A j \in Existing \ {i} : With(i, s)[j] = sessions[j]
  BY WithIs
<1>1. \A j \in DOMAIN With(i, s) : Whole(With(i, s)[j]) /\ Numbered(With(i, s)[j])
  BY <1>0 DEF Sound, Existing
<1>2. Holders(With(i, s)) \subseteq Others \cup {i}
  BY <1>0 DEF Holders
<1>3. IsFiniteSet(Others) /\ Cardinality(Others) \in Nat
  <2>1. Others \subseteq Holders(sessions)
    BY DEF Holders, Existing
  <2> QED
    BY <2>1, HoldersFinite, FS_Subset, FS_CardinalityType
<1>4. Cardinality(Others) < MaxConcurrent
  BY DEF Room
<1>5. IsFiniteSet(Others \cup {i}) /\ Cardinality(Others \cup {i}) <= MaxConcurrent
  <2> HIDE DEF Others
  <2>1. /\ IsFiniteSet(Others \cup {i})
        /\ Cardinality(Others \cup {i}) = IF i \in Others THEN Cardinality(Others)
                                          ELSE Cardinality(Others) + 1
    BY <1>3, FS_AddElement
  <2> QED
    BY <1>3, <1>4, <2>1, SessionAssumption
<1>6. Cardinality(Holders(With(i, s))) <= MaxConcurrent
  <2> HIDE DEF Others
  <2>1. /\ Cardinality(Holders(With(i, s))) <= Cardinality(Others \cup {i})
        /\ IsFiniteSet(Holders(With(i, s)))
    BY <1>2, <1>5, FS_Subset
  <2>2. /\ Cardinality(Holders(With(i, s))) \in Nat
        /\ Cardinality(Others \cup {i}) \in Nat
    BY <2>1, <1>5, FS_CardinalityType
  <2> QED
    BY <2>1, <2>2, <1>5, SessionAssumption
<1> QED
  BY <1>0, <1>1, <1>6 DEF Sound

----------------------------------------------------------------------------
(* What the operations make of the sessions.                                *)

\* A change of status leaves text, version and history alone.
LEMMA StatusWhole ==
  ASSUME SessionInv, NEW i \in Existing, NEW st \in SessionStatus,
         st \in {"active", "paused"} => sessions[i].version > 0
  PROVE  LET s == [sessions[i] EXCEPT !.status = st] IN
         i \in SessionIds /\ s \in Session /\ s.status = st /\ Whole(s) /\ Numbered(s)
<1>1. i \in SessionIds /\ sessions[i] \in Session
  BY StoreIs DEF SessionInv, StoreTypes, Existing
<1>2. Whole(sessions[i]) /\ Numbered(sessions[i])
  BY DEF SessionInv, Sound, Existing
<1> QED
  BY <1>1, <1>2 DEF Whole, Told, Numbered, Session

\* A new session waits for its first text.
LEMMA CreatedSound ==
  ASSUME SessionInv, NEW i \in SessionIds
  PROVE  Created(i) \in Stores /\ Sound(Created(i))
<1>1. NewSession \in Session /\ Numbered(NewSession)
  <2>1. <<>> \in Seq(Versioned) /\ {0} \in SUBSET (0..MaxEdits) /\ 0 \in 0..MaxEdits
    BY SessionAssumption
  <2> QED
    BY <2>1, SessionAssumption DEF NewSession, Session, SessionStatus, Numbered
<1>2. Whole(NewSession)
  <2>1. Told(NewSession) = {}
    BY DEF NewSession, Told
  <2>2. (0..(NewSession.version - 1)) \ NewSession.blank = {}
    BY DEF NewSession
  <2>3. DOMAIN NewSession.history = {} /\ 0 \in NewSession.blank
        /\ NewSession.version = 0 /\ NewSession.text = NoText /\ NewSession.status = "idle"
    BY DEF NewSession
  <2> QED
    BY <2>1, <2>2, <2>3 DEF Whole
<1>3. NewSession.status \notin {"active", "paused"}
  BY DEF NewSession
<1> QED
  BY <1>1, <1>2, <1>3, WithSound DEF Created, SessionInv, StoreTypes

\* An edit appends the text that was there to the history, once, unless it was empty.
LEMMA EditedSound ==
  ASSUME SessionInv, NEW i \in SessionIds, NEW t \in Texts \cup {NoText},
         i \in Existing => sessions[i].version < MaxEdits
  PROVE  Edited(i, t) \in Stores /\ Sound(Edited(i, t))
<1>1. CASE i \notin Existing \/ sessions[i].text = t
  BY <1>1 DEF Edited, SessionInv, StoreTypes
<1>2. CASE i \in Existing /\ sessions[i].text # t
  <2> DEFINE s == sessions[i]
             e == [version |-> s.version, text |-> s.text]
             h == IF s.text = NoText THEN s.history ELSE Append(s.history, e)
             b == IF t = NoText THEN s.blank \cup {s.version + 1} ELSE s.blank
             n == [s EXCEPT !.text = t, !.version = @ + 1, !.blank = b, !.history = h]
  <2>1. s \in Session /\ Whole(s) /\ Numbered(s)
    BY <1>2, StoreIs DEF SessionInv, StoreTypes, Existing, Sound
  <2>2. /\ s.version \in 0..(MaxEdits - 1) /\ MaxEdits \in Nat /\ s.history \in Seq(Versioned)
        /\ s.blank \subseteq 0..s.version /\ 0 \in s.blank /\ s.text \in Texts \cup {NoText}
        /\ s.version \in s.blank <=> s.text = NoText
    BY <1>2, <2>1, SessionAssumption DEF Session, Whole, Numbered
  <2>3. s.text # NoText => e \in Versioned
    BY <2>2, SessionAssumption DEF Versioned
  <2>4. /\ h \in Seq(Versioned) /\ b \in SUBSET (0..(s.version + 1)) /\ 0 \in b
        /\ s.version + 1 \in b <=> t = NoText
    BY <2>2, <2>3
  <2>5. n \in Session /\ Numbered(n)
    <3> HIDE DEF h, b
    <3>1. s.version + 1 \in 0..MaxEdits /\ b \in SUBSET (0..MaxEdits)
      BY <2>2, <2>4
    <3> HIDE DEF s
    <3>2. n \in Session
      BY <2>1, <2>4, <3>1 DEF Session
    <3>3. n.blank = b /\ n.version = s.version + 1
      BY <2>1 DEF Session
    <3> QED
      BY <2>4, <3>2, <3>3 DEF Numbered
  <2>6. /\ n.status = s.status /\ n.text = t /\ n.version = s.version + 1
        /\ n.history = h /\ n.blank = b
    <3> HIDE DEF h, b
    <3> QED
      BY <2>1 DEF Session
  <2>7. /\ Told(s) = (0..(s.version - 1)) \ s.blank
        /\ \A j, k \in DOMAIN s.history : j < k => s.history[j].version < s.history[k].version
    BY <2>1 DEF Whole
  <2>8. /\ {h[k].version : k \in DOMAIN h} = (0..s.version) \ b
        /\ \A j, k \in DOMAIN h : j < k => h[j].version < h[k].version
    <3>0. (0..s.version) \ b = (0..s.version) \ s.blank
      BY <2>2
    <3>1. CASE s.text = NoText
      <4>1. (0..s.version) \ s.blank = (0..(s.version - 1)) \ s.blank
        BY <3>1, <2>2
      <4> QED
        BY <3>0, <3>1, <4>1, <2>7 DEF Told
    <3>2. CASE s.text # NoText
      <4>1. /\ h = Append(s.history, e) /\ Len(s.history) \in Nat
            /\ DOMAIN s.history = 1..Len(s.history) /\ DOMAIN h = 1..(Len(s.history) + 1)
            /\ h[Len(s.history) + 1] = e
            /\ \A k \in DOMAIN s.history : h[k] = s.history[k]
        BY <3>2, <2>2, <2>3
      <4>2. e.version = s.version
        OBVIOUS
      <4>3. (0..s.version) \ s.blank = ((0..(s.version - 1)) \ s.blank) \cup {s.version}
        BY <3>2, <2>2
      <4>4. \A k \in DOMAIN s.history : s.history[k].version \in 0..(s.version - 1)
        BY <2>7 DEF Told
      <4> HIDE DEF h, e, s, b
      <4>5. {h[k].version : k \in DOMAIN h} = Told(s) \cup {s.version}
        BY <4>1, <4>2 DEF Told
      <4>6. ASSUME NEW j \in DOMAIN h, NEW k \in DOMAIN h, j < k
            PROVE  h[j].version < h[k].version
        <5>1. j \in DOMAIN s.history /\ h[j] = s.history[j]
          BY <4>1, <4>6
        <5>2. CASE k \in DOMAIN s.history
          BY <5>1, <5>2, <4>1, <4>6, <2>7
        <5>3. CASE k = Len(s.history) + 1
          <6>1. h[j].version \in 0..(s.version - 1) /\ h[k].version = s.version
            BY <5>1, <5>3, <4>1, <4>2, <4>4
          <6> QED
            BY <6>1, <2>2
        <5> QED
          BY <5>2, <5>3, <4>1
      <4> QED
        BY <3>0, <4>3, <4>5, <4>6, <2>7
    <3> QED
      BY <3>1, <3>2
  <2>9. Whole(n)
    <3>1. n.version - 1 = s.version /\ n.version > 0
      BY <2>2, <2>6
    <3> HIDE DEF h, n, s, b
    <3> QED
      BY <3>1, <2>4, <2>6, <2>8 DEF Whole, Told
  <2>10. n.status \notin {"active", "paused"} \/ sessions[i].status \in {"active", "paused"}
    BY <2>6
  <2>11. Edited(i, t) = With(i, n)
    BY <1>2 DEF Edited
  <2> HIDE DEF n
  <2> QED
    BY <1>2, <2>5, <2>9, <2>10, <2>11, WithSound DEF SessionInv, StoreTypes
<1> QED
  BY <1>1, <1>2

\* An activation needs room and a text.
LEMMA ActivatedSound ==
  ASSUME SessionInv, NEW i
  PROVE  Activated(i) \in Stores /\ Sound(Activated(i))
<1>1. CASE i \in Existing /\ sessions[i].status # "active" /\ Room(i) /\ sessions[i].text # NoText
  <2>1. sessions[i] \in Session /\ Whole(sessions[i]) /\ Numbered(sessions[i])
    BY <1>1, StoreIs DEF SessionInv, StoreTypes, Existing, Sound
  <2>2. sessions[i].version > 0
    BY <1>1, <2>1, SessionAssumption DEF Session, Whole, Numbered
  <2> QED
    BY <1>1, <2>2, StatusWhole, WithRoom
    DEF Activated, WithStatus, SessionInv, StoreTypes, SessionStatus
<1>2. CASE ~(i \in Existing /\ sessions[i].status # "active" /\ Room(i)
             /\ sessions[i].text # NoText)
  BY <1>2 DEF Activated, SessionInv, StoreTypes
<1> QED
  BY <1>1, <1>2

\* A session that is deleted takes nothing with it.
LEMMA DeletedSound ==
  ASSUME SessionInv, NEW i
  PROVE  LET f == [j \in Existing \ {i} |-> sessions[j]] IN f \in Stores /\ Sound(f)
<1> DEFINE f == [j \in Existing \ {i} |-> sessions[j]]
<1>1. Existing \subseteq SessionIds /\ sessions \in [Existing -> Session]
  BY StoreIs DEF SessionInv, StoreTypes, Existing
<1>2. DOMAIN f = Existing \ {i} /\ \A j \in Existing \ {i} : f[j] = sessions[j]
  OBVIOUS
<1>3. f \in [Existing \ {i} -> Session]
  BY <1>1
<1> HIDE DEF f
<1>4. f \in Stores
  BY <1>1, <1>2, <1>3, StoreIs
<1>5. Holders(f) \subseteq Holders(sessions)
  BY <1>2 DEF Holders, Existing
<1>6. Cardinality(Holders(f)) <= MaxConcurrent
  BY <1>5, FewerHold DEF SessionInv, StoreTypes, Sound
<1> QED
  BY <1>2, <1>4, <1>6 DEF SessionInv, Sound, Existing, f

----------------------------------------------------------------------------
(* The invariant.                                                           *)

\* There are no sessions at first.
LEMMA SoundInit == SessionInit => SessionInv
<1> SUFFICES ASSUME SessionInit PROVE SessionInv
  OBVIOUS
<1>1. DOMAIN sessions = {} /\ sessions \in Stores
  <2>1. sessions \in [{} -> Session]
    BY DEF SessionInit
  <2> QED
    BY <2>1 DEF Stores
<1>2. Sound(sessions)
  <2>1. Holders(sessions) = {}
    BY <1>1 DEF Holders
  <2> QED
    BY <1>1, <2>1, FS_EmptySet, SessionAssumption DEF Sound
<1>3. savedCopy = sessions /\ starts = [r \in Starters |-> Waiting]
  BY DEF SessionInit
<1> QED
  BY <1>1, <1>2, <1>3 DEF SessionInv, StoreTypes, Starting

\* A handler that has made something sound saves it.
LEMMA PutSound ==
  ASSUME SessionInv, NEW f \in Stores, Sound(f), Put(f)
  PROVE  SessionInv'
<1>1. sessions' = f /\ savedCopy' = f /\ starts' = starts
  BY DEF Put
<1>2. Sound(sessions)' /\ Sound(savedCopy)'
  BY <1>1 DEF Sound, Holders, Whole, Told, Numbered
<1> QED
  BY <1>1, <1>2 DEF SessionInv, StoreTypes, Stores, Session, Versioned, Starting, Waiting

\* A step of the start of a mission changes the sessions and not the file.
LEMMA StartSound ==
  ASSUME SessionInv, sessions' \in Stores, Sound(sessions'), UNCHANGED savedCopy,
         starts' \in [Starters -> Starting]
  PROVE  SessionInv'
<1>1. Sound(sessions)' /\ Sound(savedCopy)'
  BY DEF SessionInv, Sound, Holders, Whole, Told, Numbered
<1> QED
  BY <1>1 DEF SessionInv, StoreTypes, Stores, Session, Versioned, Starting, Waiting

\* Every step keeps the invariant.
LEMMA SoundStep == SessionInv /\ [SessionNext]_sessionVars => SessionInv'
<1> SUFFICES ASSUME SessionInv, [SessionNext]_sessionVars PROVE SessionInv'
  OBVIOUS
<1>0. /\ StoreTypes /\ Sound(sessions) /\ Sound(savedCopy)
  BY DEF SessionInv
<1>1. ASSUME NEW i \in SessionIds, CreateSession(i) PROVE SessionInv'
  BY <1>1, CreatedSound, PutSound DEF CreateSession
<1>2. ASSUME NEW i \in SessionIds, NEW t \in Texts \cup {NoText}, UpdateSession(i, t) PROVE SessionInv'
  BY <1>2, EditedSound, PutSound DEF UpdateSession
<1>3. ASSUME NEW i \in SessionIds, DeleteSession(i) PROVE SessionInv'
  BY <1>3, DeletedSound, PutSound DEF DeleteSession
<1>4. ASSUME NEW i \in SessionIds, ActivateSession(i) PROVE SessionInv'
  BY <1>4, ActivatedSound, PutSound DEF ActivateSession
<1>5. ASSUME NEW i \in SessionIds, PauseSession(i) PROVE SessionInv'
  <2>1. sessions[i].version > 0
    BY <1>5, <1>0 DEF PauseSession, Sound, Whole, Existing
  <2>2. WithStatus(i, "paused") \in Stores /\ Sound(WithStatus(i, "paused"))
    BY <1>0, <1>5, <2>1, StatusWhole, WithSound
    DEF PauseSession, WithStatus, StoreTypes, SessionStatus
  <2> QED
    BY <1>5, <2>2, PutSound DEF PauseSession
<1>6. ASSUME NEW i \in SessionIds, ResumeSession(i) PROVE SessionInv'
  <2>1. sessions[i].version > 0
    BY <1>6, <1>0 DEF ResumeSession, Sound, Whole, Existing
  <2>2. WithStatus(i, "active") \in Stores /\ Sound(WithStatus(i, "active"))
    BY <1>0, <1>6, <2>1, StatusWhole, WithSound
    DEF ResumeSession, WithStatus, StoreTypes, SessionStatus
  <2> QED
    BY <1>6, <2>2, PutSound DEF ResumeSession
<1>7. ASSUME NEW i \in SessionIds, CompleteSession(i) PROVE SessionInv'
  <2>1. WithStatus(i, "completed") \in Stores /\ Sound(WithStatus(i, "completed"))
    BY <1>0, <1>7, StatusWhole, WithSound
    DEF CompleteSession, WithStatus, StoreTypes, SessionStatus
  <2> QED
    BY <1>7, <2>1, PutSound DEF CompleteSession
<1>8. ASSUME NEW r \in Starters, NEW i \in SessionIds, NEW t \in Texts, BeginMission(r, i, t)
      PROVE  SessionInv'
  <2>1. sessions' \in Stores /\ Sound(sessions')
    BY <1>8, CreatedSound DEF BeginMission
  <2> QED
    BY <1>0, <1>8, <2>1, StartSound DEF BeginMission, StoreTypes, Starting
<1>9. ASSUME NEW r \in Starters, NameMission(r) PROVE SessionInv'
  <2>1. sessions' \in Stores /\ Sound(sessions')
    <3>1. starts[r].id \in SessionIds /\ starts[r].text \in Texts
      BY <1>0, <1>9 DEF NameMission, StartStep, StoreTypes, Starting, Waiting
    <3> QED
      BY <1>9, <3>1, EditedSound DEF NameMission
  <2> QED
    BY <1>0, <1>9, <2>1, StartSound DEF NameMission, StartStep, StoreTypes, Starting, Waiting
<1>10. ASSUME NEW r \in Starters, ActivateMission(r) PROVE SessionInv'
  <2>1. sessions' \in Stores /\ Sound(sessions')
    BY <1>10, ActivatedSound DEF ActivateMission
  <2> QED
    BY <1>0, <1>10, <2>1, StartSound DEF ActivateMission, Starting, StoreTypes
<1>11. CASE SaveSessions
  <2>1. sessions' = sessions /\ savedCopy' = sessions /\ starts' = starts
    BY <1>11 DEF SaveSessions
  <2>2. Sound(sessions)' /\ Sound(savedCopy)'
    BY <1>0, <2>1 DEF Sound, Holders, Whole, Told, Numbered
  <2> QED
    BY <1>0, <2>1, <2>2 DEF SessionInv, StoreTypes, Stores, Starting, Session, Versioned, Waiting
<1>12. CASE ReloadSessions
  <2>1. sessions' \in Stores /\ Sound(sessions')
    BY <1>0, <1>12 DEF ReloadSessions, StoreTypes
  <2> QED
    BY <1>12, <2>1, StartSound DEF ReloadSessions, Starting
<1>13. CASE UNCHANGED sessionVars
  <2>1. sessions' = sessions /\ savedCopy' = savedCopy /\ starts' = starts
    BY <1>13 DEF sessionVars
  <2>2. Sound(sessions)' /\ Sound(savedCopy)'
    BY <1>0, <2>1 DEF Sound, Holders, Whole, Told, Numbered
  <2> QED
    BY <1>0, <2>1, <2>2 DEF SessionInv, StoreTypes, Stores, Starting, Session, Versioned, Waiting
<1> QED
  BY <1>1, <1>2, <1>3, <1>4, <1>5, <1>6, <1>7, <1>8, <1>9, <1>10, <1>11, <1>12, <1>13
  DEF SessionNext

\* Every variable keeps its type; versions are numbered up to the bound.
THEOREM SessionTypeCorrect == SessionSpec => []SessionTypeOK
<1>1. SessionInv => SessionTypeOK
  BY StoreIs DEF SessionInv, StoreTypes, SessionTypeOK
<1> QED
  BY <1>1, SoundInit, SoundStep, PTL DEF SessionSpec

\* The cap holds and no text of a session is lost, in memory and after every reload, though
\* a text may be empty.
THEOREM SessionsStayWhole == SessionSpec => []SessionsWhole
<1>1. SessionInv => SessionsWhole
  BY DEF SessionInv, Sound, SessionsWhole, SessionCap, HistoryWhole, Existing
<1> QED
  BY <1>1, SoundInit, SoundStep, PTL DEF SessionSpec

----------------------------------------------------------------------------
(* BenchAutoload: the invariant.                                            *)

\* What the steps on a device rely on: within the limit, with a model to look at.
Steady ==
  /\ step = "empty" => device = 1
  /\ step \in {"fetch", "swap", "load"} => iteration < MaxIterations
  /\ step \in {"fetch", "swap", "load", "measure"} => model \in BenchModels /\ quarter \in 1..4
  /\ finalRate > 0 => final \in BenchModels
  /\ step = "revert" => finalRate > 0

\* Without faults a model is served until the next one is loaded, and the only download
\* under way is the one that is waited for.
ServedSoFar ==
  benchFaults = 0 =>
    /\ step # "done" => \A d \in BenchDevices : d >= device => shown[d].phase # "done"
    /\ \A d \in BenchDevices :
         job[d] # NoModel => d = device /\ step = "measure" /\ job[d] = model
    /\ step = "measure" => prev = model /\ model \in {serving[device], job[device]}
    /\ step = "measure" /\ job[device] # NoModel => serving[device] # model
    /\ step \in {"search", "fetch", "swap"} => serving[device] = prev
    /\ prev # NoModel => prev \in tried
    /\ step \in {"fetch", "swap", "load"} => model \notin tried
    /\ final # NoModel => prev # NoModel
    /\ step # "empty" => \A d \in BenchDevices :
                           d > device \/ (d = device /\ step = "device") => serving[d] = NoModel

\* The models T have been measured up to a budget: they are all there are below it, all
\* are fast, and the largest is the one to keep.
MeasuredBelow(T, q) ==
  /\ \A m \in T : m \in Stock /\ Quarter[m] < q /\ Fast(rate[m])
  /\ \A m \in Stock : Quarter[m] < q => m \in T
  /\ IF T = {} THEN final = NoModel /\ finalRate = 0
     ELSE final \in T /\ finalRate = rate[final] /\ \A m \in T : Quarter[m] <= Quarter[final]

\* With one model for each budget the search goes upwards.
Upwards ==
  benchFaults = 0 /\ OneEach =>
    /\ step = "search" => MeasuredBelow(tried, quarter)
    /\ step \in {"fetch", "swap", "load"} =>
         MeasuredBelow(tried, quarter) /\ model \in Stock /\ Quarter[model] = quarter
    /\ step \in {"measure", "revert"} =>
         /\ MeasuredBelow(tried \ {model}, quarter)
         /\ model \in tried /\ model \in Stock /\ Quarter[model] = quarter
    /\ step = "revert" => /\ ~Fast(rate[model])
                          /\ finalRate > 0 /\ Far(finalRate) < Far(rate[model])

\* The inductive invariant.
BenchInv == BenchTypeOK /\ Steady /\ ServedSoFar /\ ServesWhatIsShown /\ Upwards /\ ResultIsClosest

----------------------------------------------------------------------------
(* BenchAutoload: what the helpers return.                                  *)

\* A set of numbers has a smallest.
LEMMA SmallestNumber == ASSUME NEW T \in SUBSET Nat, T # {} PROVE \E x \in T : \A y \in T : x <= y
<1> DEFINE R == OpToRel(<, Nat)
<1>1. IsWellFoundedOn(R, Nat)
  BY NatLessThanWellFounded
<1>2. \A x, y \in Nat : <<y, x>> \in R <=> y < x
  BY DEF OpToRel
<1> HIDE DEF R
<1>3. \E x \in T : \A y \in T : ~ (<<y, x>> \in R)
  BY <1>1, WFMin
<1>4. PICK x \in T : \A y \in T : ~ (<<y, x>> \in R)
  BY <1>3
<1>5. \A y \in T : ~ (y < x)
  BY <1>2, <1>4
<1>6. \A y \in T : x <= y
  BY <1>5
<1> QED
  BY <1>6

\* A set of numbers up to n has a largest.
LEMMA LargestNumber ==
  ASSUME NEW n \in Nat, NEW S \in SUBSET (1..n), S # {}
  PROVE  Max(S) \in S
<1> DEFINE T == {n - i : i \in S}
<1>1. T \in SUBSET Nat /\ T # {}
  <2>1. \A i \in S : n - i \in Nat
    OBVIOUS
  <2> QED
    BY <2>1
<1> HIDE DEF T
<1>2. \E k \in T : \A m \in T : k <= m
  BY <1>1, SmallestNumber
<1> USE DEF T
<1>5. PICK k \in T : \A m \in T : k <= m
  BY <1>2
<1>3. PICK i \in S : k = n - i
  BY <1>5
<1>4. \A j \in S : i >= j
  <2> SUFFICES ASSUME NEW j \in S PROVE i >= j
    OBVIOUS
  <2>1. n - i <= n - j
    BY <1>5, <1>3
  <2> QED
    BY <2>1
<1> HIDE DEF T
<1> QED
  BY <1>4 DEF Max

\* A model picked is one of the library, untried and within the budget; none is picked
\* only if there is none.
LEMMA PickFits ==
  ASSUME library \subseteq BenchModels, NEW q \in 1..4, NEW T
  PROVE  IF Pick(q, T) = NoModel
         THEN \A m \in library : Quarter[m] <= q => m \in T
         ELSE Pick(q, T) \in library \ T /\ Quarter[Pick(q, T)] <= q
<1> DEFINE fits == {m \in library \ T : Quarter[m] <= q}
           S == {Position(m) : m \in fits}
<1>1. NoModel \notin fits /\ Len(Order) \in Nat /\ DOMAIN Order = 1..Len(Order)
  BY BenchAssumption
<1>2. \A m \in BenchModels : Position(m) \in DOMAIN Order /\ Order[Position(m)] = m
  BY DEF BenchModels, Position
<1>3. CASE fits = {}
  BY <1>3 DEF Pick
<1>4. CASE fits # {}
  <2>1. S \in SUBSET (1..Len(Order)) /\ S # {}
    BY <1>1, <1>2, <1>4
  <2>2. Max(S) \in S
    BY <1>1, <2>1, LargestNumber
  <2>3. PICK m \in fits : Max(S) = Position(m)
    BY <2>2
  <2>4. Order[Max(S)] = m
    BY <1>2, <2>3
  <2>5. Pick(q, T) = Order[Max(S)]
    BY <1>4 DEF Pick
  <2> HIDE DEF S
  <2> QED
    BY <1>1, <2>3, <2>4, <2>5
<1> QED
  BY <1>3, <1>4

\* The same of the catalog.
LEMMA CatalogFits ==
  ASSUME NEW q \in 1..4, NEW T
  PROVE  IF PickFromCatalog(q, T) = NoModel
         THEN \A i \in DOMAIN Catalog : Quarter[Catalog[i]] <= q => Catalog[i] \in T
         ELSE /\ PickFromCatalog(q, T) \in {Catalog[i] : i \in DOMAIN Catalog} \ T
              /\ PickFromCatalog(q, T) \in BenchModels
              /\ Quarter[PickFromCatalog(q, T)] <= q
<1> DEFINE fits == {i \in DOMAIN Catalog : Catalog[i] \notin T /\ Quarter[Catalog[i]] <= q}
<1>1. \A i \in DOMAIN Catalog : Catalog[i] \in BenchModels /\ Catalog[i] # NoModel /\ i \in Nat
  BY BenchAssumption
<1>2. CASE fits = {}
  BY <1>2 DEF PickFromCatalog
<1>3. CASE fits # {}
  <2>4. fits \in SUBSET Nat
    BY <1>1
  <2> HIDE DEF fits
  <2>1. \E k \in fits : \A i \in fits : k <= i
    BY <1>3, <2>4, SmallestNumber
  <2>2. Min(fits) \in fits
    BY <2>1 DEF Min
  <2>3. PickFromCatalog(q, T) = Catalog[Min(fits)]
    BY <1>3 DEF PickFromCatalog, fits
  <2> USE DEF fits
  <2> QED
    BY <1>1, <2>2, <2>3
<1> QED
  BY <1>2, <1>3

----------------------------------------------------------------------------
(* BenchAutoload: the types.                                                *)

\* At the start nothing is shown as done.
LEMMA BenchStarts == BenchInit => BenchInv
<1> SUFFICES ASSUME BenchInit PROVE BenchInv
  OBVIOUS
<1>1. Order[1] \in BenchModels
  <2>1. 1 \in DOMAIN Order
    BY BenchAssumption
  <2> QED
    BY <2>1 DEF BenchModels
<1>2. BenchTypeOK
  BY <1>1, BenchAssumption DEF BenchInit, BenchTypeOK, BenchDevices
<1>3. Steady /\ ServedSoFar /\ ServesWhatIsShown /\ Upwards /\ ResultIsClosest
  BY DEF BenchInit, Steady, ServedSoFar, ServesWhatIsShown, Upwards, ResultIsClosest
<1> QED
  BY <1>2, <1>3 DEF BenchInv

\* Leaving a device goes to the next one or ends.
LEMMA LeavesFor ==
  ASSUME BenchTypeOK, LeaveDevice
  PROVE  /\ device' \in BenchDevices /\ step' \in {"device", "done"}
         /\ step' = "device" => device' = device + 1
         /\ step' = "done" => device' = device
BY BenchAssumption DEF BenchTypeOK, LeaveDevice, Go, BenchDevices

\* Every step keeps the types.
LEMMA BenchTypeStep ==
  ASSUME BenchTypeOK, Steady, [BenchNext]_benchVars
  PROVE  BenchTypeOK' /\ Steady'
<1> USE DEF BenchTypeOK
<1>1. /\ library \subseteq BenchModels /\ rate \in [BenchModels -> Nat \ {0}]
      /\ NoModel \notin BenchModels
  BY BenchAssumption
<1>2. ASSUME BenchFault \/ NoFault PROVE benchFaults' \in 0..MaxBenchFaults
  BY <1>2, BenchAssumption DEF BenchFault, NoFault
<1>3. ASSUME NEW phase \in {"pending", "active", "done", "failed"},
             NEW m \in BenchModels \cup {NoModel}, Show(phase, m)
      PROVE  shown' \in [BenchDevices -> [phase : {"pending", "active", "done", "failed"},
                                          model : BenchModels \cup {NoModel}]]
  BY <1>3 DEF Show
<1>4. ASSUME NEW m \in BenchModels \cup {NoModel}, Serve(m)
      PROVE  serving' \in [BenchDevices -> BenchModels \cup {NoModel}]
  BY <1>4 DEF Serve
<1>5. ASSUME NEW r \in {rate[m] : m \in BenchModels}, step = "measure", Decide(r),
             UNCHANGED <<library, rate, iteration, model>>
      PROVE  /\ final' \in BenchModels \cup {NoModel} /\ device' \in BenchDevices
             /\ finalRate' \in {0} \cup {rate[m] : m \in BenchModels}
             /\ quarter' \in 1..5 /\ step' \in {"device", "search", "revert", "done"}
             /\ shown' \in [BenchDevices -> [phase : {"pending", "active", "done", "failed"},
                                             model : BenchModels \cup {NoModel}]]
             /\ finalRate' > 0 => final' \in BenchModels
             /\ step' = "revert" => finalRate' > 0
  <2>1. CASE Fast(r)
    BY <1>5, <2>1 DEF Decide, Steady, Go
  <2>2. CASE ~Fast(r) /\ finalRate > 0 /\ Far(finalRate) < Far(r)
    BY <1>5, <2>2 DEF Decide, Go, Steady
  <2>3. CASE /\ final' = model /\ finalRate' = r /\ Show("done", model) /\ LeaveDevice
             /\ UNCHANGED quarter
    BY <1>3, <1>5, <2>3, LeavesFor DEF Steady
  <2> QED
    BY <1>5, <2>1, <2>2, <2>3 DEF Decide
<1>6. CASE UnloadFirst \/ NextDevice
  <2>1. CASE UnloadFirst
    BY <1>2, <2>1 DEF UnloadFirst, Go, searchVars, Steady
  <2>2. CASE NextDevice
    BY <1>1, <1>3, <2>2, BenchAssumption DEF NextDevice, Go, Steady
  <2> QED
    BY <1>6, <2>1, <2>2
<1>7. CASE Limit
  BY <1>7, LeavesFor DEF Limit, searchVars, Steady
<1>8. CASE Search
  <2> DEFINE own == Pick(quarter, tried)
             other == PickFromCatalog(quarter, tried)
  <2>1. quarter \in 1..4 /\ step = "search" /\ iteration < MaxIterations
    BY <1>8 DEF Search
  <2>2. own \in BenchModels \cup {NoModel} /\ other \in BenchModels \cup {NoModel}
    BY <1>1, <2>1, PickFits, CatalogFits
  <2>3. UNCHANGED <<library, rate, tried, final, finalRate, prev, iteration, serving, job, benchFaults>>
    BY <1>8 DEF Search
  <2> HIDE DEF own, other
  <2>4. CASE own # NoModel /\ model' = own /\ Show("active", own) /\ Go("swap") /\ UNCHANGED <<device, quarter>>
    BY <1>3, <2>1, <2>2, <2>3, <2>4 DEF Go, Steady
  <2>5. CASE other # NoModel /\ model' = other /\ Go("fetch") /\ UNCHANGED <<device, quarter, shown>>
    BY <2>1, <2>2, <2>3, <2>5 DEF Go, Steady
  <2>6. CASE LeaveDevice /\ UNCHANGED <<model, quarter, shown>>
    BY <2>1, <2>3, <2>6, LeavesFor DEF Steady
  <2>7. CASE quarter' = quarter + 1 /\ UNCHANGED <<step, device, model, shown>>
    BY <2>1, <2>3, <2>7 DEF Steady
  <2> QED
    BY <1>8, <2>4, <2>5, <2>6, <2>7 DEF Search, own, other
<1>9. CASE Fetch_ \/ LoadModel
  <2>1. /\ model \in BenchModels /\ quarter \in 1..4 /\ iteration < MaxIterations
        /\ UNCHANGED <<library, rate, device, final, finalRate, model>>
        /\ tried' = tried \cup {model} /\ iteration' = iteration + 1
        /\ benchFaults' \in 0..MaxBenchFaults
    BY <1>2, <1>9 DEF Fetch_, LoadModel, Steady
  <2>2. \/ step' = "measure" /\ prev' = model /\ quarter' = quarter
        \/ step' = "search" /\ prev' = prev /\ quarter' = quarter + 1
    <3>1. Failed => step' = "search" /\ prev' = prev /\ quarter' = quarter + 1
      BY DEF Failed, Go
    <3>2. Failed \/ (Go("measure") /\ prev' = model /\ quarter' = quarter)
      BY <1>9 DEF Fetch_, LoadModel
    <3> QED
      BY <3>1, <3>2 DEF Go
  <2>3. /\ tried' \subseteq BenchModels /\ iteration' \in 0..MaxIterations
        /\ quarter' \in 1..5 /\ prev' \in BenchModels \cup {NoModel} /\ Steady'
    BY <2>1, <2>2, BenchAssumption DEF Steady
  <2>4. /\ shown' \in [BenchDevices -> [phase : {"pending", "active", "done", "failed"},
                                        model : BenchModels \cup {NoModel}]]
        /\ serving' \in [BenchDevices -> BenchModels \cup {NoModel}]
        /\ job' \in [BenchDevices -> BenchModels \cup {NoModel}]
    <3>1. CASE Fetch_
      BY <1>3, <2>1, <3>1 DEF Fetch_
    <3>2. CASE LoadModel
      BY <1>4, <2>1, <3>2 DEF LoadModel
    <3> QED
      BY <1>9, <3>1, <3>2
  <2> QED
    BY <2>1, <2>2, <2>3, <2>4
<1>10. CASE Swap
  BY <1>2, <1>10 DEF Swap, Go, searchVars, Steady
<1>11. CASE Measure \/ MeasureAny
  <2>1. /\ step = "measure" /\ UNCHANGED <<library, rate, tried, prev, model, iteration, serving, job>>
        /\ BenchFault \/ NoFault
    BY <1>11 DEF Measure, MeasureAny, NoFault
  <2>2. ASSUME NEW m \in BenchModels, Decide(rate[m]) PROVE BenchTypeOK' /\ Steady'
    BY <1>1, <1>2, <1>5, <2>1, <2>2 DEF Steady
  <2>3. CASE quarter' = quarter + 1 /\ Go("search") /\ UNCHANGED <<device, final, finalRate, shown>>
    BY <1>2, <2>1, <2>3 DEF Steady, Go
  <2>4. \/ \E m \in BenchModels : Decide(rate[m])
        \/ quarter' = quarter + 1 /\ Go("search") /\ UNCHANGED <<device, final, finalRate, shown>>
    <3>1. CASE Measure
      BY <2>1, <3>1 DEF Measure, Steady
    <3>2. CASE MeasureAny
      BY <3>2 DEF MeasureAny
    <3> QED
      BY <1>11, <3>1, <3>2
  <2> QED
    BY <2>2, <2>3, <2>4
<1>12. CASE Revert \/ Exhausted
  <2>1. /\ LeaveDevice /\ UNCHANGED <<library, rate, searchVars, iteration, job>>
        /\ Reloaded \/ UNCHANGED <<serving, benchFaults>>
        /\ Show("done", final) \/ Show("failed", shown[device].model)
    BY <1>12 DEF Revert, Exhausted
  <2>2. serving' \in [BenchDevices -> BenchModels \cup {NoModel}] /\ benchFaults' \in 0..MaxBenchFaults
    BY <1>2, <1>4, <2>1 DEF Reloaded
  <2>3. shown' \in [BenchDevices -> [phase : {"pending", "active", "done", "failed"},
                                     model : BenchModels \cup {NoModel}]]
    BY <1>3, <2>1
  <2> QED
    BY <2>1, <2>2, <2>3, LeavesFor DEF searchVars, Steady
<1>13. ASSUME NEW d \in BenchDevices, JobEnds(d) PROVE BenchTypeOK' /\ Steady'
  BY <1>2, <1>13 DEF JobEnds, searchVars, Steady
<1>14. CASE UNCHANGED benchVars
  BY <1>14 DEF benchVars, searchVars, Steady
<1> QED
  BY <1>6, <1>7, <1>8, <1>9, <1>10, <1>11, <1>12, <1>13, <1>14 DEF BenchNext, Worker

----------------------------------------------------------------------------
(* BenchAutoload: what is shown is served.                                  *)

\* Leaving a device, which is shown as m, when that is what it serves.
LEMMA ShownAndLeft ==
  ASSUME BenchTypeOK, ServedSoFar, ServesWhatIsShown, step # "done", LeaveDevice, NEW m,
         Show("done", m), serving'[device] = m,
         \A d \in BenchDevices \ {device} : serving'[d] = serving[d],
         UNCHANGED <<job, benchFaults>>, benchFaults = 0 => job[device] = NoModel,
         UNCHANGED <<prev, tried>>, final' = final \/ prev # NoModel, step # "empty"
  PROVE  ServedSoFar' /\ ServesWhatIsShown'
<1>1. /\ device' \in BenchDevices /\ step' \in {"device", "done"}
      /\ step' = "device" => device' = device + 1
  BY LeavesFor
<1>2. /\ shown'[device] = [phase |-> "done", model |-> m]
      /\ \A d \in BenchDevices \ {device} : shown'[d] = shown[d]
  BY DEF Show, BenchTypeOK
<1>3. ServesWhatIsShown'
  BY <1>2 DEF ServesWhatIsShown
<1>4. ASSUME step' = "device", benchFaults = 0, NEW d \in BenchDevices, d >= device'
      PROVE  shown'[d].phase # "done"
  BY <1>1, <1>2, <1>4 DEF BenchTypeOK, BenchDevices, ServedSoFar
<1>5. benchFaults = 0 => \A d \in BenchDevices : job'[d] = NoModel
  BY DEF ServedSoFar
<1>6. ASSUME benchFaults = 0, NEW d \in BenchDevices, d > device \/ (d = device' /\ step' = "device")
      PROVE  serving'[d] = NoModel
  BY <1>1, <1>6 DEF BenchTypeOK, BenchDevices, ServedSoFar
<1>7. ASSUME benchFaults = 0, NEW d \in BenchDevices, d > device' PROVE d > device
  BY <1>1, <1>7, LeavesFor DEF BenchTypeOK, BenchDevices
<1>8. ServedSoFar'
  BY <1>1, <1>4, <1>5, <1>6, <1>7 DEF ServedSoFar
<1> QED
  BY <1>3, <1>8

\* As long as nothing fails.
LEMMA ServedStep ==
  ASSUME BenchTypeOK, Steady, ServedSoFar, ServesWhatIsShown, [BenchNext]_benchVars
  PROVE  ServedSoFar' /\ ServesWhatIsShown'
<1>1. benchFaults \in Nat /\ NoModel \notin BenchModels /\ device \in BenchDevices
      /\ \A d \in BenchDevices : d \in Nat
  BY BenchAssumption DEF BenchTypeOK, BenchDevices
<1>2. (BenchFault => benchFaults' # 0) /\ (NoFault => benchFaults' = benchFaults)
  BY <1>1 DEF BenchFault, NoFault
<1>3. ASSUME benchFaults' # 0 PROVE ServedSoFar' /\ ServesWhatIsShown'
  BY <1>3 DEF ServedSoFar, ServesWhatIsShown
\* Nothing is shown as done, and nothing is served elsewhere.
<1>4. ASSUME UNCHANGED <<device, benchFaults>>, step \notin {"done", "measure"}, step' # "done",
             \/ shown' = shown \/ \E m : Show("active", m),
             \A d \in BenchDevices : shown[d].phase = "done" => serving'[d] = serving[d]
      PROVE  /\ ServesWhatIsShown'
             /\ benchFaults' = 0 => \A d \in BenchDevices : d >= device' => shown'[d].phase # "done"
  <2>1. \A d \in BenchDevices : shown'[d] = shown[d] \/ (d = device /\ shown'[d].phase = "active")
    BY <1>4 DEF Show, BenchTypeOK
  <2> QED
    BY <1>4, <2>1 DEF ServedSoFar, ServesWhatIsShown
<1>5. benchFaults = 0 /\ step # "measure" => \A d \in BenchDevices : job[d] = NoModel
  BY DEF ServedSoFar
<1>6. benchFaults = 0 /\ step # "done" => shown[device].phase # "done"
  BY <1>1 DEF ServedSoFar
<1>7. ASSUME NEW m, Serve(m)
      PROVE  serving'[device] = m /\ \A d \in BenchDevices \ {device} : serving'[d] = serving[d]
  BY <1>7 DEF Serve, BenchTypeOK
<1>7a. ASSUME benchFaults = 0, step # "empty", device' = device, step' # "device",
              \A d \in BenchDevices \ {device} : serving'[d] = serving[d]
       PROVE  \A d \in BenchDevices :
                d > device' \/ (d = device' /\ step' = "device") => serving'[d] = NoModel
  BY <1>1, <1>7a DEF ServedSoFar
<1>8. CASE UnloadFirst
  <2>1. CASE benchFaults' = benchFaults /\ benchFaults = 0
    <3>1. step = "empty" /\ step' = "device" /\ UNCHANGED <<device, shown, job, prev, final, tried>>
      BY <1>8 DEF UnloadFirst, Go, searchVars
    <3>3. serving' = [d \in BenchDevices |-> NoModel]
      BY <1>2, <1>8, <2>1 DEF UnloadFirst
    <3>2. \A d \in BenchDevices : shown[d].phase # "done"
      BY <2>1, <3>1 DEF Steady, ServedSoFar, BenchDevices
    <3> QED
      BY <1>1, <1>5, <2>1, <3>1, <3>2, <3>3 DEF ServedSoFar, ServesWhatIsShown
  <2> QED
    BY <1>2, <1>3, <1>8, <2>1 DEF UnloadFirst
<1>9. CASE NextDevice
  <2>1. /\ UNCHANGED <<device, serving, job, benchFaults>> /\ step = "device" /\ step' = "search"
        /\ prev' = NoModel /\ final' = NoModel /\ tried' = {} /\ \E m : Show("active", m)
    BY <1>9 DEF NextDevice, Go
  <2>2. /\ ServesWhatIsShown'
        /\ benchFaults' = 0 => \A d \in BenchDevices : d >= device' => shown'[d].phase # "done"
    BY <1>4, <2>1
  <2>4. benchFaults = 0 => serving'[device] = NoModel
    BY <1>1, <2>1 DEF ServedSoFar
  <2>5. benchFaults = 0 => \A d \in BenchDevices :
             d > device' \/ (d = device' /\ step' = "device") => serving'[d] = NoModel
    BY <1>7a, <2>1
  <2>3. ServedSoFar'
    BY <1>5, <2>1, <2>2, <2>4, <2>5 DEF ServedSoFar
  <2> QED
    BY <2>2, <2>3
\* The search leaves a device that is not shown as done.
<1>10. ASSUME LeaveDevice, step = "search", UNCHANGED <<serving, job, benchFaults, prev, tried, final>>,
              shown' = shown \/ \E m : Show("failed", m)
       PROVE  ServedSoFar' /\ ServesWhatIsShown'
  <2>1. /\ device' \in BenchDevices /\ step' \in {"device", "done"}
        /\ step' = "device" => device' = device + 1
    BY <1>10, LeavesFor
  <2>6. \A d \in BenchDevices : shown'[d] = shown[d] \/ shown'[d].phase = "failed"
    BY <1>10 DEF Show, BenchTypeOK
  <2>2. ServesWhatIsShown'
    BY <1>10, <2>6 DEF ServesWhatIsShown
  <2>3. ASSUME benchFaults = 0, NEW d \in BenchDevices, d > device' \/ (d = device' /\ step' = "device")
        PROVE  serving'[d] = NoModel
    <3>1. d > device
      BY <1>1, <2>1, <2>3, <1>10, LeavesFor DEF BenchDevices, BenchTypeOK
    <3> QED
      BY <1>10, <2>3, <3>1 DEF ServedSoFar
  <2>4. ASSUME benchFaults = 0, NEW d \in BenchDevices, d >= device', step' # "done"
        PROVE  shown'[d].phase # "done"
    <3>1. d >= device
      BY <1>1, <2>1, <2>4
    <3> QED
      BY <1>10, <2>4, <2>6, <3>1 DEF ServedSoFar
  <2>5. ServedSoFar'
    BY <1>5, <1>10, <2>1, <2>3, <2>4 DEF ServedSoFar
  <2> QED
    BY <2>2, <2>5
<1>11. CASE Limit
  BY <1>10, <1>11 DEF Limit, searchVars
<1>12. CASE Search
  <2>1. step = "search" /\ UNCHANGED <<final, prev, tried, serving, job, benchFaults>>
    BY <1>12 DEF Search
  <2>2. \/ LeaveDevice /\ UNCHANGED shown
        \/ /\ device' = device /\ step' \in {"search", "fetch", "swap"}
           /\ shown' = shown \/ \E m : Show("active", m)
    BY <1>12 DEF Search, Go
  <2>3. CASE /\ device' = device /\ step' \in {"search", "fetch", "swap"}
             /\ shown' = shown \/ \E m : Show("active", m)
    <3>1. /\ ServesWhatIsShown'
          /\ benchFaults' = 0 => \A d \in BenchDevices : d >= device' => shown'[d].phase # "done"
      BY <1>4, <2>1, <2>3
    <3>2. step' \in {"fetch", "swap"} => model' \notin tried
      <4>1. /\ quarter \in 1..4 /\ library \subseteq BenchModels
            /\ step' = "swap" => model' # NoModel /\ model' = Pick(quarter, tried)
            /\ step' = "fetch" => model' # NoModel /\ model' = PickFromCatalog(quarter, tried)
        BY <1>12, BenchAssumption, <2>1, <2>3, LeavesFor DEF Search, Go, BenchTypeOK
      <4> QED
        BY <4>1, PickFits, CatalogFits
    <3>3. benchFaults = 0 => \A d \in BenchDevices :
               d > device' \/ (d = device' /\ step' = "device") => serving'[d] = NoModel
      BY <1>7a, <2>1, <2>3
    <3>4. ServedSoFar'
      BY <1>5, <2>1, <2>3, <3>1, <3>2, <3>3 DEF ServedSoFar
    <3> QED
      BY <3>1, <3>4
  <2> QED
    BY <1>10, <2>1, <2>2, <2>3
<1>13. CASE Fetch_
  <2>1. CASE BenchFault
    BY <1>2, <1>3, <2>1
  <2>2. CASE ~BenchFault
    <3>1. /\ step = "fetch" /\ step' = "measure" /\ prev' = model /\ tried' = tried \cup {model}
          /\ job' = [job EXCEPT ![device] = model] /\ Show("active", model)
          /\ UNCHANGED <<device, final, model, serving, benchFaults>>
      BY <1>2, <1>13, <2>2 DEF Fetch_, Go
    <3>2. /\ ServesWhatIsShown'
          /\ benchFaults' = 0 => \A d \in BenchDevices : d >= device' => shown'[d].phase # "done"
      BY <1>4, <3>1
    <3>3. model # NoModel /\ job'[device] = model /\ \A d \in BenchDevices \ {device} : job'[d] = job[d]
      BY <1>1, <3>1 DEF Steady, BenchTypeOK
    <3>5. benchFaults = 0 => serving[device] # model
      BY <3>1, <3>3 DEF ServedSoFar
    <3>6. benchFaults = 0 => \A d \in BenchDevices :
               d > device' \/ (d = device' /\ step' = "device") => serving'[d] = NoModel
      BY <1>7a, <3>1
    <3>4. ServedSoFar'
      BY <1>5, <3>1, <3>2, <3>3, <3>5, <3>6 DEF ServedSoFar
    <3> QED
      BY <3>2, <3>4
  <2> QED
    BY <2>1, <2>2
<1>14. CASE Swap
  <2>1. CASE BenchFault
    BY <1>2, <1>3, <2>1
  <2>2. CASE ~BenchFault
    <3>1. /\ step = "swap" /\ step' = "load" /\ UNCHANGED <<device, model, tried, prev, final, shown, job, benchFaults>>
          /\ \A d \in BenchDevices \ {device} : serving'[d] = serving[d]
      BY <1>2, <1>14, <2>2 DEF Swap, Go, searchVars, BenchTypeOK
    <3>2. CASE benchFaults = 0
      <4>1. \A d \in BenchDevices : shown[d].phase = "done" => serving'[d] = serving[d]
        BY <1>6, <3>1, <3>2
      <4>2. /\ ServesWhatIsShown'
            /\ \A d \in BenchDevices : d >= device' => shown'[d].phase # "done"
        BY <1>4, <3>1, <3>2, <4>1
      <4>3. \A d \in BenchDevices :
               d > device' \/ (d = device' /\ step' = "device") => serving'[d] = NoModel
        BY <1>7a, <3>1, <3>2
      <4>4. ServedSoFar'
        BY <1>5, <3>1, <3>2, <4>2, <4>3 DEF ServedSoFar
      <4> QED
        BY <4>2, <4>4
    <3> QED
      BY <1>3, <3>1, <3>2
  <2> QED
    BY <2>1, <2>2
<1>15. CASE LoadModel
  <2>1. CASE BenchFault
    BY <1>2, <1>3, <2>1
  <2>2. CASE ~BenchFault
    <3>1. /\ step = "load" /\ step' = "measure" /\ prev' = model /\ Serve(model)
          /\ tried' = tried \cup {model}
          /\ UNCHANGED <<device, final, model, shown, job, benchFaults>>
      BY <1>2, <1>15, <2>2 DEF LoadModel, Go
    <3>2. model # NoModel /\ serving'[device] = model
          /\ \A d \in BenchDevices \ {device} : serving'[d] = serving[d]
      BY <1>1, <1>7, <3>1 DEF Steady
    <3>3. CASE benchFaults = 0
      <4>1. \A d \in BenchDevices : shown[d].phase = "done" => serving'[d] = serving[d]
        BY <1>6, <3>1, <3>2, <3>3
      <4>2. /\ ServesWhatIsShown'
            /\ \A d \in BenchDevices : d >= device' => shown'[d].phase # "done"
        BY <1>4, <3>1, <3>3, <4>1
      <4>3. \A d \in BenchDevices :
               d > device' \/ (d = device' /\ step' = "device") => serving'[d] = NoModel
        BY <1>7a, <3>1, <3>2, <3>3
      <4>5. \A d \in BenchDevices : job'[d] = NoModel
        BY <1>5, <3>1, <3>3
      <4>4. ServedSoFar'
        BY <1>1, <3>1, <3>2, <3>3, <4>2, <4>3, <4>5 DEF ServedSoFar
      <4> QED
        BY <4>2, <4>4
    <3> QED
      BY <1>3, <3>1, <3>3
  <2> QED
    BY <2>1, <2>2
<1>16. CASE Measure \/ MeasureAny
  <2>1. CASE benchFaults' # 0
    BY <1>3, <2>1
  <2>2. CASE benchFaults' = 0
    <3>1. step = "measure" /\ UNCHANGED <<prev, model, tried, serving, job>>
      BY <1>16 DEF Measure, MeasureAny
    <3>2. benchFaults = 0
      <4>1. CASE Measure
        BY <2>2, <4>1 DEF Measure
      <4>2. CASE MeasureAny
        BY <1>2, <2>2, <4>2 DEF MeasureAny
      <4> QED
        BY <1>16, <4>1, <4>2
    <3>3. prev = model /\ model \in {serving[device], job[device]} /\ model # NoModel
      BY <1>1, <3>1, <3>2 DEF ServedSoFar, Steady
    <3>4. Measure
      BY <1>2, <1>16, <2>2, <3>3 DEF MeasureAny
    <3>5. serving[device] = model /\ Decide(rate[model]) /\ UNCHANGED benchFaults
      BY <3>4 DEF Measure
    <3>6. \A d \in BenchDevices : job[d] = NoModel
      BY <3>1, <3>2, <3>3, <3>5 DEF ServedSoFar
    <3>7. CASE /\ device' = device /\ shown' = shown /\ step' \in {"search", "revert"}
               /\ final' = final \/ final' = model
      <4>1. \A d \in BenchDevices :
               d > device' \/ (d = device' /\ step' = "device") => serving'[d] = NoModel
        BY <1>7a, <3>1, <3>2, <3>7
      <4>2. ServedSoFar' /\ ServesWhatIsShown'
        BY <3>1, <3>2, <3>3, <3>5, <3>6, <3>7, <4>1 DEF ServedSoFar, ServesWhatIsShown
      <4> QED
        BY <4>2
    <3>8. CASE Show("done", model) /\ LeaveDevice
      BY <3>1, <3>3, <3>5, <3>6, <3>8, ShownAndLeft, <1>1
    <3> QED
      BY <3>5, <3>7, <3>8 DEF Decide, Go
  <2> QED
    BY <2>1, <2>2
<1>17. ASSUME Reloaded \/ (UNCHANGED <<serving, benchFaults>> /\ (benchFaults = 0 => serving[device] = final)),
              Show("done", final), LeaveDevice, UNCHANGED <<searchVars, job>>,
              step \in {"search", "revert"}
       PROVE  ServedSoFar' /\ ServesWhatIsShown'
  <2>1. CASE benchFaults' # 0
    BY <1>3, <2>1
  <2>2. CASE benchFaults' = 0
    <3>1. benchFaults = 0 /\ UNCHANGED benchFaults
      BY <1>2, <1>17, <2>2 DEF Reloaded
    <3>2. /\ serving'[device] = final
          /\ \A d \in BenchDevices \ {device} : serving'[d] = serving[d]
      BY <1>2, <1>7, <1>17, <2>2, <3>1 DEF Reloaded
    <3> QED
      BY <1>1, <1>5, <1>17, <3>1, <3>2, ShownAndLeft DEF searchVars
  <2> QED
    BY <2>1, <2>2
<1>18. CASE Revert
  BY <1>17, <1>18 DEF Revert
<1>19. CASE Exhausted
  <2>1. LeaveDevice /\ UNCHANGED <<searchVars, job>> /\ step = "search"
    BY <1>19 DEF Exhausted
  <2>2. CASE final = NoModel
    <3>1. Show("failed", shown[device].model) /\ UNCHANGED <<serving, benchFaults>>
      BY <1>19, <2>2 DEF Exhausted
    <3> QED
      BY <1>10, <2>1, <3>1 DEF searchVars
  <2>3. CASE final # NoModel
    <3>1. /\ Show("done", final)
          /\ IF prev # final THEN Reloaded ELSE UNCHANGED <<serving, benchFaults>>
      BY <1>19, <2>3 DEF Exhausted
    <3>2. benchFaults = 0 => serving[device] = prev
      BY <2>1 DEF ServedSoFar
    <3> QED
      BY <1>17, <2>1, <3>1, <3>2
  <2> QED
    BY <2>2, <2>3
<1>21. ASSUME NEW d \in BenchDevices, JobEnds(d) PROVE ServedSoFar' /\ ServesWhatIsShown'
  <2>1. CASE benchFaults' # 0
    BY <1>3, <2>1
  <2>2. CASE benchFaults' = 0
    <3>1. benchFaults = 0 /\ job[d] # NoModel /\ job' = [job EXCEPT ![d] = NoModel]
          /\ serving' = [serving EXCEPT ![d] = job[d]]
          /\ UNCHANGED <<step, device, model, prev, tried, final, shown>>
      BY <1>2, <1>21, <2>2 DEF JobEnds, searchVars
    <3>2. d = device /\ step = "measure" /\ job[d] = model /\ shown[device].phase # "done"
      BY <1>1, <3>1 DEF ServedSoFar
    <3>3. /\ serving'[device] = model /\ \A e \in BenchDevices : job'[e] = NoModel
          /\ \A e \in BenchDevices \ {device} : serving'[e] = serving[e]
      BY <3>1, <3>2 DEF BenchTypeOK, ServedSoFar
    <3>4. \A e \in BenchDevices :
               e > device' \/ (e = device' /\ step' = "device") => serving'[e] = NoModel
      BY <1>7a, <3>1, <3>2, <3>3
    <3>5. ServedSoFar'
      BY <3>1, <3>2, <3>3, <3>4 DEF ServedSoFar
    <3>6. ServesWhatIsShown'
      BY <3>1, <3>2, <3>3 DEF ServesWhatIsShown
    <3> QED
      BY <3>5, <3>6
  <2> QED
    BY <2>1, <2>2
<1>22. CASE UNCHANGED benchVars
  BY <1>22 DEF benchVars, searchVars, ServedSoFar, ServesWhatIsShown
<1> QED
  BY <1>8, <1>9, <1>11, <1>12, <1>13, <1>14, <1>15, <1>16, <1>18, <1>19, <1>21, <1>22
     DEF BenchNext, Worker

----------------------------------------------------------------------------
(* BenchAutoload: the search goes upwards and keeps the closest.            *)

\* Without a fault the model under test is the one that is measured.
LEMMA MeasuresTheModel ==
  ASSUME BenchTypeOK, Steady, ServedSoFar, Measure \/ MeasureAny, benchFaults' = 0
  PROVE  Measure
<1>1. benchFaults \in Nat /\ NoModel \notin BenchModels /\ step = "measure"
  BY BenchAssumption DEF BenchTypeOK, Measure, MeasureAny
<1>2. CASE MeasureAny
  <2>1. NoFault /\ model \notin {serving[device], job[device]}
    BY <1>1, <1>2 DEF MeasureAny, BenchFault
  <2> QED
    BY <1>1, <2>1 DEF NoFault, ServedSoFar
<1> QED
  BY <1>2

\* What is in stock is among the models.
LEMMA StockIsKnown ==
  ASSUME BenchTypeOK
  PROVE  Stock \subseteq BenchModels /\ library \subseteq BenchModels /\ NoModel \notin BenchModels
         /\ rate \in [BenchModels -> Nat \ {0}] /\ Quarter \in [BenchModels -> 1..5] /\ Target \in Nat
BY BenchAssumption DEF BenchTypeOK, Stock

\* Of models that fall with their size the one with the larger budget is the slower.
LEMMA LargerIsSlower ==
  ASSUME BenchTypeOK, Falling, NEW m \in BenchModels, NEW n \in BenchModels, Quarter[m] < Quarter[n]
  PROVE  rate[m] > rate[n]
<1>1. PICK i \in DOMAIN Order : Order[i] = m
  BY DEF BenchModels
<1>2. PICK j \in DOMAIN Order : Order[j] = n
  BY DEF BenchModels
<1>3. i \in Nat /\ j \in Nat /\ Quarter[m] \in Nat /\ Quarter[n] \in Nat
  <2>1. DOMAIN Order = 1..Len(Order) /\ Len(Order) \in Nat
    BY BenchAssumption
  <2> QED
    BY <2>1, StockIsKnown
<1>4. i < j
  <2>1. CASE j < i
    <3>1. Quarter[Order[j]] <= Quarter[Order[i]]
      BY <2>1, BenchAssumption
    <3> QED
      BY <1>1, <1>2, <1>3, <3>1
  <2>2. i # j
    BY <1>1, <1>2, <1>3
  <2> QED
    BY <1>3, <2>1, <2>2
<1> QED
  BY <1>1, <1>2, <1>4 DEF Falling

\* Among fast models the largest is the closest to the target.
LEMMA LargestIsClosest ==
  ASSUME BenchTypeOK, Falling, OneEach, NEW T, NEW q, MeasuredBelow(T, q), NEW m \in T
  PROVE  /\ final \in T /\ finalRate = rate[final] /\ finalRate > 0 /\ final # NoModel
         /\ Far(finalRate) <= Far(rate[m])
<1>1. /\ final \in T /\ finalRate = rate[final] /\ Quarter[m] <= Quarter[final]
      /\ m \in Stock /\ final \in Stock /\ Fast(rate[m]) /\ Fast(rate[final])
  BY DEF MeasuredBelow
<1>2. /\ m \in BenchModels /\ final \in BenchModels /\ NoModel \notin BenchModels /\ Target \in Nat
      /\ rate[m] \in Nat \ {0} /\ rate[final] \in Nat \ {0}
      /\ Quarter[m] \in Nat /\ Quarter[final] \in Nat
  BY <1>1, StockIsKnown
<1>3. rate[m] >= Target /\ rate[final] >= Target
  BY <1>1, <1>2 DEF Fast
<1>4. rate[m] >= rate[final]
  <2>1. CASE Quarter[m] = Quarter[final]
    BY <1>1, <1>2, <2>1 DEF OneEach
  <2>2. CASE Quarter[m] < Quarter[final]
    BY <1>2, <2>2, LargerIsSlower
  <2> QED
    BY <1>1, <1>2, <2>1, <2>2
<1>5. Far(rate[final]) = rate[final] - Target /\ Far(rate[m]) = rate[m] - Target
  BY <1>2, <1>3 DEF Far
<1> QED
  BY <1>1, <1>2, <1>4, <1>5

\* A model in stock that is not among the measured and fits is that of the budget.
LEMMA PickedForTheBudget ==
  ASSUME BenchTypeOK, MeasuredBelow(tried, quarter), NEW m \in Stock, m \notin tried,
         Quarter[m] <= quarter
  PROVE  Quarter[m] = quarter
<1>1. Quarter[m] \in Nat /\ quarter \in Nat
  BY StockIsKnown DEF BenchTypeOK
<1> QED
  BY <1>1 DEF MeasuredBelow

\* The search goes from budget to budget.
LEMMA UpwardsStep ==
  ASSUME BenchTypeOK, Steady, ServedSoFar, Upwards, [BenchNext]_benchVars
  PROVE  Upwards'
<1> SUFFICES ASSUME benchFaults' = 0, OneEach' PROVE Upwards'
  BY DEF Upwards
<1>1. library' = library /\ rate' = rate /\ Stock' = Stock
  <2>1. library' = library /\ rate' = rate
    BY DEF BenchNext, Worker, UnloadFirst, NextDevice, Limit, Search, Fetch_, Swap, LoadModel,
           Measure, MeasureAny, Revert, Exhausted, JobEnds, benchVars
  <2> QED
    BY <2>1 DEF Stock
<1>2. benchFaults \in Nat /\ OneEach /\ (BenchFault => benchFaults' # 0)
  BY <1>1, BenchAssumption DEF BenchTypeOK, OneEach, BenchFault
<1>3. /\ Stock \subseteq BenchModels /\ library \subseteq BenchModels /\ NoModel \notin BenchModels
      /\ rate \in [BenchModels -> Nat \ {0}] /\ Quarter \in [BenchModels -> 1..5] /\ Target \in Nat
      /\ quarter \in 1..5
  BY StockIsKnown DEF BenchTypeOK
<1>4. step' \in {"empty", "device", "done"} => Upwards'
  BY DEF Upwards
<1>5. LeaveDevice => Upwards'
  BY <1>4, LeavesFor
<1>6. CASE UnloadFirst
  BY <1>4, <1>6 DEF UnloadFirst, Go
<1>7. CASE NextDevice
  <2>1. /\ step' = "search" /\ quarter' = 1 /\ tried' = {} /\ final' = NoModel /\ finalRate' = 0
    BY <1>7 DEF NextDevice, Go
  <2>2. MeasuredBelow(tried, quarter)'
    BY <1>1, <1>3, <2>1 DEF MeasuredBelow
  <2> QED
    BY <2>1, <2>2 DEF Upwards
<1>8. CASE Limit \/ Revert \/ Exhausted
  BY <1>5, <1>8 DEF Limit, Revert, Exhausted
<1>9. CASE Search
  <2> DEFINE own == Pick(quarter, tried)
             other == PickFromCatalog(quarter, tried)
  <2>1. /\ quarter \in 1..4 /\ step = "search" /\ UNCHANGED <<tried, final, finalRate, benchFaults>>
    BY <1>3, <1>9 DEF Search
  <2>2. MeasuredBelow(tried, quarter)
    BY <1>2, <2>1 DEF Upwards
  <2>3. IF own = NoModel THEN \A m \in library : Quarter[m] <= quarter => m \in tried
        ELSE own \in Stock \ tried /\ Quarter[own] <= quarter
    BY <1>3, <2>1, PickFits DEF Stock
  <2>4. IF other = NoModel
        THEN \A i \in DOMAIN Catalog : Quarter[Catalog[i]] <= quarter => Catalog[i] \in tried
        ELSE other \in Stock \ tried /\ Quarter[other] <= quarter
    BY <2>1, CatalogFits DEF Stock
  <2>5. \/ own # NoModel /\ model' = own /\ step' = "swap" /\ quarter' = quarter
        \/ other # NoModel /\ model' = other /\ step' = "fetch" /\ quarter' = quarter
        \/ LeaveDevice
        \/ own = NoModel /\ other = NoModel /\ final = NoModel /\ quarter' = quarter + 1 /\ step' = step
    BY <1>9 DEF Search, Go
  <2> HIDE DEF own, other
  <2>6. ASSUME NEW m \in Stock \ tried, Quarter[m] <= quarter, model' = m,
               step' \in {"swap", "fetch"}, quarter' = quarter
        PROVE  Upwards'
    <3>1. Quarter[m] = quarter
      BY <2>2, <2>6, PickedForTheBudget
    <3>2. MeasuredBelow(tried, quarter)'
      BY <1>1, <2>1, <2>2, <2>6 DEF MeasuredBelow
    <3> QED
      BY <1>1, <2>6, <3>1, <3>2 DEF Upwards
  <2>7. CASE own = NoModel /\ other = NoModel /\ final = NoModel /\ quarter' = quarter + 1 /\ step' = step
    <3>1. tried = {} /\ finalRate = 0
      BY <1>3, <2>2, <2>7 DEF MeasuredBelow
    <3>2. \A m \in Stock : ~(Quarter[m] <= quarter)
      BY <2>3, <2>4, <2>7, <3>1 DEF Stock
    <3>3. MeasuredBelow(tried, quarter)'
      BY <1>1, <1>3, <2>1, <2>7, <3>1, <3>2 DEF MeasuredBelow
    <3> QED
      BY <2>1, <2>7, <3>3 DEF Upwards
  <2> QED
    BY <1>5, <2>3, <2>4, <2>5, <2>6, <2>7
<1>10. CASE Fetch_ \/ LoadModel
  <2>1. /\ step \in {"fetch", "load"} /\ step' = "measure" /\ tried' = tried \cup {model}
        /\ UNCHANGED <<model, quarter, final, finalRate, benchFaults>>
    BY <1>2, <1>10 DEF Fetch_, LoadModel, Go, NoFault
  <2>2. MeasuredBelow(tried, quarter) /\ model \in Stock /\ Quarter[model] = quarter
    BY <1>2, <2>1 DEF Upwards
  <2>3. tried' \ {model'} = tried /\ model' \in tried'
    BY <2>1 DEF ServedSoFar
  <2>4. MeasuredBelow(tried \ {model}, quarter)'
    BY <1>1, <2>1, <2>2, <2>3 DEF MeasuredBelow
  <2> QED
    BY <1>1, <2>1, <2>2, <2>3, <2>4 DEF Upwards
<1>11. CASE Swap
  <2>1. step = "swap" /\ step' = "load" /\ UNCHANGED <<tried, model, quarter, final, finalRate, benchFaults>>
    BY <1>2, <1>11 DEF Swap, Go, NoFault, searchVars
  <2>2. MeasuredBelow(tried, quarter) /\ model \in Stock /\ Quarter[model] = quarter
    BY <1>2, <2>1 DEF Upwards
  <2>3. MeasuredBelow(tried, quarter)'
    BY <1>1, <2>1, <2>2 DEF MeasuredBelow
  <2> QED
    BY <1>1, <2>1, <2>2, <2>3 DEF Upwards
<1>12. CASE Measure \/ MeasureAny
  <2>1. /\ step = "measure" /\ Decide(rate[model]) /\ UNCHANGED <<tried, model, benchFaults>>
    BY <1>12, MeasuresTheModel DEF Measure
  <2>2. /\ MeasuredBelow(tried \ {model}, quarter)
        /\ model \in tried /\ model \in Stock /\ Quarter[model] = quarter
    BY <1>2, <2>1 DEF Upwards
  <2>3. CASE /\ ~Fast(rate[model]) /\ finalRate > 0 /\ Far(finalRate) < Far(rate[model])
             /\ step' = "revert" /\ UNCHANGED <<final, finalRate, quarter>>
    <3>1. MeasuredBelow(tried \ {model}, quarter)'
      BY <1>1, <2>1, <2>2, <2>3 DEF MeasuredBelow
    <3>2. Far(finalRate') < Far(rate'[model']) /\ ~Fast(rate'[model'])
      BY <1>1, <2>1, <2>3
    <3>3. /\ step' = "revert" /\ model' \in tried' /\ model' \in Stock'
          /\ Quarter[model'] = quarter' /\ finalRate' > 0
      BY <1>1, <2>1, <2>2, <2>3
    <3> QED
      BY <3>1, <3>2, <3>3 DEF Upwards, Far, Fast
  <2>4. CASE /\ Fast(rate[model]) /\ final' = model /\ finalRate' = rate[model]
             /\ quarter' = quarter + 1 /\ step' = "search"
    <3>1. \A m \in tried : m \in Stock /\ Quarter[m] < quarter + 1 /\ Fast(rate[m])
                           /\ Quarter[m] <= Quarter[model]
      <4> SUFFICES ASSUME NEW m \in tried
                   PROVE  m \in Stock /\ Quarter[m] < quarter + 1 /\ Fast(rate[m])
                          /\ Quarter[m] <= Quarter[model]
        OBVIOUS
      <4>1. CASE m = model
        BY <1>3, <2>2, <2>4, <4>1
      <4>2. CASE m # model
        <5>1. m \in Stock /\ Quarter[m] < quarter /\ Fast(rate[m])
          BY <2>2, <4>2 DEF MeasuredBelow
        <5>2. Quarter[m] \in Nat
          BY <1>3, <5>1
        <5> QED
          BY <1>3, <2>2, <5>1, <5>2
      <4> QED
        BY <4>1, <4>2
    <3>2. ASSUME NEW m \in Stock, Quarter[m] < quarter + 1 PROVE m \in tried
      <4>1. Quarter[m] \in Nat
        BY <1>3
      <4>2. CASE Quarter[m] = quarter
        BY <1>2, <2>2, <4>2 DEF OneEach
      <4>3. CASE Quarter[m] < quarter
        BY <2>2, <4>3 DEF MeasuredBelow
      <4> QED
        BY <1>3, <3>2, <4>1, <4>2, <4>3
    <3>3. MeasuredBelow(tried, quarter)'
      BY <1>1, <2>1, <2>2, <2>4, <3>1, <3>2 DEF MeasuredBelow, Fast
    <3> QED
      BY <2>4, <3>3 DEF Upwards
  <2> QED
    BY <1>5, <2>1, <2>3, <2>4 DEF Decide, Go
<1>13. CASE UNCHANGED <<step, tried, model, quarter, final, finalRate, benchFaults>>
  <2>1. MeasuredBelow(tried, quarter) => MeasuredBelow(tried, quarter)'
    BY <1>1, <1>13 DEF MeasuredBelow
  <2>2. MeasuredBelow(tried \ {model}, quarter) => MeasuredBelow(tried \ {model}, quarter)'
    BY <1>1, <1>13 DEF MeasuredBelow
  <2> QED
    BY <1>1, <1>2, <1>13, <2>1, <2>2 DEF Upwards, Far, Fast
<1>14. ASSUME NEW d \in BenchDevices, JobEnds(d) PROVE Upwards'
  BY <1>2, <1>13, <1>14 DEF JobEnds, searchVars, NoFault
<1>15. CASE UNCHANGED benchVars
  BY <1>13, <1>15 DEF benchVars, searchVars
<1> QED
  BY <1>6, <1>7, <1>8, <1>9, <1>10, <1>11, <1>12, <1>14, <1>15 DEF BenchNext, Worker

\* The result of a device is the closest of what was tried on it.
LEMMA ClosestStep ==
  ASSUME BenchTypeOK, Steady, ServedSoFar, Upwards, ResultIsClosest, [BenchNext]_benchVars
  PROVE  ResultIsClosest'
<1> SUFFICES ASSUME benchFaults' = 0, Falling', OneEach', shown'[device'].phase = "done", step' = "done",
                    NEW m \in tried'
             PROVE  Far(rate'[shown'[device'].model]) <= Far(rate'[m])
  BY DEF ResultIsClosest, Far
<1>1. library' = library /\ rate' = rate
  BY DEF BenchNext, Worker, UnloadFirst, NextDevice, Limit, Search, Fetch_, Swap, LoadModel,
         Measure, MeasureAny, Revert, Exhausted, JobEnds, benchVars
<1>2. benchFaults \in Nat /\ OneEach /\ Falling /\ (BenchFault => benchFaults' # 0)
      /\ (NoFault => benchFaults = 0) /\ device \in BenchDevices /\ device \in Nat
  BY <1>1, BenchAssumption DEF BenchTypeOK, OneEach, Stock, Falling, BenchFault, NoFault, BenchDevices
<1>3. /\ Stock \subseteq BenchModels /\ NoModel \notin BenchModels /\ Target \in Nat
      /\ rate \in [BenchModels -> Nat \ {0}]
  BY StockIsKnown
<1>4. ASSUME NEW n, Show("done", n), LeaveDevice PROVE shown'[device'].model = n
  <2>1. device' = device
    BY <1>4, LeavesFor
  <2> QED
    BY <1>2, <1>4, <2>1 DEF Show, BenchTypeOK
<1>5. ASSUME LeaveDevice, benchFaults = 0, step = "search", shown' = shown \/ \E n : Show("failed", n)
      PROVE  FALSE
  <2>1. device' = device
    BY <1>5, LeavesFor
  <2>2. shown[device].phase # "done"
    BY <1>2, <1>5 DEF ServedSoFar
  <2>3. shown'[device].phase # "done"
    BY <1>2, <1>5, <2>2 DEF Show, BenchTypeOK
  <2> QED
    BY <2>1, <2>3
<1>6. CASE UnloadFirst \/ NextDevice \/ Fetch_ \/ Swap \/ LoadModel
  BY <1>6 DEF UnloadFirst, NextDevice, Fetch_, Swap, LoadModel, Go, Failed
<1>7. CASE Limit
  BY <1>2, <1>5, <1>7 DEF Limit
<1>8. CASE Search
  BY <1>2, <1>5, <1>8 DEF Search, Go
<1>9. CASE Measure \/ MeasureAny
  <2>1. /\ step = "measure" /\ Decide(rate[model]) /\ UNCHANGED <<tried, benchFaults>>
    BY <1>9, MeasuresTheModel DEF Measure
  <2>2. /\ MeasuredBelow(tried \ {model}, quarter) /\ model \in Stock
    BY <1>2, <2>1 DEF Upwards
  <2>3. /\ Show("done", model) /\ LeaveDevice
        /\ ~(finalRate > 0 /\ Far(finalRate) < Far(rate[model]))
    BY <2>1 DEF Decide, Go
  <2>4. shown'[device'].model = model
    BY <1>4, <2>3
  <2>5. CASE m = model
    <3>1. Far(rate[m]) \in Int
      BY <1>3, <2>2, <2>5 DEF Far
    <3> QED
      BY <1>1, <2>4, <2>5, <3>1 DEF Far
  <2>6. CASE m # model
    <3>1. m \in tried \ {model}
      BY <2>1, <2>6
    <3>2. /\ final \in tried \ {model} /\ finalRate = rate[final] /\ finalRate > 0
          /\ Far(finalRate) <= Far(rate[m])
      BY <1>2, <2>2, <3>1, LargestIsClosest
    <3>3. m \in Stock /\ final \in Stock
      BY <2>2, <3>1, <3>2 DEF MeasuredBelow
    <3>4. Far(rate[m]) \in Int /\ Far(finalRate) \in Int /\ Far(rate[model]) \in Int
      BY <1>3, <2>2, <3>2, <3>3 DEF Far
    <3>5. Far(rate[model]) <= Far(rate[m])
      BY <2>3, <3>2, <3>4
    <3> QED
      BY <1>1, <2>4, <3>5 DEF Far
  <2> QED
    BY <2>5, <2>6
<1>10. CASE Revert
  <2>1. /\ step = "revert" /\ Show("done", final) /\ LeaveDevice /\ tried' = tried
        /\ BenchFault \/ NoFault
    BY <1>10 DEF Revert, Reloaded, searchVars
  <2>2. /\ MeasuredBelow(tried \ {model}, quarter) /\ model \in Stock
        /\ finalRate > 0 /\ Far(finalRate) < Far(rate[model])
    BY <1>2, <2>1 DEF Upwards
  <2>3. tried \ {model} # {}
    BY <2>2 DEF MeasuredBelow
  <2>4. final \in Stock /\ finalRate = rate[final]
    BY <2>2, <2>3 DEF MeasuredBelow
  <2>5. Far(finalRate) \in Int /\ Far(rate[model]) \in Int
    BY <1>3, <2>2, <2>4 DEF Far
  <2>6. Far(finalRate) <= Far(rate[m])
    <3>1. CASE m = model
      BY <2>2, <2>5, <3>1
    <3>2. CASE m # model
      BY <1>2, <2>1, <2>2, <3>2, LargestIsClosest
    <3> QED
      BY <3>1, <3>2
  <2>7. shown'[device'].model = final
    BY <1>4, <2>1
  <2> QED
    BY <1>1, <2>4, <2>6, <2>7 DEF Far
<1>11. CASE Exhausted
  <2>1. /\ step = "search" /\ LeaveDevice /\ tried' = tried /\ benchFaults = 0
    BY <1>2, <1>11 DEF Exhausted, Reloaded, searchVars
  <2>2. MeasuredBelow(tried, quarter)
    BY <1>2, <2>1 DEF Upwards
  <2>3. Show("done", final)
    BY <1>5, <1>11, <2>1 DEF Exhausted
  <2>4. finalRate = rate[final] /\ Far(finalRate) <= Far(rate[m])
    BY <1>2, <2>1, <2>2, LargestIsClosest
  <2>5. shown'[device'].model = final
    BY <1>4, <2>1, <2>3
  <2> QED
    BY <1>1, <2>4, <2>5 DEF Far
<1>12. CASE UNCHANGED <<step, device, shown, tried>> /\ benchFaults = 0
  BY <1>1, <1>2, <1>12 DEF ResultIsClosest, Far
<1>13. ASSUME NEW d \in BenchDevices, JobEnds(d) PROVE benchFaults = 0 /\ UNCHANGED <<step, device, shown, tried>>
  BY <1>2, <1>13 DEF JobEnds, searchVars
<1>14. CASE UNCHANGED benchVars
  BY <1>12, <1>14 DEF benchVars, searchVars
<1> QED
  BY <1>6, <1>7, <1>8, <1>9, <1>10, <1>11, <1>12, <1>13, <1>14 DEF BenchNext, Worker

\* The benchmark keeps its invariant.
THEOREM BenchInvariant == BenchSpec => []BenchInv
<1>1. BenchInv /\ [BenchNext]_benchVars => BenchInv'
  BY BenchTypeStep, ServedStep, UpwardsStep, ClosestStep DEF BenchInv
<1> QED
  BY <1>1, BenchStarts, PTL DEF BenchSpec

\* The worker's locals and what it shows have their types.
THEOREM BenchTypes == BenchSpec => []BenchTypeOK
BY BenchInvariant, PTL DEF BenchInv

\* If no command fails, a device that is shown as done serves the model shown.
THEOREM DoneIsServed == BenchSpec => []ServesWhatIsShown
BY BenchInvariant, PTL DEF BenchInv

\* If no command fails, the last device ends with the closest of the models tried on it.
THEOREM ClosestIsKept == BenchSpec => []ResultIsClosest
BY BenchInvariant, PTL DEF BenchInv

----------------------------------------------------------------------------
(* BenchAutoload: the search comes to an end.                               *)

\* How many steps the worker has left at most, in a step s on device d with budget q: five
\* for each budget, and one to begin a device.
SearchLeft(s, d, q) ==
  27 * (DeviceCount - d) +
    (IF s = "empty" THEN 27
     ELSE IF s = "device" THEN 26
     ELSE IF s = "done" THEN 0
     ELSE 5 * (5 - q) + (IF s = "search" THEN 5
                         ELSE IF s = "swap" THEN 4
                         ELSE IF s \in {"load", "fetch"} THEN 3
                         ELSE IF s = "measure" THEN 2 ELSE 1))
BenchLeft == SearchLeft(step, device, quarter)

\* What BenchEnds rests on: each step of the worker, whatever fails in it, leaves less to do,
\* and nothing that happens on the node gives it more.
SearchMovesOn ==
  /\ BenchLeft \in Nat
  /\ BenchLeft' <= BenchLeft
  /\ Worker \/ MeasureAny => BenchLeft' < BenchLeft

\* What the counts are about.
LEMMA WhereTheWorkerIs ==
  ASSUME BenchTypeOK, BenchTypeOK'
  PROVE  /\ DeviceCount \in Nat /\ device \in Nat /\ device' \in Nat
         /\ device <= DeviceCount /\ device' <= DeviceCount
         /\ quarter \in 1..5 /\ quarter' \in 1..5
BY BenchAssumption DEF BenchTypeOK, BenchDevices

\* Leaving a device leaves the next ones.
LEMMA LeavingLess ==
  ASSUME BenchTypeOK, BenchTypeOK', step \in {"search", "measure", "revert"}, LeaveDevice
  PROVE  BenchLeft' < BenchLeft
<1>1. \/ step' = "device" /\ device' = device + 1
      \/ step' = "done" /\ device' = device
  BY LeavesFor
<1> QED
  BY <1>1, WhereTheWorkerIs DEF BenchLeft, SearchLeft

\* Whatever is decided on a model that was measured.
LEMMA DecidingLess ==
  ASSUME BenchTypeOK, BenchTypeOK', step = "measure", NEW r, Decide(r)
  PROVE  BenchLeft' < BenchLeft
<1>2. CASE LeaveDevice
  BY <1>2, LeavingLess
<1>3. CASE step' = "revert" /\ device' = device /\ quarter' = quarter
  BY <1>3, WhereTheWorkerIs DEF BenchLeft, SearchLeft
<1>4. CASE step' = "search" /\ device' = device /\ quarter' = quarter + 1
  BY <1>4, WhereTheWorkerIs DEF BenchLeft, SearchLeft
<1> QED
  BY <1>2, <1>3, <1>4 DEF Decide, Go

\* Each step of the worker, a wait that ends without the model included.
LEMMA WorkerLess ==
  ASSUME BenchTypeOK, BenchTypeOK', Steady, Worker \/ MeasureAny
  PROVE  BenchLeft' < BenchLeft
<1>2. CASE UnloadFirst
  <2>1. step = "empty" /\ step' = "device" /\ device' = device
    BY <1>2 DEF UnloadFirst, Go
  <2> QED
    BY <2>1, WhereTheWorkerIs DEF BenchLeft, SearchLeft
<1>3. CASE NextDevice
  <2>1. step = "device" /\ step' = "search" /\ device' = device /\ quarter' = 1
    BY <1>3 DEF NextDevice, Go
  <2> QED
    BY <2>1, WhereTheWorkerIs DEF BenchLeft, SearchLeft
<1>4. CASE Limit \/ Revert \/ Exhausted
  BY <1>4, LeavingLess DEF Limit, Revert, Exhausted
<1>5. CASE Search
  <2>1. step = "search" /\ quarter <= 4
    BY <1>5 DEF Search
  <2>2. CASE step' \in {"swap", "fetch"} /\ device' = device /\ quarter' = quarter
    BY <2>1, <2>2, WhereTheWorkerIs DEF BenchLeft, SearchLeft
  <2>3. CASE LeaveDevice
    BY <2>1, <2>3, LeavingLess
  <2>4. CASE step' = step /\ device' = device /\ quarter' = quarter + 1
    BY <2>1, <2>4, WhereTheWorkerIs DEF BenchLeft, SearchLeft
  <2> QED
    BY <1>5, <2>2, <2>3, <2>4 DEF Search, Go
<1>6. CASE Fetch_ \/ LoadModel
  <2>1. /\ step \in {"fetch", "load"} /\ device' = device
        /\ \/ step' = "measure" /\ quarter' = quarter
           \/ step' = "search" /\ quarter' = quarter + 1
    BY <1>6 DEF Fetch_, LoadModel, Failed, Go
  <2> QED
    BY <2>1, WhereTheWorkerIs DEF BenchLeft, SearchLeft
<1>7. CASE Swap
  <2>1. step = "swap" /\ step' = "load" /\ device' = device /\ quarter' = quarter
    BY <1>7 DEF Swap, Go, searchVars
  <2> QED
    BY <2>1, WhereTheWorkerIs DEF BenchLeft, SearchLeft
<1>8. CASE Measure
  BY <1>8, DecidingLess DEF Measure
<1>9. CASE MeasureAny
  <2>1. CASE step' = "search" /\ quarter' = quarter + 1 /\ device' = device
    <3>1. step = "measure"
      BY <1>9 DEF MeasureAny
    <3> QED
      BY <2>1, <3>1, WhereTheWorkerIs DEF BenchLeft, SearchLeft
  <2> QED
    BY <1>9, <2>1, DecidingLess DEF MeasureAny, Go
<1> QED
  BY <1>2, <1>3, <1>4, <1>5, <1>6, <1>7, <1>8, <1>9 DEF Worker

\* A benchmark takes at most 27 steps for each device: no failure of a load, a download or
\* a measurement makes the search come back to a budget that it has left.  BenchEnds adds
\* that the worker goes on and downloads end.
THEOREM TheSearchMovesOn == BenchSpec => [][SearchMovesOn]_benchVars
<1>1. BenchInv /\ BenchInv' /\ [BenchNext]_benchVars => [SearchMovesOn]_benchVars
  <2> SUFFICES ASSUME BenchInv, BenchInv', BenchNext PROVE SearchMovesOn
    OBVIOUS
  <2>1. BenchTypeOK /\ BenchTypeOK' /\ Steady
    BY DEF BenchInv
  <2>2. BenchLeft \in Nat
    BY <2>1, WhereTheWorkerIs DEF BenchLeft, SearchLeft
  <2>3. BenchLeft' \in Nat
    BY <2>1, WhereTheWorkerIs DEF BenchLeft, SearchLeft
  <2>4. Worker \/ MeasureAny => BenchLeft' < BenchLeft
    BY <2>1, WorkerLess
  <2>5. (\E d \in BenchDevices : JobEnds(d)) => BenchLeft' = BenchLeft
    BY DEF JobEnds, searchVars, BenchLeft
  <2> QED
    BY <2>2, <2>3, <2>4, <2>5 DEF BenchNext, SearchMovesOn
<1> QED
  BY <1>1, BenchInvariant, PTL DEF BenchSpec

----------------------------------------------------------------------------
(* Autoload: what functions defined by recursion on a number take. The      *)
(* library's induction is out of reach of the provers: a set of numbers has *)
(* a smallest one, so counting from 0 reaches them all.                     *)

\* Counting from 0 reaches every number.
LEMMA CountingUp ==
  ASSUME NEW n \in Nat, NEW T \in SUBSET (0..n), 0 \in T, \A k \in 1..n : k - 1 \in T => k \in T
  PROVE  T = 0..n
<1> SUFFICES ASSUME (0..n) \ T # {} PROVE FALSE
  OBVIOUS
<1> DEFINE Rest == (0..n) \ T
<1>1. Rest \in SUBSET Nat
  OBVIOUS
<1> HIDE DEF Rest
<1>2. PICK k \in Rest : \A j \in Rest : k <= j
  BY <1>1, SmallestNumber DEF Rest
<1>3. k \in 0..n /\ k \notin T
  BY DEF Rest
<1>4. k - 1 \in 0..n /\ k \in 1..n
  BY <1>3
<1>5. k - 1 \notin Rest
  BY <1>2, <1>4
<1> QED
  BY <1>3, <1>4, <1>5 DEF Rest

\* What f takes on 0..n: the first value base, then what the step F makes of the one before.
Follows(f, n, base, F) == \A k \in 0..n : f[k] = IF k = 0 THEN base ELSE F[k][f[k - 1]]

\* A function on 0..n can be defined by its first value and a step.
LEMMA StepByStep ==
  ASSUME NEW n \in Nat, NEW A, NEW base \in A, NEW F \in [1..n -> [A -> A]]
  PROVE  \E f \in [0..n -> A] : Follows(f, n, base, F)
<1> DEFINE Good(f, j) == \A k \in 0..j : f[k] = IF k = 0 THEN base ELSE F[k][f[k - 1]]
           T == {j \in 0..n : \E f \in [0..j -> A] : Good(f, j)}
<1>1. 0 \in T
  <2> DEFINE f == [k \in 0..0 |-> base]
  <2>1. f \in [0..0 -> A] /\ Good(f, 0)
    OBVIOUS
  <2> HIDE DEF f, Good
  <2> QED
    BY <2>1
<1>2. ASSUME NEW j \in 1..n, j - 1 \in T PROVE j \in T
  <2>1. PICK f \in [0..(j - 1) -> A] : Good(f, j - 1)
    BY <1>2
  <2>2. j - 1 \in 0..(j - 1)
    OBVIOUS
  <2> DEFINE v == F[j][f[j - 1]]
             g == [k \in 0..j |-> IF k = j THEN v ELSE f[k]]
  <2>3. f[j - 1] \in A
    BY <2>2
  <2>4. v \in A
    BY <2>3
  <2> HIDE DEF v
  <2>5. \A k \in 0..(j - 1) : k \in 0..j /\ k # j /\ f[k] \in A
    OBVIOUS
  <2>6. g \in [0..j -> A]
    BY <2>4, <2>5
  <2>7. Good(g, j)
    <3> SUFFICES ASSUME NEW k \in 0..j
                 PROVE  g[k] = IF k = 0 THEN base ELSE F[k][g[k - 1]]
      OBVIOUS
    <3>1. CASE k = j
      <4>1. g[k] = v /\ k # 0 /\ g[k - 1] = f[j - 1]
        BY <3>1
      <4> QED
        BY <4>1, <3>1 DEF v
    <3>2. CASE k # j
      <4>1. k \in 0..(j - 1) /\ g[k] = f[k]
        BY <3>2
      <4>2. k # 0 => g[k - 1] = f[k - 1]
        BY <4>1
      <4>3. f[k] = IF k = 0 THEN base ELSE F[k][f[k - 1]]
        BY <4>1, <2>1
      <4> QED
        BY <4>1, <4>2, <4>3
    <3> QED
      BY <3>1, <3>2
  <2> HIDE DEF Good, g, v
  <2> QED
    BY <2>6, <2>7
<1>3. T = 0..n
  <2> HIDE DEF T
  <2>1. T \in SUBSET (0..n)
    BY DEF T
  <2> QED
    BY <1>1, <1>2, <2>1, CountingUp
<1>4. n \in T
  <2>1. n \in 0..n
    OBVIOUS
  <2> HIDE DEF T
  <2> QED
    BY <1>3, <2>1
<1> HIDE DEF Good
<1>5. \E f \in [0..n -> A] : Good(f, n)
  BY <1>4
<1> QED
  BY <1>5 DEF Good, Follows

\* The sum of numbers, and how it grows.
LEMMA SumIs ==
  ASSUME NEW s \in Seq(Nat)
  PROVE  \E f \in [0..Len(s) -> Nat] :
           /\ Total(s) = f[Len(s)]
           /\ \A k \in 0..Len(s) : f[k] = IF k = 0 THEN 0 ELSE f[k - 1] + s[k]
<1> DEFINE F == [k \in 1..Len(s) |-> [x \in Nat |-> x + s[k]]]
           sum == CHOOSE sum : sum = [k \in 0..Len(s) |-> IF k = 0 THEN 0 ELSE sum[k - 1] + s[k]]
<1>1. Len(s) \in Nat /\ \A k \in 1..Len(s) : s[k] \in Nat
  OBVIOUS
<1>2. F \in [1..Len(s) -> [Nat -> Nat]] /\ 0 \in Nat
  BY <1>1
<1>3. \A k \in 1..Len(s), x \in Nat : F[k][x] = x + s[k]
  OBVIOUS
<1> HIDE DEF F
<1>4. PICK f \in [0..Len(s) -> Nat] : Follows(f, Len(s), 0, F)
  BY <1>1, <1>2, StepByStep, Zenon
<1>5. \A k \in 1..Len(s) : f[k - 1] \in Nat
  BY <1>1
<1>6. \A k \in 0..Len(s) : f[k] = IF k = 0 THEN 0 ELSE f[k - 1] + s[k]
  <2> SUFFICES ASSUME NEW k \in 0..Len(s), k # 0
               PROVE  F[k][f[k - 1]] = f[k - 1] + s[k]
    BY <1>4 DEF Follows
  <2>1. k \in 1..Len(s)
    BY <1>1
  <2> QED
    BY <2>1, <1>3, <1>5
<1>7. f = [k \in 0..Len(s) |-> IF k = 0 THEN 0 ELSE f[k - 1] + s[k]]
  BY <1>6
<1>8. sum = [k \in 0..Len(s) |-> IF k = 0 THEN 0 ELSE sum[k - 1] + s[k]]
  BY <1>7, Zenon
<1>9. Total(s) = sum[Len(s)]
  BY DEF Total
<1> HIDE DEF sum
<1>10. \A k \in 0..Len(s) : sum[k] = IF k = 0 THEN 0 ELSE sum[k - 1] + s[k]
  <2> DEFINE v(k) == IF k = 0 THEN 0 ELSE sum[k - 1] + s[k]
  <2>1. sum = [k \in 0..Len(s) |-> v(k)]
    BY <1>8
  <2> HIDE DEF v
  <2>2. \A k \in 0..Len(s) : sum[k] = v(k)
    BY <2>1, Zenon
  <2> QED
    BY <2>2 DEF v
<1>11. sum \in [0..Len(s) -> Nat]
  <2> DEFINE T == {k \in 0..Len(s) : sum[k] \in Nat}
  <2>1. 0 \in T
    BY <1>1, <1>10
  <2>2. ASSUME NEW k \in 1..Len(s), k - 1 \in T PROVE k \in T
    BY <1>1, <1>10, <2>2
  <2>3. T \in SUBSET (0..Len(s))
    OBVIOUS
  <2> HIDE DEF T
  <2>4. T = 0..Len(s)
    BY <1>1, <2>1, <2>2, <2>3, CountingUp
  <2>5. \A k \in 0..Len(s) : sum[k] \in Nat
    BY <2>4 DEF T
  <2>6. DOMAIN sum = 0..Len(s)
    BY <1>8
  <2>7. sum = [k \in 0..Len(s) |-> sum[k]]
    BY <1>8
  <2> QED
    BY <2>5, <2>7
<1> QED
  BY <1>9, <1>10, <1>11

\* The sum of nothing, and of one more number.
LEMMA TotalGrows ==
  /\ Total(<<>>) = 0
  /\ \A s \in Seq(Nat) : Total(s) \in Nat
  /\ \A s \in Seq(Nat), x \in Nat : Total(Append(s, x)) = Total(s) + x
<1>1. Total(<<>>) = 0
  <2> DEFINE e == <<>>
  <2>1. e \in Seq(Nat) /\ Len(e) = 0 /\ 0 \in 0..Len(e)
    OBVIOUS
  <2> HIDE DEF e
  <2>2. PICK f \in [0..Len(e) -> Nat] :
          Total(e) = f[Len(e)] /\ \A k \in 0..Len(e) : f[k] = IF k = 0 THEN 0 ELSE f[k - 1] + e[k]
    BY <2>1, SumIs
  <2>3. f[0] = 0
    BY <2>1, <2>2
  <2>4. Total(e) = 0
    BY <2>1, <2>2, <2>3
  <2> QED
    BY <2>4 DEF e
<1>2. ASSUME NEW s \in Seq(Nat) PROVE Total(s) \in Nat
  BY SumIs
<1>3. ASSUME NEW s \in Seq(Nat), NEW x \in Nat PROVE Total(Append(s, x)) = Total(s) + x
  <2> DEFINE t == Append(s, x)
             n == Len(s)
  <2>1. /\ t \in Seq(Nat) /\ n \in Nat /\ Len(t) = n + 1 /\ t[n + 1] = x
        /\ \A k \in 1..n : t[k] = s[k] /\ s[k] \in Nat
    OBVIOUS
  <2> HIDE DEF t
  <2>2. PICK f \in [0..n -> Nat] :
          Total(s) = f[n] /\ \A k \in 0..n : f[k] = IF k = 0 THEN 0 ELSE f[k - 1] + s[k]
    BY SumIs
  <2>3. PICK g \in [0..Len(t) -> Nat] :
          Total(t) = g[Len(t)] /\ \A k \in 0..Len(t) : g[k] = IF k = 0 THEN 0 ELSE g[k - 1] + t[k]
    BY <2>1, SumIs
  <2> HIDE DEF n
  <2> DEFINE T == {k \in 0..n : g[k] = f[k]}
  <2>4. 0 \in T
    BY <2>1, <2>2, <2>3
  <2>5. ASSUME NEW k \in 1..n, k - 1 \in T PROVE k \in T
    <3>1. k \in 0..n /\ k \in 0..Len(t) /\ k # 0
      BY <2>1
    <3>2. g[k] = g[k - 1] + t[k] /\ f[k] = f[k - 1] + s[k]
      BY <2>2, <2>3, <3>1
    <3> QED
      BY <2>1, <2>5, <3>1, <3>2
  <2>6. T = 0..n
    <3>1. T \in SUBSET (0..n)
      OBVIOUS
    <3> HIDE DEF T
    <3> QED
      BY <2>1, <2>4, <2>5, <3>1, CountingUp
  <2>7. g[n] = f[n]
    <3>1. n \in 0..n
      BY <2>1
    <3> QED
      BY <2>6, <3>1
  <2>8. g[n + 1] = g[n] + x
    <3>1. n + 1 \in 0..Len(t) /\ n + 1 # 0 /\ (n + 1) - 1 = n
      BY <2>1
    <3> QED
      BY <2>1, <2>3, <3>1
  <2> QED
    BY <2>1, <2>2, <2>3, <2>7, <2>8 DEF t
<1> QED
  BY <1>1, <1>2, <1>3

----------------------------------------------------------------------------
(* The devices and pools.                                                   *)

Costs(s) == [j \in DOMAIN s |-> Cost(s[j])]
Filling == [room : Nat, put : Seq(PlanModels)]

\* What models cost, and what may be used of a memory.
LEMMA CostsAreNumbers == /\ \A m \in PlanModels : Cost(m) \in Nat
                /\ \A memory \in Nat : Budget(memory) \in Nat
<1>1. ASSUME NEW m \in PlanModels PROVE Cost(m) \in Nat
  <2>1. SizeOf[m] \in Nat
    BY PlanAssumption
  <2> QED
    BY <2>1 DEF Cost
<1>2. ASSUME NEW memory \in Nat PROVE Budget(memory) \in Nat
  BY DEF Budget
<1> QED
  BY <1>1, <1>2

\* The costs of some models.
LEMMA SomeCost ==
  ASSUME NEW s \in Seq(PlanModels)
  PROVE  Costs(s) \in Seq(Nat) /\ Len(Costs(s)) = Len(s) /\ Total(Costs(s)) \in Nat
<1>1. \A j \in 1..Len(s) : s[j] \in PlanModels
  OBVIOUS
<1>2. \A j \in 1..Len(s) : Cost(s[j]) \in Nat
  BY <1>1, CostsAreNumbers, Zenon
<1>3. Costs(s) = [j \in 1..Len(s) |-> Cost(s[j])]
  BY DEF Costs
<1>4. Costs(s) \in Seq(Nat) /\ Len(Costs(s)) = Len(s)
  BY <1>2, <1>3
<1> QED
  BY <1>4, TotalGrows

\* One more model costs as much more.
LEMMA OneMore ==
  ASSUME NEW s \in Seq(PlanModels), NEW m \in PlanModels
  PROVE  /\ Total(Costs(s)) \in Nat
         /\ Total(Costs(Append(s, m))) = Total(Costs(s)) + Cost(m)
<1>1. Costs(s) \in Seq(Nat) /\ Len(Costs(s)) = Len(s)
  BY SomeCost
<1>2. Cost(m) \in Nat
  BY CostsAreNumbers
<1>3. Costs(Append(s, m)) = Append(Costs(s), Cost(m))
  <2> DEFINE t == Append(s, m)
             c == Append(Costs(s), Cost(m))
  <2>1. /\ Len(t) = Len(s) + 1 /\ DOMAIN t = 1..(Len(s) + 1) /\ t[Len(s) + 1] = m
        /\ \A j \in 1..Len(s) : t[j] = s[j]
    OBVIOUS
  <2>2. /\ DOMAIN c = 1..(Len(s) + 1) /\ c[Len(s) + 1] = Cost(m)
        /\ \A j \in 1..Len(s) : c[j] = Costs(s)[j]
    BY <1>1, <1>2
  <2>3. \A j \in 1..Len(s) : Costs(s)[j] = Cost(s[j])
    BY DEF Costs
  <2> HIDE DEF t, c
  <2>4. \A j \in 1..(Len(s) + 1) : c[j] = Cost(t[j])
    <3> SUFFICES ASSUME NEW j \in 1..(Len(s) + 1) PROVE c[j] = Cost(t[j])
      OBVIOUS
    <3>1. CASE j = Len(s) + 1
      BY <3>1, <2>1, <2>2
    <3>2. CASE j \in 1..Len(s)
      <4>1. c[j] = Costs(s)[j] /\ t[j] = s[j]
        BY <3>2, <2>1, <2>2
      <4> QED
        BY <4>1, <3>2, <2>3
    <3>3. Len(s) \in Nat
      OBVIOUS
    <3> QED
      BY <3>1, <3>2, <3>3
  <2>5. Costs(t) = [j \in 1..(Len(s) + 1) |-> Cost(t[j])]
    BY <2>1 DEF Costs
  <2>6. c \in Seq(Nat) /\ Len(c) = Len(s) + 1
    BY <1>1, <1>2 DEF c
  <2>7. Costs(t) = c
    BY <2>2, <2>4, <2>5, <2>6
  <2> QED
    BY <2>7 DEF t, c
<1> QED
  BY <1>1, <1>2, <1>3, TotalGrows

\* What is left and what was put on a device or pool after the first k models.
Fills(f, models, memory, taken, max) ==
  /\ Place(models, memory, taken, max) = f[Len(models)].put
  /\ f[0] = [room |-> Budget(memory), put |-> <<>>]
  /\ \A k \in 1..Len(models) :
       f[k] = IF models[k] \in taken THEN f[k - 1] ELSE AddIfRoom(f[k - 1], models[k], max)

LEMMA PlaceIs ==
  ASSUME NEW models \in Seq(PlanModels), NEW memory \in Nat, NEW taken, NEW max \in Nat
  PROVE  \E f \in [0..Len(models) -> Filling] :
           Fills(f, models, memory, taken, max)
<1> DEFINE base == [room |-> Budget(memory), put |-> <<>>]
           F == [k \in 1..Len(models) |->
                   [x \in Filling |-> IF models[k] \in taken THEN x ELSE AddIfRoom(x, models[k], max)]]
           acc == CHOOSE acc : acc = [k \in 0..Len(models) |->
                    IF k = 0 THEN [room |-> Budget(memory), put |-> <<>>]
                    ELSE IF models[k] \in taken THEN acc[k - 1]
                    ELSE AddIfRoom(acc[k - 1], models[k], max)]
<1>1. Len(models) \in Nat /\ \A k \in 1..Len(models) : models[k] \in PlanModels
  OBVIOUS
<1>2. base \in Filling
  BY CostsAreNumbers DEF Filling
<1>3. ASSUME NEW x \in Filling, NEW m \in PlanModels PROVE AddIfRoom(x, m, max) \in Filling
  <2>1. Cost(m) \in Nat
    BY CostsAreNumbers
  <2>2. x.room \in Nat /\ x.put \in Seq(PlanModels)
    BY DEF Filling
  <2>3. CASE Len(x.put) >= max \/ Cost(m) > x.room
    BY <2>3 DEF AddIfRoom
  <2>4. CASE ~(Len(x.put) >= max \/ Cost(m) > x.room)
    <3>1. x.room - Cost(m) \in Nat /\ Append(x.put, m) \in Seq(PlanModels)
      BY <2>1, <2>2, <2>4
    <3>2. AddIfRoom(x, m, max) = [room |-> x.room - Cost(m), put |-> Append(x.put, m)]
      BY <2>4 DEF AddIfRoom
    <3> QED
      BY <3>1, <3>2 DEF Filling
  <2> QED
    BY <2>3, <2>4
<1>4. ASSUME NEW k \in 1..Len(models), NEW x \in Filling
      PROVE  (IF models[k] \in taken THEN x ELSE AddIfRoom(x, models[k], max)) \in Filling
  BY <1>1, <1>3
<1>5. F \in [1..Len(models) -> [Filling -> Filling]]
  BY <1>4
<1>6. \A k \in 1..Len(models), x \in Filling :
        F[k][x] = IF models[k] \in taken THEN x ELSE AddIfRoom(x, models[k], max)
  OBVIOUS
<1> HIDE DEF F, base
<1>7. PICK f \in [0..Len(models) -> Filling] : Follows(f, Len(models), base, F)
  BY <1>1, <1>2, <1>5, StepByStep, Zenon
<1>8. \A k \in 1..Len(models) : f[k - 1] \in Filling
  BY <1>1
<1>9. \A k \in 0..Len(models) :
        f[k] = IF k = 0 THEN [room |-> Budget(memory), put |-> <<>>]
               ELSE IF models[k] \in taken THEN f[k - 1] ELSE AddIfRoom(f[k - 1], models[k], max)
  <2> SUFFICES ASSUME NEW k \in 0..Len(models), k # 0
               PROVE  F[k][f[k - 1]] = IF models[k] \in taken THEN f[k - 1]
                                       ELSE AddIfRoom(f[k - 1], models[k], max)
    BY <1>7 DEF Follows, base
  <2>1. k \in 1..Len(models)
    BY <1>1
  <2> QED
    BY <2>1, <1>6, <1>8
<1>10. f = [k \in 0..Len(models) |->
              IF k = 0 THEN [room |-> Budget(memory), put |-> <<>>]
              ELSE IF models[k] \in taken THEN f[k - 1] ELSE AddIfRoom(f[k - 1], models[k], max)]
  BY <1>9
<1>11. acc = [k \in 0..Len(models) |->
              IF k = 0 THEN [room |-> Budget(memory), put |-> <<>>]
              ELSE IF models[k] \in taken THEN acc[k - 1] ELSE AddIfRoom(acc[k - 1], models[k], max)]
  BY <1>10, Zenon
<1>12. Place(models, memory, taken, max) = acc[Len(models)].put
  BY DEF Place
<1> HIDE DEF acc
<1> DEFINE v(k) == IF k = 0 THEN [room |-> Budget(memory), put |-> <<>>]
                   ELSE IF models[k] \in taken THEN acc[k - 1]
                   ELSE AddIfRoom(acc[k - 1], models[k], max)
<1>13. acc = [k \in 0..Len(models) |-> v(k)]
  BY <1>11
<1> HIDE DEF v
<1>14. /\ \A k \in 0..Len(models) : acc[k] = v(k)
       /\ acc = [k \in 0..Len(models) |-> acc[k]]
  BY <1>13
<1>15. acc[0] = base
  BY <1>1, <1>14 DEF v, base
<1>16. ASSUME NEW k \in 1..Len(models)
       PROVE  acc[k] = IF models[k] \in taken THEN acc[k - 1] ELSE AddIfRoom(acc[k - 1], models[k], max)
  <2>1. k \in 0..Len(models) /\ k # 0
    BY <1>1
  <2>2. acc[k] = v(k)
    BY <1>14, <2>1
  <2> QED
    BY <2>1, <2>2 DEF v
<1>17. \A k \in 0..Len(models) : acc[k] \in Filling
  <2> DEFINE T == {k \in 0..Len(models) : acc[k] \in Filling}
  <2>1. 0 \in T
    BY <1>1, <1>2, <1>15
  <2>2. ASSUME NEW k \in 1..Len(models), k - 1 \in T PROVE k \in T
    <3>1. acc[k - 1] \in Filling /\ k \in 0..Len(models)
      BY <1>1, <2>2
    <3> QED
      BY <3>1, <1>4, <1>16
  <2>3. T \in SUBSET (0..Len(models))
    OBVIOUS
  <2> HIDE DEF T
  <2>4. T = 0..Len(models)
    BY <1>1, <2>1, <2>2, <2>3, CountingUp
  <2> QED
    BY <2>4 DEF T
<1>18. acc \in [0..Len(models) -> Filling]
  BY <1>14, <1>17
<1> QED
  BY <1>12, <1>15, <1>16, <1>18 DEF base, Fills

\* The first k models have been offered to a device or pool b.
Offered(b, k, models, memory, taken, max) ==
  /\ b \in Filling
  /\ b.room + Total(Costs(b.put)) = Budget(memory)
  /\ Len(b.put) <= k
  /\ \A i \in 1..Len(b.put) : b.put[i] \notin taken /\ \E j \in 1..k : b.put[i] = models[j]
  /\ \A i, j \in 1..Len(b.put) : b.put[i] = b.put[j] => i = j
  /\ \A j \in 1..k : \/ models[j] \in taken
                     \/ \E i \in 1..Len(b.put) : b.put[i] = models[j]
                     \/ Len(b.put) >= max
                     \/ Cost(models[j]) > b.room
  /\ \A j \in 1..k : (\A i \in 1..Len(b.put) : b.put[i] # models[j]) => Len(b.put) < k

\* One more model is offered.
LEMMA OfferOne ==
  ASSUME NEW models \in Seq(PlanModels), NEW memory \in Nat, NEW taken, NEW max \in Nat,
         \A i, j \in 1..Len(models) : models[i] = models[j] => i = j,
         NEW k \in 1..Len(models), NEW b, Offered(b, k - 1, models, memory, taken, max)
  PROVE  Offered(IF models[k] \in taken THEN b ELSE AddIfRoom(b, models[k], max),
                 k, models, memory, taken, max)
<1> DEFINE m == models[k]
           n == Len(b.put)
<1>1. /\ k \in Nat /\ k - 1 \in Nat /\ m \in PlanModels /\ Len(models) \in Nat
      /\ 1..(k - 1) \subseteq 1..k /\ 1..k \subseteq 1..Len(models)
      /\ \A j \in 1..k : j = k \/ j \in 1..(k - 1)
  OBVIOUS
<1>2. /\ b \in Filling /\ b.room \in Nat /\ b.put \in Seq(PlanModels) /\ n \in Nat
      /\ n <= k - 1
      /\ b.room + Total(Costs(b.put)) = Budget(memory)
  BY DEF Offered, Filling
<1>3. Cost(m) \in Nat /\ Total(Costs(b.put)) \in Nat
  BY <1>1, <1>2, CostsAreNumbers, OneMore
<1>4. CASE m \in taken \/ n >= max \/ Cost(m) > b.room
  <2>1. (IF models[k] \in taken THEN b ELSE AddIfRoom(b, models[k], max)) = b
    BY <1>4 DEF AddIfRoom
  <2>2. Len(b.put) <= k
    BY <1>1, <1>2
  <2>3. ASSUME NEW i \in 1..n
        PROVE  b.put[i] \notin taken /\ \E j \in 1..k : b.put[i] = models[j]
    BY <1>1 DEF Offered
  <2>4. ASSUME NEW j \in 1..k
        PROVE  \/ models[j] \in taken
               \/ \E i \in 1..n : b.put[i] = models[j]
               \/ n >= max \/ Cost(models[j]) > b.room
    <3>1. CASE j = k
      BY <3>1, <1>4
    <3>2. CASE j \in 1..(k - 1)
      BY <3>2 DEF Offered
    <3> QED
      BY <1>1, <3>1, <3>2
  <2>5. \A i, j \in 1..n : b.put[i] = b.put[j] => i = j
    BY DEF Offered
  <2>6. n < k
    BY <1>1, <1>2
  <2>7. Offered(b, k, models, memory, taken, max)
    BY <1>2, <2>2, <2>3, <2>4, <2>5, <2>6 DEF Offered
  <2> QED
    BY <2>1, <2>7
<1>5. CASE ~(m \in taken \/ n >= max \/ Cost(m) > b.room)
  <2> DEFINE p == Append(b.put, m)
             c == [room |-> b.room - Cost(m), put |-> p]
  <2>1. (IF models[k] \in taken THEN b ELSE AddIfRoom(b, models[k], max)) = c
    BY <1>5 DEF AddIfRoom
  <2>2. /\ p \in Seq(PlanModels) /\ Len(p) = n + 1 /\ p[n + 1] = m
        /\ \A i \in 1..n : p[i] = b.put[i]
    BY <1>1, <1>2
  <2>3. \A i \in 1..(n + 1) : i = n + 1 \/ i \in 1..n
    BY <1>2
  <2>4. Total(Costs(p)) = Total(Costs(b.put)) + Cost(m)
    BY <1>1, <1>2, OneMore
  <2> HIDE DEF p
  <2>5. c.room = b.room - Cost(m) /\ c.put = p /\ c.room \in Nat /\ c \in Filling
    BY <1>2, <1>3, <1>5, <2>2 DEF Filling
  <2>6. c.room + Total(Costs(c.put)) = Budget(memory)
    BY <1>2, <1>3, <2>4, <2>5
  <2>7. Len(c.put) <= k
    BY <1>1, <1>2, <2>2, <2>5
  <2>8. ASSUME NEW i \in 1..Len(c.put)
        PROVE  c.put[i] \notin taken /\ \E j \in 1..k : c.put[i] = models[j]
    <3>1. CASE i = n + 1
      <4>1. c.put[i] = m /\ k \in 1..k
        BY <1>1, <2>2, <2>5, <3>1
      <4> QED
        BY <4>1, <1>5
    <3>2. CASE i \in 1..n
      <4>1. c.put[i] = b.put[i]
        BY <2>2, <2>5, <3>2
      <4>2. b.put[i] \notin taken /\ \E j \in 1..(k - 1) : b.put[i] = models[j]
        BY <3>2 DEF Offered
      <4> QED
        BY <4>1, <4>2, <1>1
    <3> QED
      BY <2>2, <2>3, <2>5, <3>1, <3>2
  <2>9. \A i \in 1..n : b.put[i] # m
    <3> SUFFICES ASSUME NEW i \in 1..n, b.put[i] = m PROVE FALSE
      OBVIOUS
    <3>1. PICK j \in 1..(k - 1) : b.put[i] = models[j]
      BY DEF Offered
    <3>2. j \in 1..Len(models) /\ j # k
      BY <1>1
    <3> QED
      BY <3>1, <3>2
  <2>10. ASSUME NEW i \in 1..Len(c.put), NEW j \in 1..Len(c.put), c.put[i] = c.put[j] PROVE i = j
    <3>1. (i = n + 1 \/ i \in 1..n) /\ (j = n + 1 \/ j \in 1..n)
      BY <2>2, <2>3, <2>5
    <3>2. CASE i \in 1..n /\ j \in 1..n
      <4>1. b.put[i] = b.put[j]
        BY <2>2, <2>5, <2>10, <3>2
      <4> QED
        BY <4>1, <3>2 DEF Offered
    <3> QED
      BY <2>2, <2>5, <2>9, <2>10, <3>1, <3>2
  <2>11. ASSUME NEW j \in 1..k
         PROVE  \/ models[j] \in taken
                \/ \E i \in 1..Len(c.put) : c.put[i] = models[j]
                \/ Len(c.put) >= max \/ Cost(models[j]) > c.room
    <3>1. CASE j = k
      <4>1. n + 1 \in 1..Len(c.put) /\ c.put[n + 1] = models[j]
        BY <1>2, <2>2, <2>5, <3>1
      <4> QED
        BY <4>1
    <3>2. CASE j \in 1..(k - 1)
      <4>1. CASE models[j] \in taken
        BY <4>1
      <4>2. CASE \E i \in 1..n : b.put[i] = models[j]
        <5>1. PICK i \in 1..n : b.put[i] = models[j]
          BY <4>2
        <5>2. i \in 1..Len(c.put) /\ c.put[i] = models[j]
          BY <1>2, <2>2, <2>5, <5>1
        <5> QED
          BY <5>2
      <4>3. CASE n >= max
        BY <4>3, <1>2, <2>2, <2>5
      <4>4. CASE Cost(models[j]) > b.room
        <5>1. Cost(models[j]) \in Nat
          <6>1. models[j] \in PlanModels
            BY <1>1
          <6> QED
            BY <6>1, CostsAreNumbers
        <5> QED
          BY <4>4, <5>1, <1>2, <1>3, <2>5
      <4> QED
        BY <3>2, <4>1, <4>2, <4>3, <4>4 DEF Offered
    <3> QED
      BY <1>1, <3>1, <3>2
  <2>12. ASSUME NEW j \in 1..k, \A i \in 1..Len(c.put) : c.put[i] # models[j]
         PROVE  Len(c.put) < k
    <3>1. n + 1 \in 1..Len(c.put) /\ c.put[n + 1] = m
      BY <1>2, <2>2, <2>5
    <3>2. j \in 1..(k - 1)
      BY <1>1, <2>12, <3>1
    <3>3. \A i \in 1..n : i \in 1..Len(c.put) /\ c.put[i] = b.put[i]
      BY <1>2, <2>2, <2>5
    <3>4. \A i \in 1..n : b.put[i] # models[j]
      BY <2>12, <3>3
    <3>5. n < k - 1
      BY <3>2, <3>4 DEF Offered
    <3> QED
      BY <1>1, <1>2, <2>2, <2>5, <3>5
  <2> HIDE DEF c
  <2>13. Offered(c, k, models, memory, taken, max)
    BY <2>5, <2>6, <2>7, <2>8, <2>10, <2>11, <2>12 DEF Offered
  <2> QED
    BY <2>1, <2>13
<1> QED
  BY <1>4, <1>5

\* What is put on a device or pool.
LEMMA PlaceSound ==
  ASSUME NEW models \in Seq(PlanModels), NEW memory \in Nat, NEW taken, NEW max \in Nat,
         \A i, j \in 1..Len(models) : models[i] = models[j] => i = j
  PROVE  \E b : /\ b.put = Place(models, memory, taken, max)
                /\ Offered(b, Len(models), models, memory, taken, max)
<1>1. PICK f \in [0..Len(models) -> Filling] :
           /\ Place(models, memory, taken, max) = f[Len(models)].put
           /\ f[0] = [room |-> Budget(memory), put |-> <<>>]
           /\ \A k \in 1..Len(models) :
                f[k] = IF models[k] \in taken THEN f[k - 1] ELSE AddIfRoom(f[k - 1], models[k], max)
  <2>1. \E f \in [0..Len(models) -> Filling] : Fills(f, models, memory, taken, max)
    BY PlaceIs
  <2> QED
    BY <2>1 DEF Fills
<1>2. Len(models) \in Nat
  OBVIOUS
<1> DEFINE Good(k) == Offered(f[k], k, models, memory, taken, max)
           T == {k \in 0..Len(models) : Good(k)}
<1>3. Good(0)
  <2> DEFINE e == <<>>
             b == [room |-> Budget(memory), put |-> e]
  <2>1. f[0] = b /\ b.put = e /\ b.room = Budget(memory) /\ b.room \in Nat
    BY <1>1, CostsAreNumbers
  <2>2. e \in Seq(PlanModels) /\ Len(e) = 0 /\ 1..0 = {} /\ Costs(e) = <<>>
    BY DEF Costs
  <2>3. Total(Costs(e)) = 0
    BY <2>2, TotalGrows
  <2> HIDE DEF e
  <2>4. b \in Filling
    BY <2>1, <2>2 DEF Filling
  <2> HIDE DEF b
  <2>5. Offered(b, 0, models, memory, taken, max)
    BY <2>1, <2>2, <2>3, <2>4 DEF Offered
  <2> QED
    BY <2>1, <2>5
<1>4. ASSUME NEW k \in 1..Len(models), Good(k - 1) PROVE Good(k)
  <2>1. f[k] = IF models[k] \in taken THEN f[k - 1] ELSE AddIfRoom(f[k - 1], models[k], max)
    BY <1>1
  <2>2. Offered(IF models[k] \in taken THEN f[k - 1] ELSE AddIfRoom(f[k - 1], models[k], max),
                k, models, memory, taken, max)
    BY <1>4, OfferOne
  <2> QED
    BY <2>1, <2>2
<1> HIDE DEF Good
<1>5. T = 0..Len(models)
  <2>1. /\ T \in SUBSET (0..Len(models)) /\ 0 \in T
        /\ \A k \in 1..Len(models) : k - 1 \in T => k \in T
    BY <1>2, <1>3, <1>4
  <2> HIDE DEF T
  <2> QED
    BY <1>2, <2>1, CountingUp
<1>6. Good(Len(models))
  BY <1>2, <1>5
<1> QED
  BY <1>1, <1>6 DEF Good

----------------------------------------------------------------------------
(* The order of the models.                                                 *)

Ordered(s, top) == \A i, j \in DOMAIN s : i < j => Before(s[i], s[j], top)

\* One of several models comes last.
LEMMA LastModel ==
  ASSUME NEW M \in SUBSET PlanModels, M # {}, NEW top
  PROVE  \E x \in M : \A y \in M \ {x} : Before(y, x, top)
<1> DEFINE X == IF M \ top # {} THEN M \ top ELSE M
           T == {SizeOf[m] : m \in X}
<1>1. X \subseteq M /\ X # {} /\ \A m \in M : SizeOf[m] \in Nat
  BY PlanAssumption
<1>2. T \in SUBSET Nat /\ T # {}
  <2> HIDE DEF X
  <2> QED
    BY <1>1
<1> HIDE DEF T
<1>3. PICK r \in T : \A t \in T : r <= t
  BY <1>2, SmallestNumber
<1>4. PICK x \in X : r = SizeOf[x]
  BY <1>3 DEF T
<1>5. \A y \in X : SizeOf[x] <= SizeOf[y]
  BY <1>3, <1>4 DEF T
<1>6. ASSUME NEW y \in M, y # x PROVE Before(y, x, top)
  <2>1. SizeOf[y] # SizeOf[x]
    <3>1. x \in PlanModels /\ y \in PlanModels
      BY <1>1
    <3>2. DOMAIN SizeOf = PlanModels
      BY PlanAssumption
    <3> QED
      BY <1>6, <3>1, <3>2, PlanAssumption, Zenon DEF IsInjective
  <2>2. SizeOf[x] \in Nat /\ SizeOf[y] \in Nat
    BY <1>1
  <2>3. CASE y \in X
    <3>1. SizeOf[y] > SizeOf[x]
      BY <1>5, <2>1, <2>2, <2>3
    <3>2. (y \in top) = (x \in top)
      BY <2>3
    <3> QED
      BY <3>1, <3>2 DEF Before
  <2>4. CASE y \notin X
    <3>1. y \in top /\ x \notin top
      BY <2>4
    <3> QED
      BY <3>1 DEF Before
  <2> QED
    BY <2>3, <2>4
<1> QED
  BY <1>1, <1>6

\* Models can be put in order.
LEMMA CanBeOrdered ==
  ASSUME NEW M \in SUBSET PlanModels, NEW top
  PROVE  /\ IsFiniteSet(M) /\ Cardinality(M) \in Nat
         /\ \E s \in [1..Cardinality(M) -> M] : ToSet(s) = M /\ Ordered(s, top)
<1> DEFINE Can(S, k) == \E s \in [1..k -> S] : ToSet(s) = S /\ Ordered(s, top)
           N == Cardinality(PlanModels)
           T == {k \in 0..N : \A S \in SUBSET PlanModels : Cardinality(S) = k => Can(S, k)}
<1>1. ASSUME NEW S \in SUBSET PlanModels
      PROVE  IsFiniteSet(S) /\ Cardinality(S) \in Nat /\ Cardinality(S) <= N /\ N \in Nat
  BY PlanAssumption, FS_Subset, FS_CardinalityType
<1>2. ASSUME NEW S \in SUBSET PlanModels, Cardinality(S) = 0 PROVE Can(S, 0)
  <2>1. S = {}
    BY <1>1, <1>2, FS_EmptySet
  <2> DEFINE s == [i \in 1..0 |-> i]
  <2>2. 1..0 = {}
    OBVIOUS
  <2>3. s \in [1..0 -> S] /\ DOMAIN s = {}
    BY <2>2
  <2>4. ToSet(s) = S /\ Ordered(s, top)
    BY <2>1, <2>2, <2>3 DEF ToSet, Ordered
  <2> HIDE DEF s
  <2> QED
    BY <2>3, <2>4
<1>3. ASSUME NEW k \in 1..N, NEW S \in SUBSET PlanModels, Cardinality(S) = k,
             \A R \in SUBSET PlanModels : Cardinality(R) = k - 1 => Can(R, k - 1)
      PROVE  Can(S, k)
  <2>1. S # {} /\ k \in Nat /\ k - 1 \in Nat
    BY <1>1, <1>3, FS_EmptySet
  <2>2. PICK x \in S : \A y \in S \ {x} : Before(y, x, top)
    BY <2>1, LastModel
  <2> DEFINE R == S \ {x}
  <2>3. Cardinality(R) = k - 1
    BY <1>1, <1>3, FS_RemoveElement
  <2>4. PICK s \in [1..(k - 1) -> R] : ToSet(s) = R /\ Ordered(s, top)
    BY <1>3, <2>3
  <2> DEFINE t == [i \in 1..k |-> IF i = k THEN x ELSE s[i]]
  <2>5. \A i \in 1..k : i = k \/ i \in 1..(k - 1)
    BY <2>1
  <2>6. t \in [1..k -> S] /\ t[k] = x /\ \A i \in 1..(k - 1) : i \in 1..k /\ t[i] = s[i] /\ s[i] \in R
    BY <2>1, <2>5
  <2> HIDE DEF t
  <2>7. DOMAIN t = 1..k /\ DOMAIN s = 1..(k - 1)
    BY <2>6
  <2>8. ToSet(t) = S
    <3>1. ASSUME NEW y \in S PROVE \E i \in 1..k : t[i] = y
      <4>1. CASE y = x
        BY <4>1, <2>1, <2>6
      <4>2. CASE y # x
        <5>1. y \in ToSet(s)
          BY <4>2, <2>4
        <5>2. PICK i \in 1..(k - 1) : s[i] = y
          BY <5>1, <2>7 DEF ToSet
        <5> QED
          BY <5>2, <2>6
      <4> QED
        BY <4>1, <4>2
    <3> QED
      BY <3>1, <2>6, <2>7 DEF ToSet
  <2>9. Ordered(t, top)
    <3> SUFFICES ASSUME NEW i \in 1..k, NEW j \in 1..k, i < j PROVE Before(t[i], t[j], top)
      BY <2>7 DEF Ordered
    <3>1. i \in 1..(k - 1) /\ t[i] = s[i] /\ s[i] \in R
      BY <2>1, <2>6
    <3>2. CASE j = k
      BY <3>1, <3>2, <2>2, <2>6
    <3>3. CASE j \in 1..(k - 1)
      <4>1. t[j] = s[j]
        BY <3>3, <2>6
      <4>2. Before(s[i], s[j], top)
        BY <3>1, <3>3, <2>4, <2>7 DEF Ordered
      <4> QED
        BY <3>1, <4>1, <4>2
    <3> QED
      BY <2>5, <3>2, <3>3
  <2> QED
    BY <2>6, <2>8, <2>9
<1> HIDE DEF Can
<1>4. T = 0..N
  <2>1. N \in Nat
    BY PlanAssumption, FS_CardinalityType
  <2>2. /\ T \in SUBSET (0..N) /\ 0 \in T
        /\ \A k \in 1..N : k - 1 \in T => k \in T
    BY <1>2, <1>3, <2>1
  <2> HIDE DEF T, N
  <2> QED
    BY <2>1, <2>2, CountingUp
<1>5. Cardinality(M) \in 0..N
  BY <1>1
<1>6. Can(M, Cardinality(M))
  BY <1>4, <1>5
<1> QED
  BY <1>1, <1>6 DEF Can

\* The sorted models are all of them, each once.
LEMMA SortedIs ==
  ASSUME NEW M \in SUBSET PlanModels, NEW top
  PROVE  LET s == Sorted(M, top)
         IN  /\ s \in Seq(PlanModels) /\ Len(s) = Cardinality(M) /\ ToSet(s) = M
             /\ \A i, j \in 1..Len(s) : s[i] = s[j] => i = j
<1> DEFINE n == Cardinality(M)
           s == Sorted(M, top)
<1>1. n \in Nat /\ \E t \in [1..n -> M] : ToSet(t) = M /\ Ordered(t, top)
  BY CanBeOrdered
<1>2. s \in [1..n -> M] /\ ToSet(s) = M /\ Ordered(s, top)
  BY <1>1, Zenon DEF Sorted, Ordered
<1> HIDE DEF n, s
<1>3. s \in Seq(PlanModels) /\ Len(s) = n /\ DOMAIN s = 1..n
  <2>1. s \in [1..n -> PlanModels]
    BY <1>2
  <2>2. s \in Seq(PlanModels)
    BY <1>1, <2>1
  <2>3. DOMAIN s = 1..n
    BY <2>1
  <2> QED
    BY <1>1, <2>2, <2>3
<1>4. ASSUME NEW i \in 1..n, NEW j \in 1..n, i < j PROVE s[i] # s[j]
  <2>1. Before(s[i], s[j], top)
    BY <1>2, <1>3, <1>4 DEF Ordered
  <2>2. s[i] \in PlanModels
    BY <1>2
  <2>3. SizeOf[s[i]] \in Nat
    BY <2>2, PlanAssumption
  <2> QED
    BY <2>1, <2>3 DEF Before
<1>5. \A i, j \in 1..n : s[i] = s[j] => i = j
  <2>1. \A i, j \in 1..n : i < j \/ j < i \/ i = j
    BY <1>1
  <2> QED
    BY <2>1, <1>4
<1> QED
  BY <1>2, <1>3, <1>5 DEF n, s

----------------------------------------------------------------------------
(* The plan of a node.                                                      *)

\* The first k devices or pools have been planned.
Planned(x, k, models, bins, max) ==
  /\ x \in Seq(Seq(PlanModels)) /\ Len(x) = k
  /\ \A i \in 1..k :
       /\ Total(Costs(x[i])) <= Budget(bins[i])
       /\ \A p \in 1..Len(x[i]) : \A j \in 1..k : \A q \in 1..Len(x[j]) :
            x[i][p] = x[j][q] => i = j /\ p = q
       /\ \A m \in ToSet(models) \ Placed(x) :
            /\ Len(x[i]) < Len(models)
            /\ Len(x[i]) >= max \/ Cost(m) > Budget(bins[i]) - Total(Costs(x[i]))

\* What was given out, device by device.
Somewhere(x, m) == \E i \in 1..Len(x) : \E p \in 1..Len(x[i]) : m = x[i][p]
LEMMA PlacedIs ==
  ASSUME NEW x \in Seq(Seq(PlanModels)), NEW m
  PROVE  m \in Placed(x) <=> Somewhere(x, m)
<1>1. DOMAIN x = 1..Len(x) /\ \A i \in 1..Len(x) : x[i] \in Seq(PlanModels)
  OBVIOUS
<1>2. \A i \in 1..Len(x) : DOMAIN x[i] = 1..Len(x[i])
  BY <1>1
<1>3. \A i \in 1..Len(x) : ToSet(x[i]) = {x[i][p] : p \in 1..Len(x[i])}
  BY <1>2 DEF ToSet
<1>4. Placed(x) = UNION {ToSet(x[i]) : i \in 1..Len(x)}
  BY <1>1 DEF Placed
<1>5. m \in Placed(x) <=> \E i \in 1..Len(x) : m \in ToSet(x[i])
  BY <1>4
<1> QED
  BY <1>3, <1>5 DEF Somewhere

\* One more device is planned.
LEMMA PlanOne ==
  ASSUME NEW models \in Seq(PlanModels), NEW bins \in Seq(Nat), NEW max \in Nat,
         \A i, j \in 1..Len(models) : models[i] = models[j] => i = j,
         NEW k \in 1..Len(bins), NEW x, Planned(x, k - 1, models, bins, max)
  PROVE  Planned(Append(x, Place(models, bins[k], Placed(x), max)), k, models, bins, max)
<1> DEFINE new == Place(models, bins[k], Placed(x), max)
           y == Append(x, new)
<1>1. /\ k \in Nat /\ bins[k] \in Nat /\ x \in Seq(Seq(PlanModels)) /\ Len(x) = k - 1
      /\ Len(models) \in Nat
      /\ \A i \in 1..k : i = k \/ i \in 1..(k - 1)
  BY DEF Planned
<1>2. PICK b : b.put = new /\ Offered(b, Len(models), models, bins[k], Placed(x), max)
  BY <1>1, PlaceSound
<1> HIDE DEF new
<1>3. /\ new \in Seq(PlanModels) /\ b.room \in Nat
      /\ b.room + Total(Costs(new)) = Budget(bins[k])
      /\ Total(Costs(new)) \in Nat
  <2>1. b \in Filling /\ b.room + Total(Costs(new)) = Budget(bins[k])
    BY <1>2 DEF Offered
  <2>2. new \in Seq(PlanModels) /\ b.room \in Nat
    BY <1>2, <2>1 DEF Filling
  <2>3. Total(Costs(new)) \in Nat
    BY <2>2, SomeCost
  <2> QED
    BY <2>1, <2>2, <2>3
<1>4. /\ y \in Seq(Seq(PlanModels)) /\ Len(y) = k /\ y[k] = new
      /\ \A i \in 1..(k - 1) : i \in 1..k /\ i # k /\ y[i] = x[i] /\ x[i] \in Seq(PlanModels)
  <2>1. y \in Seq(Seq(PlanModels)) /\ Len(y) = k /\ y[k] = new
    BY <1>1, <1>3
  <2>2. \A i \in 1..(k - 1) : y[i] = x[i]
    BY <1>1, <1>3
  <2>3. \A i \in 1..(k - 1) : i \in 1..k /\ i # k
    BY <1>1
  <2>4. \A i \in 1..(k - 1) : x[i] \in Seq(PlanModels)
    BY <1>1
  <2> QED
    BY <2>1, <2>2, <2>3, <2>4
<1> HIDE DEF y
<1>5. \A m \in Placed(x) : m \in Placed(y)
  <2> SUFFICES ASSUME NEW m \in Placed(x) PROVE m \in Placed(y)
    OBVIOUS
  <2>1. Somewhere(x, m)
    BY <1>1, PlacedIs
  <2>2. PICK i \in 1..(k - 1) : \E p \in 1..Len(x[i]) : m = x[i][p]
    BY <1>1, <2>1 DEF Somewhere
  <2>3. Somewhere(y, m)
    BY <1>4, <2>2 DEF Somewhere
  <2> QED
    BY <1>4, <2>3, PlacedIs
<1>6. ASSUME NEW i \in 1..k PROVE Total(Costs(y[i])) <= Budget(bins[i])
  <2>1. CASE i = k
    <3>1. Budget(bins[k]) \in Nat
      BY <1>1, CostsAreNumbers
    <3> QED
      BY <1>3, <1>4, <2>1, <3>1
  <2>2. CASE i \in 1..(k - 1)
    BY <1>4, <2>2 DEF Planned
  <2> QED
    BY <1>1, <2>1, <2>2
<1>7. ASSUME NEW p \in 1..Len(new), NEW j \in 1..(k - 1), NEW q \in 1..Len(x[j]), new[p] = x[j][q]
      PROVE  FALSE
  <2>1. new[p] \notin Placed(x)
    BY <1>2 DEF Offered
  <2>2. x[j][q] \in Placed(x)
    <3>1. Somewhere(x, x[j][q])
      BY <1>1 DEF Somewhere
    <3> QED
      BY <1>1, <3>1, PlacedIs
  <2> QED
    BY <1>7, <2>1, <2>2
<1>8. ASSUME NEW i \in 1..k, NEW p \in 1..Len(y[i]), NEW j \in 1..k, NEW q \in 1..Len(y[j]),
             y[i][p] = y[j][q]
      PROVE  i = j /\ p = q
  <2>1. CASE i = k /\ j = k
    <3>1. new[p] = new[q] /\ p \in 1..Len(new) /\ q \in 1..Len(new)
      BY <1>4, <1>8, <2>1
    <3>2. p = q
      BY <1>2, <3>1 DEF Offered
    <3> QED
      BY <2>1, <3>2
  <2>2. CASE i = k /\ j \in 1..(k - 1)
    <3>1. p \in 1..Len(new) /\ q \in 1..Len(x[j]) /\ new[p] = x[j][q]
      BY <1>4, <1>8, <2>2
    <3> QED
      BY <1>7, <2>2, <3>1
  <2>3. CASE j = k /\ i \in 1..(k - 1)
    <3>1. q \in 1..Len(new) /\ p \in 1..Len(x[i]) /\ new[q] = x[i][p]
      BY <1>4, <1>8, <2>3
    <3> QED
      BY <1>7, <2>3, <3>1
  <2>4. CASE i \in 1..(k - 1) /\ j \in 1..(k - 1)
    <3>1. x[i][p] = x[j][q] /\ p \in 1..Len(x[i]) /\ q \in 1..Len(x[j])
      BY <1>4, <1>8, <2>4
    <3> QED
      BY <2>4, <3>1 DEF Planned
  <2> QED
    BY <1>1, <2>1, <2>2, <2>3, <2>4
<1>9. ASSUME NEW i \in 1..k, NEW m \in ToSet(models) \ Placed(y)
      PROVE  /\ Len(y[i]) < Len(models)
             /\ Len(y[i]) >= max \/ Cost(m) > Budget(bins[i]) - Total(Costs(y[i]))
  <2>1. CASE i \in 1..(k - 1)
    BY <1>4, <1>5, <2>1 DEF Planned
  <2>2. CASE i = k
    <3>1. PICK j \in 1..Len(models) : m = models[j]
      BY DEF ToSet
    <3>2. \A p \in 1..Len(new) : new[p] # m
      <4> SUFFICES ASSUME NEW p \in 1..Len(new), new[p] = m PROVE m \in Placed(y)
        OBVIOUS
      <4>1. k \in 1..Len(y) /\ p \in 1..Len(y[k]) /\ m = y[k][p]
        BY <1>1, <1>4
      <4>2. Somewhere(y, m)
        BY <4>1 DEF Somewhere
      <4> QED
        BY <1>4, <4>2, PlacedIs
    <3>3. m \notin Placed(x)
      BY <1>5
    <3>4. Len(new) >= max \/ Cost(m) > b.room
      BY <1>2, <3>1, <3>2, <3>3 DEF Offered
    <3>5. Len(new) < Len(models)
      BY <1>2, <3>1, <3>2 DEF Offered
    <3>6. Budget(bins[k]) - Total(Costs(new)) = b.room
      BY <1>3
    <3> QED
      BY <1>4, <2>2, <3>4, <3>5, <3>6
  <2> QED
    BY <1>1, <2>1, <2>2
<1>10. Planned(y, k, models, bins, max)
  BY <1>4, <1>6, <1>8, <1>9 DEF Planned
<1> QED
  BY <1>10 DEF y, new

\* The memory of the devices and pools, and how many models each takes.
LEMMA BinsAre ==
  ASSUME NEW kind, NEW shape \in Seq(Nat), NEW has \in SUBSET PlanModels, NEW packed \in BOOLEAN
  PROVE  /\ Bins(kind, shape, has) \in Seq(Nat)
         /\ Most(kind, shape, has, packed) \in Nat \ {0}
         /\ packed /\ has # {} => Most(kind, shape, has, packed) = Cardinality(has)
<1>1. Total(shape) \in Nat /\ Len(shape) \in Nat
  BY TotalGrows
<1>2. <<Total(shape)>> \in Seq(Nat)
  BY <1>1
<1>3. Bins(kind, shape, has) \in Seq(Nat)
  BY <1>2 DEF Bins
<1>4. IsFiniteSet(has) /\ Cardinality(has) \in Nat /\ (has # {} => Cardinality(has) # 0)
  BY PlanAssumption, FS_Subset, FS_CardinalityType, FS_EmptySet
<1>5. Most(kind, shape, has, packed) \in Nat \ {0}
  BY <1>1, <1>4 DEF Most, Pooled
<1>6. packed /\ has # {} => Most(kind, shape, has, packed) = Cardinality(has)
  BY DEF Most
<1> QED
  BY <1>3, <1>5, <1>6

\* The models there are to choose from.
Offers(has, top) == IF has = {} THEN Sorted(PlanModels, {}) ELSE Sorted(has, top)

\* The plan of a node, device by device.
LEMMA PlanIs ==
  ASSUME NEW kind, NEW shape \in Seq(Nat), NEW has \in SUBSET PlanModels,
         NEW packed \in BOOLEAN, NEW top
  PROVE  Planned(PlanOf(kind, shape, has, packed, top), Len(Bins(kind, shape, has)),
                 Offers(has, top), Bins(kind, shape, has), Most(kind, shape, has, packed))
<1> DEFINE models == Offers(has, top)
           bins == Bins(kind, shape, has)
           max == Most(kind, shape, has, packed)
           A == Seq(Seq(PlanModels))
           Step(x, k) == Append(x, Place(models, bins[k], Placed(x), max))
           F == [k \in 1..Len(bins) |-> [x \in A |-> Step(x, k)]]
           upTo == CHOOSE upTo : upTo = [k \in 0..Len(bins) |->
                     IF k = 0 THEN <<>>
                     ELSE Append(upTo[k - 1], Place(models, bins[k], Placed(upTo[k - 1]), max))]
<1>1. PlanOf(kind, shape, has, packed, top) = upTo[Len(bins)]
  BY DEF PlanOf, Offers
<1>2. /\ bins \in Seq(Nat) /\ Len(bins) \in Nat /\ max \in Nat
      /\ \A k \in 1..Len(bins) : bins[k] \in Nat
  <2>1. bins \in Seq(Nat) /\ max \in Nat
    BY BinsAre
  <2> HIDE DEF bins, max
  <2> QED
    BY <2>1
<1>3. /\ models \in Seq(PlanModels)
      /\ \A i, j \in 1..Len(models) : models[i] = models[j] => i = j
  <2>1. CASE has = {}
    <3> DEFINE M == PlanModels
               none == {}
    <3>1. M \in SUBSET PlanModels /\ models = Sorted(M, none)
      BY <2>1 DEF Offers
    <3> HIDE DEF M, none
    <3> QED
      BY <3>1, SortedIs
  <2>2. CASE has # {}
    <3>1. models = Sorted(has, top)
      BY <2>2 DEF Offers
    <3> QED
      BY <3>1, SortedIs
  <2> QED
    BY <2>1, <2>2
<1> HIDE DEF models, bins, max
<1>4. ASSUME NEW k \in 1..Len(bins), NEW x \in A PROVE Step(x, k) \in A
  <2>1. PICK b : /\ b.put = Place(models, bins[k], Placed(x), max)
                 /\ Offered(b, Len(models), models, bins[k], Placed(x), max)
    BY <1>2, <1>3, PlaceSound
  <2>2. b.put \in Seq(PlanModels)
    BY <2>1 DEF Offered, Filling
  <2> QED
    BY <2>1, <2>2
<1>5. F \in [1..Len(bins) -> [A -> A]] /\ <<>> \in A
  BY <1>4
<1>6. \A k \in 1..Len(bins), x \in A : F[k][x] = Step(x, k)
  OBVIOUS
<1> HIDE DEF F, A
<1>7. PICK f \in [0..Len(bins) -> A] : Follows(f, Len(bins), <<>>, F)
  BY <1>2, <1>5, StepByStep, Zenon
<1>8. \A k \in 1..Len(bins) : f[k - 1] \in A
  <2>1. \A k \in 1..Len(bins) : k - 1 \in 0..Len(bins)
    BY <1>2
  <2> QED
    BY <2>1
<1>9. \A k \in 0..Len(bins) : f[k] = IF k = 0 THEN <<>> ELSE Step(f[k - 1], k)
  <2> SUFFICES ASSUME NEW k \in 0..Len(bins), k # 0
               PROVE  F[k][f[k - 1]] = Step(f[k - 1], k)
    BY <1>7 DEF Follows
  <2>1. k \in 1..Len(bins)
    BY <1>2
  <2> QED
    BY <2>1, <1>6, <1>8
<1>10. f = [k \in 0..Len(bins) |->
              IF k = 0 THEN <<>>
              ELSE Append(f[k - 1], Place(models, bins[k], Placed(f[k - 1]), max))]
  BY <1>9
<1>11. upTo = [k \in 0..Len(bins) |->
              IF k = 0 THEN <<>>
              ELSE Append(upTo[k - 1], Place(models, bins[k], Placed(upTo[k - 1]), max))]
  BY <1>10, Zenon
<1> HIDE DEF upTo
<1> DEFINE v(k) == IF k = 0 THEN <<>> ELSE Step(upTo[k - 1], k)
<1>12. upTo = [k \in 0..Len(bins) |-> v(k)]
  BY <1>11
<1> HIDE DEF v
<1>13. \A k \in 0..Len(bins) : upTo[k] = v(k)
  BY <1>12
<1> DEFINE Good(k) == Planned(upTo[k], k, models, bins, max)
           T == {k \in 0..Len(bins) : Good(k)}
<1>14. Good(0)
  <2>1. upTo[0] = <<>>
    BY <1>2, <1>13 DEF v
  <2> DEFINE e == <<>>
  <2>2. e \in Seq(Seq(PlanModels)) /\ Len(e) = 0 /\ 1..0 = {}
    OBVIOUS
  <2> HIDE DEF e
  <2>3. Planned(e, 0, models, bins, max)
    BY <2>2 DEF Planned
  <2> QED
    BY <2>1, <2>3 DEF e
<1>15. ASSUME NEW k \in 1..Len(bins), Good(k - 1) PROVE Good(k)
  <2>1. k \in 0..Len(bins) /\ k # 0
    BY <1>2
  <2>2. upTo[k] = Step(upTo[k - 1], k)
    BY <1>13, <2>1 DEF v
  <2>3. Planned(Append(upTo[k - 1], Place(models, bins[k], Placed(upTo[k - 1]), max)),
                k, models, bins, max)
    BY <1>2, <1>3, <1>15, PlanOne
  <2> QED
    BY <2>2, <2>3
<1> HIDE DEF Good
<1>16. T = 0..Len(bins)
  <2>1. /\ T \in SUBSET (0..Len(bins)) /\ 0 \in T
        /\ \A k \in 1..Len(bins) : k - 1 \in T => k \in T
    BY <1>2, <1>14, <1>15
  <2> HIDE DEF T
  <2> QED
    BY <1>2, <2>1, CountingUp
<1>17. Good(Len(bins))
  BY <1>2, <1>16
<1> QED
  BY <1>1, <1>17 DEF Good, models, bins, max

----------------------------------------------------------------------------
(* The plan never changes, and it is sound.                                 *)

PlanInv == /\ node \in Nodes /\ tight \in BOOLEAN /\ first \subseteq PlanModels
           /\ pushed \in BOOLEAN
           /\ plan = PlanOf(node.kind, node.shape, node.has, tight, first)

LEMMA PlanStep == PlanInv /\ [AutoloadNext]_autoloadVars => PlanInv'
<1> SUFFICES ASSUME PlanInv, [AutoloadNext]_autoloadVars PROVE PlanInv'
  OBVIOUS
<1>1. placeVars' = placeVars
  BY DEF AutoloadNext, autoloadVars, BeginAutoload, RunAutoload, PollStep, PollAsk, PollCheck,
         Drain, MarkSent, PollFails, FiveMinutesPass, SenderStep, MarkSending, Send
<1> QED
  BY <1>1 DEF PlanInv, placeVars

\* What a plan is, in terms of the node.
LEMMA PlanInvSound == PlanInv => PlanSound
<1> SUFFICES ASSUME PlanInv PROVE PlanSound
  OBVIOUS
<1> DEFINE models == Offers(node.has, first)
           max == Most(node.kind, node.shape, node.has, tight)
<1>1. /\ node.shape \in Seq(Nat) /\ node.has \in SUBSET PlanModels /\ tight \in BOOLEAN
  BY PlanAssumption DEF PlanInv, Nodes
<1>2. Planned(plan, Len(TheBins), models, TheBins, max)
  BY <1>1, PlanIs DEF PlanInv, TheBins
<1>3. /\ TheBins \in Seq(Nat) /\ max \in Nat \ {0}
      /\ tight /\ node.has # {} => max = Cardinality(node.has)
  BY <1>1, BinsAre DEF TheBins
<1>4. node.has # {} => ToSet(models) = node.has /\ Len(models) = Cardinality(node.has)
  BY <1>1, SortedIs DEF Offers
<1> HIDE DEF models, max
<1>5. /\ plan \in Seq(Seq(PlanModels)) /\ Len(plan) = Len(TheBins)
      /\ DOMAIN plan = 1..Len(TheBins) /\ DOMAIN TheBins = 1..Len(TheBins)
      /\ \A i \in 1..Len(TheBins) : plan[i] \in Seq(PlanModels) /\ TheBins[i] \in Nat
  <2>1. plan \in Seq(Seq(PlanModels)) /\ Len(plan) = Len(TheBins)
    BY <1>2 DEF Planned
  <2> QED
    BY <1>3, <2>1
<1>6. \A i \in 1..Len(TheBins) : DOMAIN plan[i] = 1..Len(plan[i]) /\ Taken(i) = Total(Costs(plan[i]))
  <2>1. \A i \in 1..Len(TheBins) : DOMAIN plan[i] = 1..Len(plan[i])
    BY <1>5
  <2> QED
    BY <2>1 DEF Taken, Costs
<1>7. PlanFits
  <2>1. \A i \in DOMAIN TheBins : Taken(i) <= Budget(TheBins[i])
    BY <1>2, <1>5, <1>6 DEF Planned
  <2>2. \A i, j \in DOMAIN plan : \A k \in DOMAIN plan[i], l \in DOMAIN plan[j] :
          plan[i][k] = plan[j][l] => i = j /\ k = l
    <3> SUFFICES ASSUME NEW i \in 1..Len(TheBins), NEW j \in 1..Len(TheBins),
                        NEW k \in DOMAIN plan[i], NEW l \in DOMAIN plan[j],
                        plan[i][k] = plan[j][l]
                 PROVE  i = j /\ k = l
      BY <1>5
    <3>1. k \in 1..Len(plan[i]) /\ l \in 1..Len(plan[j])
      BY <1>6
    <3> QED
      BY <1>2, <3>1 DEF Planned
  <2> QED
    BY <1>5, <2>1, <2>2 DEF PlanFits
<1>8. PlanFills
  <2> SUFFICES ASSUME NEW m \in node.has \ Placed(plan), NEW i \in 1..Len(TheBins),
                      Cost(m) <= Budget(TheBins[i]) - Taken(i)
               PROVE  ~tight /\ plan[i] # <<>>
    BY <1>5 DEF PlanFills
  <2>1. node.has # {} /\ m \in ToSet(models) /\ m \in PlanModels
    BY <1>1, <1>4
  <2>2. /\ Len(plan[i]) < Len(models)
        /\ Len(plan[i]) >= max \/ Cost(m) > Budget(TheBins[i]) - Total(Costs(plan[i]))
    BY <1>2, <2>1 DEF Planned
  <2>3. /\ Cost(m) \in Nat /\ Budget(TheBins[i]) \in Nat /\ Total(Costs(plan[i])) \in Nat
        /\ Taken(i) = Total(Costs(plan[i])) /\ Len(plan[i]) \in Nat
    <3>1. plan[i] \in Seq(PlanModels) /\ TheBins[i] \in Nat
      BY <1>5
    <3>2. Total(Costs(plan[i])) \in Nat
      BY <3>1, SomeCost
    <3>3. Cost(m) \in Nat /\ Budget(TheBins[i]) \in Nat
      BY <2>1, <3>1, CostsAreNumbers
    <3> QED
      BY <1>6, <3>1, <3>2, <3>3
  <2>4. Len(plan[i]) >= max
    BY <2>2, <2>3
  <2>5. plan[i] # <<>>
    <3>1. Len(plan[i]) # 0
      BY <1>3, <2>3, <2>4
    <3> QED
      BY <3>1
  <2>6. ~tight
    BY <1>3, <1>4, <2>1, <2>2, <2>3, <2>4
  <2> QED
    BY <2>5, <2>6
<1> QED
  BY <1>7, <1>8 DEF PlanSound

----------------------------------------------------------------------------
(* Autoload: what sequences hold.                                           *)

Within(s, x) == \E k \in 1..Len(s) : s[k] = x

\* What is in a sequence with one more element, without its first one, or followed by
\* another sequence.
LEMMA WithinAppend ==
  ASSUME NEW S, NEW s \in Seq(S), NEW e \in S
  PROVE  \A x : Within(Append(s, e), x) <=> Within(s, x) \/ x = e
<1> DEFINE a == Append(s, e)
<1>1. /\ Len(s) \in Nat /\ Len(a) = Len(s) + 1
      /\ \A i \in 1..Len(s) : a[i] = s[i]
      /\ a[Len(s) + 1] = e
  BY AppendProperties
<1> HIDE DEF a
<1> QED
  BY <1>1 DEF Within, a

LEMMA WithinTail ==
  ASSUME NEW S, NEW s \in Seq(S), s # <<>>, NEW x, Within(s, x), x # Head(s)
  PROVE  Within(Tail(s), x)
<1> DEFINE u == Tail(s)
<1>1. /\ Len(s) \in Nat /\ Len(s) >= 1 /\ Head(s) = s[1]
      /\ Len(u) = Len(s) - 1
      /\ \A i \in 1..Len(u) : u[i] = s[i + 1]
  BY HeadTailProperties, EmptySeq, LenProperties
<1> HIDE DEF u
<1>2. PICK i \in 1..Len(s) : s[i] = x
  BY DEF Within
<1>3. i - 1 \in 1..Len(u) /\ u[i - 1] = x
  BY <1>1, <1>2
<1> QED
  BY <1>3 DEF Within, u

LEMMA WithinConcat ==
  ASSUME NEW S, NEW s \in Seq(S), NEW t \in Seq(S)
  PROVE  /\ \A x : Within(s, x) => Within(s \o t, x)
         /\ \A x : Within(t, x) => Within(s \o t, x)
<1> DEFINE a == s \o t
<1>1. /\ Len(s) \in Nat /\ Len(t) \in Nat /\ Len(a) = Len(s) + Len(t)
      /\ \A i \in 1..Len(s) : a[i] = s[i]
      /\ \A i \in 1..Len(t) : a[Len(s) + i] = t[i]
  BY ConcatProperties
<1> HIDE DEF a
<1>2. ASSUME NEW i \in 1..Len(t) PROVE Len(s) + i \in 1..Len(a) /\ a[Len(s) + i] = t[i]
  BY <1>1
<1>3. \A i \in 1..Len(s) : i \in 1..Len(a)
  BY <1>1
<1>4. \A x : Within(s, x) => Within(a, x)
  BY <1>1, <1>3 DEF Within
<1>5. ASSUME NEW x, Within(t, x) PROVE Within(a, x)
  <2> PICK i \in 1..Len(t) : t[i] = x
    BY <1>5 DEF Within
  <2> QED
    BY <1>2 DEF Within
<1> QED
  BY <1>4, <1>5 DEF a

\* The commands of some operations are found one after the other.
LEMMA ThoseIs ==
  ASSUME NEW S, NEW cmds \in Seq(S), NEW ops
  PROVE  \E v \in [0..Len(cmds) -> Seq(S)] :
           /\ v[0] = <<>> /\ Those(cmds, ops) = v[Len(cmds)]
           /\ \A k \in 1..Len(cmds) :
                v[k] = IF cmds[k].op \in ops THEN Append(v[k - 1], cmds[k]) ELSE v[k - 1]
<1> DEFINE A == Seq(S)
           Step(x, k) == IF cmds[k].op \in ops THEN Append(x, cmds[k]) ELSE x
           F == [k \in 1..Len(cmds) |-> [x \in A |-> Step(x, k)]]
           upTo == CHOOSE upTo : upTo = [k \in 0..Len(cmds) |->
                     IF k = 0 THEN <<>>
                     ELSE IF cmds[k].op \in ops THEN Append(upTo[k - 1], cmds[k]) ELSE upTo[k - 1]]
<1>1. Those(cmds, ops) = upTo[Len(cmds)]
  BY DEF Those
<1>2. Len(cmds) \in Nat /\ \A k \in 1..Len(cmds) : cmds[k] \in S /\ k - 1 \in 0..Len(cmds)
  OBVIOUS
<1>3. ASSUME NEW k \in 1..Len(cmds), NEW x \in A PROVE Step(x, k) \in A
  BY <1>2
<1>4. F \in [1..Len(cmds) -> [A -> A]] /\ <<>> \in A
  BY <1>3
<1>5. \A k \in 1..Len(cmds), x \in A : F[k][x] = Step(x, k)
  OBVIOUS
<1> HIDE DEF F, A
<1>6. PICK f \in [0..Len(cmds) -> A] : Follows(f, Len(cmds), <<>>, F)
  BY <1>2, <1>4, StepByStep, Zenon
<1>7. \A k \in 1..Len(cmds) : f[k - 1] \in A
  BY <1>2
<1>8. \A k \in 0..Len(cmds) : f[k] = IF k = 0 THEN <<>> ELSE Step(f[k - 1], k)
  <2> SUFFICES ASSUME NEW k \in 0..Len(cmds), k # 0 PROVE F[k][f[k - 1]] = Step(f[k - 1], k)
    BY <1>6 DEF Follows
  <2>1. k \in 1..Len(cmds)
    BY <1>2
  <2> QED
    BY <2>1, <1>5, <1>7
<1>9. f = [k \in 0..Len(cmds) |->
             IF k = 0 THEN <<>>
             ELSE IF cmds[k].op \in ops THEN Append(f[k - 1], cmds[k]) ELSE f[k - 1]]
  BY <1>8
<1>10. upTo = [k \in 0..Len(cmds) |->
             IF k = 0 THEN <<>>
             ELSE IF cmds[k].op \in ops THEN Append(upTo[k - 1], cmds[k]) ELSE upTo[k - 1]]
  BY <1>9, Zenon
<1> HIDE DEF upTo
<1> DEFINE v(k) == IF k = 0 THEN <<>> ELSE Step(upTo[k - 1], k)
<1>11. upTo = [k \in 0..Len(cmds) |-> v(k)]
  BY <1>10
<1> HIDE DEF v
<1>12. \A k \in 0..Len(cmds) : upTo[k] = v(k)
  BY <1>11
<1> DEFINE T == {k \in 0..Len(cmds) : upTo[k] \in A}
<1>13. 0 \in T
  BY <1>2, <1>4, <1>12 DEF v
<1>14. ASSUME NEW k \in 1..Len(cmds), k - 1 \in T PROVE k \in T
  <2>1. k \in 0..Len(cmds) /\ k # 0 /\ upTo[k - 1] \in A
    BY <1>2, <1>14
  <2>2. upTo[k] = Step(upTo[k - 1], k)
    BY <1>12, <2>1 DEF v
  <2>3. Step(upTo[k - 1], k) \in A
    BY <1>3, <2>1
  <2> QED
    BY <2>1, <2>2, <2>3
<1>15. T = 0..Len(cmds)
  <2>1. T \in SUBSET (0..Len(cmds))
    OBVIOUS
  <2> HIDE DEF T
  <2> QED
    BY <1>2, <1>13, <1>14, <2>1, CountingUp
<1>16. upTo \in [0..Len(cmds) -> A]
  <2>1. \A k \in 0..Len(cmds) : v(k) \in A
    BY <1>12, <1>15
  <2> QED
    BY <1>11, <2>1
<1>17. upTo[0] = <<>>
  BY <1>2, <1>12 DEF v
<1>18. ASSUME NEW k \in 1..Len(cmds)
       PROVE  upTo[k] = IF cmds[k].op \in ops THEN Append(upTo[k - 1], cmds[k]) ELSE upTo[k - 1]
  <2>1. k \in 0..Len(cmds) /\ k # 0
    BY <1>2
  <2> QED
    BY <1>12, <2>1 DEF v
<1> QED
  BY <1>1, <1>16, <1>17, <1>18 DEF A

\* They are commands, and they are all of them.
LEMMA ThoseType ==
  ASSUME NEW S, NEW cmds \in Seq(S), NEW ops
  PROVE  Those(cmds, ops) \in Seq(S)
<1>1. Len(cmds) \in 0..Len(cmds)
  OBVIOUS
<1> QED
  BY <1>1, ThoseIs

LEMMA ThoseHolds ==
  ASSUME NEW S, NEW cmds \in Seq(S), NEW ops, NEW c, Within(cmds, c), c.op \in ops
  PROVE  Within(Those(cmds, ops), c)
<1> DEFINE n == Len(cmds)
<1>1. PICK v \in [0..n -> Seq(S)] :
           /\ v[0] = <<>> /\ Those(cmds, ops) = v[n]
           /\ \A k \in 1..n :
                v[k] = IF cmds[k].op \in ops THEN Append(v[k - 1], cmds[k]) ELSE v[k - 1]
  BY ThoseIs
<1>2. PICK i \in 1..n : cmds[i] = c
  BY DEF Within
<1>3. n \in Nat /\ \A k \in 1..n : k - 1 \in 0..n /\ cmds[k] \in S
  OBVIOUS
<1> DEFINE T == {k \in 0..n : k >= i => Within(v[k], c)}
<1>4. 0 \in T
  BY <1>3
<1>5. ASSUME NEW k \in 1..n, k - 1 \in T PROVE k \in T
  <2>1. v[k - 1] \in Seq(S) /\ cmds[k] \in S
    BY <1>3
  <2>2. \A x : Within(Append(v[k - 1], cmds[k]), x) <=> Within(v[k - 1], x) \/ x = cmds[k]
    BY <2>1, WithinAppend
  <2>3. v[k] = IF cmds[k].op \in ops THEN Append(v[k - 1], cmds[k]) ELSE v[k - 1]
    BY <1>1
  <2>4. CASE k = i
    BY <1>2, <1>3, <2>2, <2>3, <2>4
  <2>5. CASE k > i
    <3>1. k - 1 >= i
      BY <1>3, <2>5
    <3>2. Within(v[k - 1], c)
      BY <1>5, <3>1
    <3> QED
      BY <1>3, <2>2, <2>3, <3>2
  <2> QED
    BY <1>3, <2>4, <2>5
<1>6. T = 0..n
  <2>1. T \in SUBSET (0..n)
    OBVIOUS
  <2> HIDE DEF T, n
  <2> QED
    BY <1>3, <1>4, <1>5, <2>1, CountingUp
<1>7. n \in T /\ n >= i
  BY <1>3, <1>6
<1> QED
  BY <1>1, <1>7

\* Sequences are put one after the other.
LEMMA FlatIs ==
  ASSUME NEW S, NEW seqs \in Seq(Seq(S))
  PROVE  \/ seqs = <<>> /\ FlattenSeq(seqs) = <<>>
         \/ \E v \in [1..Len(seqs) -> Seq(S)] :
              /\ Len(seqs) >= 1 /\ v[1] = seqs[1] /\ FlattenSeq(seqs) = v[Len(seqs)]
              /\ \A k \in 2..Len(seqs) : v[k] = v[k - 1] \o seqs[k]
<1> DEFINE A == Seq(S)
           n == Len(seqs)
           Step(x, k) == IF k = 1 THEN seqs[k] ELSE x \o seqs[k]
           F == [k \in 1..n |-> [x \in A |-> Step(x, k)]]
           flatten == CHOOSE flatten : flatten = [i \in 1..Len(seqs) |->
                        IF i = 1 THEN seqs[i] ELSE flatten[i - 1] \o seqs[i]]
<1>1. CASE n = 0
  <2>1. seqs = <<>>
    BY <1>1
  <2> QED
    BY <2>1 DEF FlattenSeq
<1>2. CASE n # 0
  <2>1. FlattenSeq(seqs) = flatten[Len(seqs)]
    BY <1>2 DEF FlattenSeq
  <2>2. n \in Nat /\ \A k \in 1..n : seqs[k] \in A /\ k - 1 \in 0..n
    OBVIOUS
  <2>3. ASSUME NEW k \in 1..n, NEW x \in A PROVE Step(x, k) \in A
    BY <2>2
  <2>4. F \in [1..n -> [A -> A]] /\ <<>> \in A
    BY <2>3
  <2>5. \A k \in 1..n, x \in A : F[k][x] = Step(x, k)
    OBVIOUS
  <2> HIDE DEF F, A
  <2>6. PICK f \in [0..n -> A] : Follows(f, n, <<>>, F)
    BY <2>2, <2>4, StepByStep, Zenon
  <2>7. \A k \in 1..n : f[k] = Step(f[k - 1], k)
    <3> SUFFICES ASSUME NEW k \in 1..n PROVE f[k] = Step(f[k - 1], k)
      OBVIOUS
    <3>0. k \in 0..n /\ k # 0 /\ k - 1 \in 0..n
      BY <2>2
    <3>1. k \in 0..n /\ k # 0 /\ f[k - 1] \in A
      BY <3>0
    <3>2. f[k] = F[k][f[k - 1]]
      BY <2>6, <3>1 DEF Follows
    <3> QED
      BY <2>5, <3>1, <3>2
  <2> DEFINE g == [i \in 1..Len(seqs) |-> f[i]]
  <2>8. g = [i \in 1..Len(seqs) |-> IF i = 1 THEN seqs[i] ELSE g[i - 1] \o seqs[i]]
    <3>1. \A i \in 1..n : i # 1 => i - 1 \in 1..n
      BY <2>2
    <3>2. \A i \in 1..n : f[i] = IF i = 1 THEN seqs[i] ELSE g[i - 1] \o seqs[i]
      BY <2>7, <3>1
    <3> QED
      BY <3>2
  <2> HIDE DEF g
  <2>9. flatten = [i \in 1..Len(seqs) |->
                     IF i = 1 THEN seqs[i] ELSE flatten[i - 1] \o seqs[i]]
    BY <2>8, Zenon
  <2> HIDE DEF flatten
  <2> DEFINE v(k) == IF k = 1 THEN seqs[k] ELSE flatten[k - 1] \o seqs[k]
  <2>10. flatten = [k \in 1..n |-> v(k)]
    BY <2>9
  <2> HIDE DEF v
  <2>11. \A k \in 1..n : flatten[k] = v(k)
    BY <2>10
  <2> DEFINE T == {k \in 0..n : k = 0 \/ flatten[k] \in A}
  <2>12. 0 \in T
    BY <2>2
  <2>13. ASSUME NEW k \in 1..n, k - 1 \in T PROVE k \in T
    <3>1. k \in 0..n /\ seqs[k] \in A
      BY <2>2
    <3>2. CASE k = 1
      BY <3>1, <3>2, <2>11 DEF v
    <3>3. CASE k # 1
      <4>1. k - 1 # 0 /\ flatten[k - 1] \in A
        BY <2>2, <2>13, <3>3
      <4>2. flatten[k] = flatten[k - 1] \o seqs[k]
        BY <2>11, <3>3 DEF v
      <4>3. flatten[k] \in A
        BY <3>1, <4>1, <4>2 DEF A
      <4> QED
        BY <3>1, <4>3
    <3> QED
      BY <3>2, <3>3
  <2>14. T = 0..n
    <3>1. T \in SUBSET (0..n)
      OBVIOUS
    <3> HIDE DEF T, n
    <3> QED
      BY <2>2, <2>12, <2>13, <3>1, CountingUp
  <2>15. flatten \in [1..n -> A]
    <3>1. \A k \in 1..n : k \in 0..n /\ k # 0
      BY <2>2
    <3>2. \A k \in 1..n : v(k) \in A
      BY <2>11, <2>14, <3>1
    <3> QED
      BY <2>10, <3>2
  <2>16. n >= 1 /\ flatten[1] = seqs[1]
    <3>1. n >= 1
      BY <1>2, <2>2
    <3>2. 1 \in 1..n
      BY <2>2, <3>1
    <3> QED
      BY <2>11, <3>1, <3>2 DEF v
  <2>17. ASSUME NEW k \in 2..n PROVE flatten[k] = flatten[k - 1] \o seqs[k]
    <3>1. k \in 1..n /\ k # 1
      BY <2>2
    <3> QED
      BY <2>11, <3>1 DEF v
  <2> QED
    BY <2>1, <2>15, <2>16, <2>17 DEF A
<1> QED
  BY <1>1, <1>2

\* They are one sequence, which holds what they hold.
LEMMA FlatType ==
  ASSUME NEW S, NEW seqs \in Seq(Seq(S))
  PROVE  FlattenSeq(seqs) \in Seq(S)
<1>1. CASE seqs = <<>> /\ FlattenSeq(seqs) = <<>>
  <2>1. <<>> \in Seq(S)
    OBVIOUS
  <2> QED
    BY <1>1, <2>1
<1>2. CASE \E v \in [1..Len(seqs) -> Seq(S)] : Len(seqs) >= 1 /\ FlattenSeq(seqs) = v[Len(seqs)]
  <2>1. PICK v \in [1..Len(seqs) -> Seq(S)] : Len(seqs) >= 1 /\ FlattenSeq(seqs) = v[Len(seqs)]
    BY <1>2
  <2>2. Len(seqs) \in 1..Len(seqs)
    <3>1. Len(seqs) \in Nat
      OBVIOUS
    <3> QED
      BY <2>1, <3>1
  <2> QED
    BY <2>1, <2>2
<1> QED
  BY <1>1, <1>2, FlatIs

LEMMA FlatHolds ==
  ASSUME NEW S, NEW seqs \in Seq(Seq(S)), NEW i \in 1..Len(seqs), NEW x, Within(seqs[i], x)
  PROVE  Within(FlattenSeq(seqs), x)
<1> DEFINE n == Len(seqs)
<1>1. n \in Nat /\ n >= 1 /\ seqs # <<>> /\ \A k \in 1..n : seqs[k] \in Seq(S)
  OBVIOUS
<1>2. PICK v \in [1..n -> Seq(S)] :
           /\ v[1] = seqs[1] /\ FlattenSeq(seqs) = v[n]
           /\ \A k \in 2..n : v[k] = v[k - 1] \o seqs[k]
  BY <1>1, FlatIs
<1> DEFINE T == {k \in 0..n : k >= i => Within(v[k], x)}
<1>3. 0 \in T
  BY <1>1
<1>4. ASSUME NEW k \in 1..n, k - 1 \in T PROVE k \in T
  <2>1. k \in 0..n
    BY <1>1
  <2>2. CASE k = 1
    BY <1>1, <1>2, <2>1, <2>2
  <2>3. CASE k # 1
    <3>1. k \in 2..n /\ k - 1 \in 1..n /\ seqs[k] \in Seq(S)
      BY <1>1, <2>3
    <3>2. v[k - 1] \in Seq(S) /\ v[k] = v[k - 1] \o seqs[k]
      BY <1>2, <3>1
    <3>3. /\ \A y : Within(v[k - 1], y) => Within(v[k - 1] \o seqs[k], y)
          /\ \A y : Within(seqs[k], y) => Within(v[k - 1] \o seqs[k], y)
      BY <3>1, <3>2, WithinConcat
    <3>4. k >= i => k = i \/ k - 1 >= i
      BY <1>1
    <3> QED
      BY <1>4, <2>1, <3>2, <3>3, <3>4
  <2> QED
    BY <2>2, <2>3
<1>5. T = 0..n
  <2>1. T \in SUBSET (0..n)
    OBVIOUS
  <2> HIDE DEF T, n
  <2> QED
    BY <1>1, <1>3, <1>4, <2>1, CountingUp
<1>6. n \in 0..n /\ n >= i
  BY <1>1
<1>7. n \in T
  BY <1>5, <1>6
<1> QED
  BY <1>2, <1>6, <1>7

----------------------------------------------------------------------------
(* Autoload: types.                                                         *)

Todo == [do : {"append", "pend", "plan"}, cmd : Commands]
TrackedStep == [model : PlanModels, op : {"load", "download_and_load"},
                state : {"queued", "sending", "done", "failed"}]
Batch == [cmds : Seq(Commands) \ {<<>>}, sending : BOOLEAN]

\* The inductive invariant of the types: the plan is that of the node.
AutoloadInv == AutoloadTypeOK /\ PlanInv

LEMMA PlanType == PlanInv => plan \in Seq(Seq(PlanModels))
<1> SUFFICES ASSUME PlanInv PROVE plan \in Seq(Seq(PlanModels))
  OBVIOUS
<1>1. /\ node.shape \in Seq(Nat) /\ node.has \in SUBSET PlanModels /\ tight \in BOOLEAN
  BY PlanAssumption DEF PlanInv, Nodes
<1> QED
  BY <1>1, PlanIs DEF PlanInv, Planned

\* Steps keep their type when one of them changes its state.
LEMMA StepsType ==
  ASSUME NEW s \in Seq(TrackedStep), NEW t, DOMAIN t = DOMAIN s, t = [i \in DOMAIN s |-> t[i]],
         NEW state \in {"queued", "sending", "done", "failed"},
         \A i \in DOMAIN s : t[i] = s[i] \/ t[i] = [s[i] EXCEPT !.state = state]
  PROVE  t \in Seq(TrackedStep)
<1>1. DOMAIN s = 1..Len(s) /\ Len(s) \in Nat /\ \A i \in 1..Len(s) : s[i] \in TrackedStep
  OBVIOUS
<1>2. \A i \in 1..Len(s) : t[i] \in TrackedStep
  BY <1>1 DEF TrackedStep
<1>3. t \in [1..Len(s) -> TrackedStep]
  BY <1>1, <1>2
<1> QED
  BY <1>1, <1>3

LEMMA UpdateType ==
  ASSUME AutoloadTypeOK, NEW m, NEW state \in {"sending", "done", "failed"}, UpdateStep(m, state)
  PROVE  tracked' \in Seq(TrackedStep) /\ status' \in {"none", "running", "done"}
<1>1. tracked \in Seq(TrackedStep) /\ status \in {"none", "running", "done"}
  BY DEF AutoloadTypeOK, TrackedStep
<1>2. CASE status = "none"
  BY <1>1, <1>2 DEF UpdateStep, stepVars
<1>3. CASE status # "none"
  <2>1. /\ tracked' = [i \in DOMAIN tracked |->
                        IF tracked[i].model = m /\ tracked[i].op = "load"
                        THEN [tracked[i] EXCEPT !.state = state] ELSE tracked[i]]
        /\ status' = StatusOf(tracked')
    BY <1>3 DEF UpdateStep
  <2>2. tracked' \in Seq(TrackedStep)
    <3>1. DOMAIN tracked = 1..Len(tracked) /\ Len(tracked) \in Nat
          /\ \A i \in 1..Len(tracked) : tracked[i] \in TrackedStep
      BY <1>1
    <3>2. ASSUME NEW s \in TrackedStep PROVE [s EXCEPT !.state = state] \in TrackedStep
      BY DEF TrackedStep
    <3>3. tracked' \in [1..Len(tracked) -> TrackedStep]
      BY <2>1, <3>1, <3>2
    <3> QED
      BY <3>1, <3>3
  <2>3. status' \in {"none", "running", "done"}
    BY <1>1, <2>1 DEF StatusOf
  <2> QED
    BY <2>2, <2>3
<1> QED
  BY <1>2, <1>3

LEMMA HeartbeatType ==
  ASSUME AutoloadTypeOK, NEW seen, CheckHeartbeat(seen)
  PROVE  tracked' \in Seq(TrackedStep) /\ status' \in {"none", "running", "done"}
<1>1. tracked \in Seq(TrackedStep) /\ status \in {"none", "running", "done"}
  BY DEF AutoloadTypeOK, TrackedStep
<1>2. CASE status # "running"
  BY <1>1, <1>2 DEF CheckHeartbeat, stepVars
<1>3. CASE status = "running"
  <2>1. /\ tracked' = [i \in DOMAIN tracked |->
                        IF /\ tracked[i].state \in {"queued", "sending"}
                           /\ tracked[i].op = "load" /\ tracked[i].model \in seen
                        THEN [tracked[i] EXCEPT !.state = "done"] ELSE tracked[i]]
        /\ status' = IF Settled(tracked') THEN "done" ELSE status
    BY <1>3 DEF CheckHeartbeat
  <2>2. tracked' \in Seq(TrackedStep)
    <3>1. /\ DOMAIN tracked' = DOMAIN tracked
          /\ tracked' = [i \in DOMAIN tracked |-> tracked'[i]]
          /\ \A i \in DOMAIN tracked : \/ tracked'[i] = tracked[i]
                                       \/ tracked'[i] = [tracked[i] EXCEPT !.state = "done"]
      BY <2>1
    <3> QED
      BY <1>1, <3>1, StepsType
  <2> QED
    BY <1>1, <2>1, <2>2
<1> QED
  BY <1>2, <1>3

LEMMA EnqueueType == \A c \in Commands : Enqueue(c) \in Seq(Todo)
<1> SUFFICES ASSUME NEW c \in Commands PROVE Enqueue(c) \in Seq(Todo)
  OBVIOUS
<1>1. [do |-> "append", cmd |-> c] \in Todo /\ [do |-> "pend", cmd |-> c] \in Todo
  BY DEF Todo
<1> QED
  BY <1>1 DEF Enqueue

LEMMA MakePlanType ==
  ASSUME AutoloadInv, MakePlan
  PROVE  tracked' \in Seq(TrackedStep) /\ status' \in {"running", "done"} /\ toDo' \in Seq(Todo)
<1> DEFINE models == FlattenSeq(plan)
           op == IF node.has = {} THEN "download_and_load" ELSE "load"
           ls == [i \in DOMAIN models |-> Enqueue([op |-> op, model |-> models[i]])]
           ts == [i \in DOMAIN models |-> [model |-> models[i], op |-> op, state |-> "queued"]]
<1>1. models \in Seq(PlanModels)
  BY PlanType, FlatType DEF AutoloadInv
<1>2. /\ tracked' = ts /\ toDo' = FlattenSeq(ls) /\ status' \in {"running", "done"}
  BY DEF MakePlan
<1>3. op \in {"load", "download_and_load"}
  OBVIOUS
<1> HIDE DEF models, op
<1>4. DOMAIN models = 1..Len(models) /\ Len(models) \in Nat
      /\ \A i \in 1..Len(models) : models[i] \in PlanModels
  BY <1>1
<1>5. ts \in Seq(TrackedStep)
  <2>1. \A i \in 1..Len(models) : [model |-> models[i], op |-> op, state |-> "queued"] \in TrackedStep
    BY <1>3, <1>4 DEF TrackedStep
  <2>2. ts \in [1..Len(models) -> TrackedStep]
    BY <1>4, <2>1
  <2> QED
    BY <1>4, <2>2
<1>6. ls \in Seq(Seq(Todo))
  <2>1. \A i \in 1..Len(models) : [op |-> op, model |-> models[i]] \in Commands
    BY <1>3, <1>4 DEF Commands
  <2>2. \A i \in 1..Len(models) : Enqueue([op |-> op, model |-> models[i]]) \in Seq(Todo)
    BY <2>1, EnqueueType
  <2>3. ls \in [1..Len(models) -> Seq(Todo)]
    BY <1>4, <2>2
  <2> QED
    BY <1>4, <2>3
<1> HIDE DEF ls, ts
<1> QED
  BY <1>2, <1>5, <1>6, FlatType

LEMMA BatchType ==
  ASSUME NEW b \in Seq(Batch), NEW i \in DOMAIN b
  PROVE  /\ b[i] \in Batch /\ b[i].cmds \in Seq(Commands) /\ b[i].cmds # <<>>
         /\ Head(b[i].cmds) \in Commands
         /\ [b EXCEPT ![i].sending = TRUE] \in Seq(Batch)
         /\ (IF Len(b[i].cmds) = 1 THEN RemoveAt(b, i)
             ELSE [b EXCEPT ![i] = [cmds |-> Tail(@.cmds), sending |-> FALSE]]) \in Seq(Batch)
<1>1. b[i] \in Batch /\ i \in 1..Len(b) /\ Len(b) \in Nat
  OBVIOUS
<1> DEFINE c == b[i].cmds
<1>2. c \in Seq(Commands) /\ c # <<>>
  BY <1>1 DEF Batch
<1>3. Head(c) \in Commands
  BY <1>2
<1>4. [b EXCEPT ![i].sending = TRUE] \in Seq(Batch)
  <2>1. [b[i] EXCEPT !.sending = TRUE] \in Batch
    BY <1>1 DEF Batch
  <2>2. [b EXCEPT ![i] = [b[i] EXCEPT !.sending = TRUE]] \in Seq(Batch)
    BY <1>1, <2>1
  <2> QED
    BY <2>2
<1>5. CASE Len(c) = 1
  <2>1. SubSeq(b, 1, i - 1) \in Seq(Batch) /\ SubSeq(b, i + 1, Len(b)) \in Seq(Batch)
    BY <1>1
  <2>2. RemoveAt(b, i) \in Seq(Batch)
    BY <2>1 DEF RemoveAt
  <2> QED
    BY <1>1, <1>2, <1>3, <1>4, <1>5, <2>2
<1>6. CASE Len(c) # 1
  <2>1. Len(c) \in Nat /\ Len(c) # 0
    BY <1>2
  <2>2. Tail(c) \in Seq(Commands) /\ Len(Tail(c)) = Len(c) - 1
    BY <1>2
  <2>3. Tail(c) # <<>>
    <3> DEFINE t == Tail(c)
    <3>1. t \in Seq(Commands) /\ Len(t) # 0
      BY <1>6, <2>1, <2>2
    <3> HIDE DEF t
    <3>2. t # <<>>
      BY <3>1
    <3> QED
      BY <3>2 DEF t
  <2> DEFINE n == [cmds |-> Tail(c), sending |-> FALSE]
  <2>4. n \in Batch
    BY <2>2, <2>3 DEF Batch
  <2> HIDE DEF n
  <2>5. [b EXCEPT ![i] = n] \in Seq(Batch)
    BY <1>1, <2>4
  <2> QED
    BY <1>1, <1>2, <1>3, <1>4, <1>6, <2>5 DEF n
<1> QED
  BY <1>5, <1>6

\* The batches of a poll.
LEMMA MarkSentType ==
  ASSUME AutoloadTypeOK, MarkSent
  PROVE  batches' \in Seq(Batch) /\ pending' \subseteq [cmd : Commands, state : {"queued", "sent"}]
<1> DEFINE ops == Those(poll.cmds, {"load", "unload_all"})
           rest == Those(poll.cmds, {"download_and_load"})
           own == IF ops = <<>> THEN <<>> ELSE <<[cmds |-> ops, sending |-> FALSE]>>
           each == [i \in DOMAIN rest |-> [cmds |-> <<rest[i]>>, sending |-> FALSE]]
<1>1. poll.cmds \in Seq(Commands) /\ batches \in Seq(Batch)
  BY DEF AutoloadTypeOK, Batch
<1>2. ops \in Seq(Commands) /\ rest \in Seq(Commands)
  BY <1>1, ThoseType
<1>3. batches' = batches \o own \o each
  BY DEF MarkSent
<1> HIDE DEF ops, rest
<1>4. own \in Seq(Batch)
  <2>1. CASE ops = <<>>
    BY <2>1
  <2>2. CASE ops # <<>>
    <3>1. [cmds |-> ops, sending |-> FALSE] \in Batch
      BY <1>2, <2>2 DEF Batch
    <3> QED
      BY <2>2, <3>1
  <2> QED
    BY <2>1, <2>2
<1>5. each \in Seq(Batch)
  <2>1. DOMAIN rest = 1..Len(rest) /\ Len(rest) \in Nat /\ \A i \in 1..Len(rest) : rest[i] \in Commands
    BY <1>2
  <2>2. \A i \in 1..Len(rest) : [cmds |-> <<rest[i]>>, sending |-> FALSE] \in Batch
    <3> SUFFICES ASSUME NEW i \in 1..Len(rest)
                 PROVE  [cmds |-> <<rest[i]>>, sending |-> FALSE] \in Batch
      OBVIOUS
    <3>1. <<rest[i]>> \in Seq(Commands) /\ <<rest[i]>> # <<>>
      BY <2>1
    <3> QED
      BY <3>1 DEF Batch
  <2>3. each \in [1..Len(rest) -> Batch]
    BY <2>1, <2>2
  <2> QED
    BY <2>1, <2>3
<1> HIDE DEF own, each
<1>6. batches' \in Seq(Batch)
  BY <1>1, <1>3, <1>4, <1>5
<1>7. pending' \subseteq [cmd : Commands, state : {"queued", "sent"}]
  <2>1. pending' = {IF p.cmd \in ToSet(poll.cmds) THEN [p EXCEPT !.state = "sent"] ELSE p
                      : p \in pending}
    BY DEF MarkSent
  <2>2. \A p \in pending : p \in [cmd : Commands, state : {"queued", "sent"}]
    BY DEF AutoloadTypeOK
  <2>3. \A p \in pending : [p EXCEPT !.state = "sent"] \in [cmd : Commands, state : {"queued", "sent"}]
    BY <2>2
  <2> QED
    BY <2>1, <2>2, <2>3
<1> QED
  BY <1>6, <1>7

\* A step of a thread, a poll or a sender keeps the types.
LEMMA AutoloadTypeStep == AutoloadInv /\ [AutoloadNext]_autoloadVars => AutoloadTypeOK'
<1> SUFFICES ASSUME AutoloadInv, [AutoloadNext]_autoloadVars PROVE AutoloadTypeOK'
  OBVIOUS
<1> USE DEF AutoloadInv
<1>1. AutoloadTypeOK
  OBVIOUS
<1>2. CASE BeginAutoload
  <2>1. UnloadAllNode \in Commands
    BY DEF UnloadAllNode, Commands
  <2>2. toDo' \in Seq(Todo)
    <3>1. Enqueue(UnloadAllNode) \in Seq(Todo)
      BY <2>1, EnqueueType
    <3>2. [do |-> "plan", cmd |-> UnloadAllNode] \in Todo
      BY <2>1 DEF Todo
    <3>3. <<[do |-> "plan", cmd |-> UnloadAllNode]>> \in Seq(Todo)
      BY <3>2
    <3>4. toDo' = Enqueue(UnloadAllNode) \o <<[do |-> "plan", cmd |-> UnloadAllNode]>>
      BY <1>2 DEF BeginAutoload
    <3> HIDE DEF Enqueue
    <3> QED
      BY <3>1, <3>3, <3>4
  <2>3. runs' \in 0..(IF node' \in DOMAIN Driven THEN Driven[node'] ELSE 0)
    <3>1. /\ node' = node /\ node \in DOMAIN Driven /\ runs' = runs + 1 /\ runs < Driven[node]
      BY <1>2 DEF BeginAutoload, placeVars
    <3>2. Driven[node] \in Nat /\ runs \in 0..Driven[node]
      BY <1>1, <3>1, PlanAssumption DEF AutoloadTypeOK
    <3> QED
      BY <3>1, <3>2
  <2> QED
    BY <1>1, <1>2, <2>2, <2>3 DEF BeginAutoload, AutoloadTypeOK, placeVars, stepVars, Todo
<1>3. CASE RunAutoload
  <2> DEFINE next == Head(toDo)
  <2>1. toDo \in Seq(Todo) /\ toDo # <<>>
    BY <1>1, <1>3 DEF RunAutoload, AutoloadTypeOK, Todo
  <2>2. next \in Todo /\ Tail(toDo) \in Seq(Todo)
    BY <2>1
  <2>3. next.cmd \in Commands /\ next.do \in {"append", "pend", "plan"}
    BY <2>2 DEF Todo
  <2> HIDE DEF next
  <2>4. UNCHANGED <<placeVars, poll, batches, loadedOn, runs, sendFaults>>
    BY <1>3 DEF RunAutoload
  <2>5. CASE next.do = "append"
    <3>1. queue' = Append(queue, next.cmd) /\ toDo' = Tail(toDo) /\ UNCHANGED <<pending, late, stepVars>>
      BY <1>3, <2>5 DEF RunAutoload, next
    <3>2. queue' \in Seq(Commands)
      BY <1>1, <2>3, <3>1 DEF AutoloadTypeOK
    <3> QED
      BY <1>1, <2>2, <2>4, <3>1, <3>2 DEF AutoloadTypeOK, placeVars, stepVars, Todo
  <2>6. CASE next.do = "pend"
    <3>1. /\ pending' = WithPending(next.cmd) /\ late' = FALSE
          /\ toDo' = Tail(toDo) /\ UNCHANGED <<queue, stepVars>>
      BY <1>3, <2>6 DEF RunAutoload, next
    <3>2. pending' \subseteq [cmd : Commands, state : {"queued", "sent"}]
      BY <1>1, <2>3, <3>1 DEF AutoloadTypeOK, WithPending
    <3> QED
      BY <1>1, <2>2, <2>4, <3>1, <3>2 DEF AutoloadTypeOK, placeVars, stepVars, Todo
  <2>7. CASE next.do = "plan"
    <3>1. MakePlan /\ UNCHANGED <<queue, pending, late>>
      BY <1>3, <2>7 DEF RunAutoload, next
    <3>2. tracked' \in Seq(TrackedStep) /\ status' \in {"running", "done"} /\ toDo' \in Seq(Todo)
      BY <3>1, MakePlanType
    <3> QED
      BY <1>1, <2>4, <3>1, <3>2 DEF AutoloadTypeOK, placeVars, TrackedStep, Todo
  <2> QED
    BY <2>3, <2>5, <2>6, <2>7
<1>4. CASE PollAsk
  <2>1. poll' \in [at : {"idle", "seen", "drain", "mark"}, seen : SUBSET PlanModels,
                   cmds : Seq(Commands)]
    BY <1>1, <1>4 DEF PollAsk, NoPoll, AutoloadTypeOK
  <2> QED
    BY <1>1, <1>4, <2>1 DEF PollAsk, AutoloadTypeOK, placeVars, stepVars
<1>5. CASE PollCheck
  <2>1. tracked' \in Seq(TrackedStep) /\ status' \in {"none", "running", "done"}
    BY <1>1, <1>5, HeartbeatType DEF PollCheck
  <2>2. poll' \in [at : {"idle", "seen", "drain", "mark"}, seen : SUBSET PlanModels,
                   cmds : Seq(Commands)]
    <3>1. poll' = [at |-> "drain", seen |-> {}, cmds |-> <<>>]
      BY <1>5 DEF PollCheck, NoPoll
    <3>2. <<>> \in Seq(Commands)
      OBVIOUS
    <3> QED
      BY <3>1, <3>2
  <2>3. pending' \subseteq [cmd : Commands, state : {"queued", "sent"}]
    BY <1>1, <1>5 DEF PollCheck, CheckPending, AutoloadTypeOK
  <2> QED
    BY <1>1, <1>5, <2>1, <2>2, <2>3 DEF PollCheck, AutoloadTypeOK, placeVars, TrackedStep
<1>6. CASE PollFails
  <2>1. poll' \in [at : {"idle", "seen", "drain", "mark"}, seen : SUBSET PlanModels,
                   cmds : Seq(Commands)]
    <3>1. \/ poll' = [at |-> "drain", seen |-> {}, cmds |-> <<>>]
          \/ poll' = [at |-> "idle", seen |-> {}, cmds |-> <<>>]
      BY <1>6 DEF PollFails, NoPoll
    <3>2. <<>> \in Seq(Commands)
      OBVIOUS
    <3>3. CASE poll' = [at |-> "drain", seen |-> {}, cmds |-> <<>>]
      BY <3>2, <3>3
    <3>4. CASE poll' = [at |-> "idle", seen |-> {}, cmds |-> <<>>]
      BY <3>2, <3>4
    <3> QED
      BY <3>1, <3>3, <3>4
  <2>2. sendFaults' \in 0..MaxSendFaults
    BY <1>1, <1>6, PlanAssumption DEF PollFails, SendFault, AutoloadTypeOK
  <2> QED
    BY <1>1, <1>6, <2>1, <2>2 DEF PollFails, AutoloadTypeOK, placeVars, stepVars
<1>7. CASE Drain
  <2>1. poll' \in [at : {"idle", "seen", "drain", "mark"}, seen : SUBSET PlanModels,
                   cmds : Seq(Commands)]
    BY <1>1, <1>7 DEF Drain, NoPoll, AutoloadTypeOK
  <2>2. queue' \in Seq(Commands)
    BY <1>7 DEF Drain
  <2> QED
    BY <1>1, <1>7, <2>1, <2>2 DEF Drain, AutoloadTypeOK, placeVars, stepVars
<1>8. CASE MarkSent
  <2>1. batches' \in Seq(Batch) /\ pending' \subseteq [cmd : Commands, state : {"queued", "sent"}]
    BY <1>1, <1>8, MarkSentType
  <2>2. poll' \in [at : {"idle", "seen", "drain", "mark"}, seen : SUBSET PlanModels,
                   cmds : Seq(Commands)]
    BY <1>8 DEF MarkSent, NoPoll
  <2> QED
    BY <1>1, <1>8, <2>1, <2>2 DEF MarkSent, AutoloadTypeOK, placeVars, stepVars, Batch
<1>9. CASE FiveMinutesPass
  BY <1>1, <1>9 DEF FiveMinutesPass, AutoloadTypeOK, placeVars, stepVars
<1>10. ASSUME NEW i \in DOMAIN batches, MarkSending(i) PROVE AutoloadTypeOK'
  <2>1. batches \in Seq(Batch)
    BY <1>1 DEF AutoloadTypeOK, Batch
  <2>2. batches' \in Seq(Batch)
    BY <1>10, <2>1, BatchType DEF MarkSending
  <2>3. tracked' \in Seq(TrackedStep) /\ status' \in {"none", "running", "done"}
    <3>1. CASE pushed /\ Head(batches[i].cmds).op = "load"
      BY <1>1, <1>10, <3>1, UpdateType DEF MarkSending
    <3>2. CASE ~(pushed /\ Head(batches[i].cmds).op = "load")
      BY <1>1, <1>10, <3>2 DEF MarkSending, stepVars, AutoloadTypeOK, TrackedStep
    <3> QED
      BY <3>1, <3>2
  <2> QED
    BY <1>1, <1>10, <2>2, <2>3 DEF MarkSending, AutoloadTypeOK, placeVars, TrackedStep, Batch
<1>11. ASSUME NEW i \in DOMAIN batches, Send(i) PROVE AutoloadTypeOK'
  <2> DEFINE c == Head(batches[i].cmds)
  <2>1. batches \in Seq(Batch)
    BY <1>1 DEF AutoloadTypeOK, Batch
  <2>2. batches' \in Seq(Batch) /\ c \in Commands
    BY <1>11, <2>1, BatchType DEF Send
  <2>3. \A state \in {"done", "failed"} :
          (IF pushed /\ c.op = "load" THEN UpdateStep(c.model, state) ELSE UNCHANGED stepVars)
          => tracked' \in Seq(TrackedStep) /\ status' \in {"none", "running", "done"}
    <3> SUFFICES ASSUME NEW state \in {"done", "failed"},
                        IF pushed /\ c.op = "load" THEN UpdateStep(c.model, state)
                        ELSE UNCHANGED stepVars
                 PROVE  tracked' \in Seq(TrackedStep) /\ status' \in {"none", "running", "done"}
      OBVIOUS
    <3>1. CASE pushed /\ c.op = "load"
      <4>1. UpdateStep(c.model, state) /\ state \in {"sending", "done", "failed"}
        BY <3>1
      <4> QED
        BY <1>1, <4>1, UpdateType
    <3>2. CASE ~(pushed /\ c.op = "load")
      BY <1>1, <3>2 DEF stepVars, AutoloadTypeOK, TrackedStep
    <3> QED
      BY <3>1, <3>2
  <2>4. tracked' \in Seq(TrackedStep) /\ status' \in {"none", "running", "done"}
    BY <1>11, <2>3 DEF Send
  <2>5. loadedOn' \subseteq PlanModels /\ sendFaults' \in 0..MaxSendFaults
    <3>1. c.op = "unload_all" \/ c.model \in PlanModels
      BY <2>2 DEF Commands
    <3>2. loadedOn \subseteq PlanModels /\ sendFaults \in 0..MaxSendFaults /\ MaxSendFaults \in Nat
      BY <1>1, PlanAssumption DEF AutoloadTypeOK
    <3>3. \/ /\ loadedOn' = IF c.op = "unload_all" THEN {} ELSE loadedOn \cup {c.model}
             /\ sendFaults' = sendFaults
          \/ /\ loadedOn' = loadedOn /\ sendFaults < MaxSendFaults
             /\ sendFaults' = sendFaults + 1
      BY <1>11 DEF Send, SendFault
    <3> HIDE DEF c
    <3> QED
      BY <3>1, <3>2, <3>3
  <2> QED
    BY <1>1, <1>11, <2>2, <2>4, <2>5 DEF Send, AutoloadTypeOK, placeVars, TrackedStep, Batch
<1>12. CASE UNCHANGED autoloadVars
  BY <1>1, <1>12 DEF autoloadVars, AutoloadTypeOK, placeVars, stepVars
<1> QED
  BY <1>2, <1>3, <1>4, <1>5, <1>6, <1>7, <1>8, <1>9, <1>10, <1>11, <1>12
     DEF AutoloadNext, PollStep, SenderStep

LEMMA AutoloadStarts == AutoloadInit => AutoloadInv
<1> SUFFICES ASSUME AutoloadInit PROVE AutoloadInv
  OBVIOUS
<1>1. PlanInv
  BY DEF AutoloadInit, PlanInv
<1>2. plan \in Seq(Seq(PlanModels))
  BY <1>1, PlanType
<1>3. node \in Nodes /\ node.has \subseteq PlanModels
  BY DEF AutoloadInit, Nodes
<1>4. runs \in 0..(IF node \in DOMAIN Driven THEN Driven[node] ELSE 0) /\ sendFaults \in 0..MaxSendFaults
  BY PlanAssumption DEF AutoloadInit
<1>5. poll \in [at : {"idle", "seen", "drain", "mark"}, seen : SUBSET PlanModels,
                cmds : Seq(Commands)]
  BY DEF AutoloadInit, NoPoll
<1>6. loadedOn \subseteq PlanModels
  BY <1>3 DEF AutoloadInit
<1>7. /\ toDo \in Seq(Todo) /\ tracked \in Seq(TrackedStep)
      /\ queue \in Seq(Commands) /\ batches \in Seq(Batch)
  BY DEF AutoloadInit
<1>8. /\ tight \in BOOLEAN /\ first \subseteq PlanModels /\ pushed \in BOOLEAN
      /\ status \in {"none", "running", "done"} /\ late \in BOOLEAN
      /\ pending \subseteq [cmd : Commands, state : {"queued", "sent"}]
  BY DEF AutoloadInit
<1>9. AutoloadTypeOK
  BY <1>2, <1>3, <1>4, <1>5, <1>6, <1>7, <1>8 DEF AutoloadTypeOK, Todo, TrackedStep, Batch
<1> QED
  BY <1>1, <1>9 DEF AutoloadInv

\* The variables of Autoload have their types, for every set of nodes and plan.
THEOREM AutoloadTypes == AutoloadSpec => []AutoloadTypeOK
<1>1. AutoloadInv /\ [AutoloadNext]_autoloadVars => AutoloadInv'
  BY AutoloadTypeStep, PlanStep DEF AutoloadInv
<1>2. AutoloadInv => AutoloadTypeOK
  BY DEF AutoloadInv
<1> QED
  BY AutoloadStarts, <1>1, <1>2, PTL DEF AutoloadSpec

\* A plan neither overfills a device nor leaves room it could use, for every set of models
\* and sizes, every number of devices and every memory (plan_autoload).
THEOREM PlansAreSound == AutoloadSpec => []PlanSound
<1>1. AutoloadInv /\ [AutoloadNext]_autoloadVars => AutoloadInv'
  BY AutoloadTypeStep, PlanStep DEF AutoloadInv
<1>2. AutoloadInv => PlanSound
  BY PlanInvSound DEF AutoloadInv
<1> QED
  BY AutoloadStarts, <1>1, <1>2, PTL DEF AutoloadSpec

----------------------------------------------------------------------------
(* Autoload: a run that is not over is waiting for a command on its way.    *)

\* The four places of a command before the agent has answered it.
Coming(c) ==
  \/ Within(toDo, [do |-> "append", cmd |-> c])
  \/ Within(queue, c)
  \/ poll.at = "mark" /\ Within(poll.cmds, c)
  \/ \E i \in 1..Len(batches) : Within(batches[i].cmds, c)
Unsettled(s) == s.state \in {"queued", "sending"}
LoadOf(m) == [op |-> "load", model |-> m]

\* The status of a run says whether its steps are settled.
StatusTrue ==
  /\ status = "none" => tracked = <<>>
  /\ status # "none" => (status = "done" <=> Settled(tracked))
AllLoads ==
  \A i \in DOMAIN tracked :
    tracked[i].op = IF node.has = {} THEN "download_and_load" ELSE "load"
Owed ==
  pushed =>
    \A i \in DOMAIN tracked :
      tracked[i].op = "load" /\ Unsettled(tracked[i]) => Coming(LoadOf(tracked[i].model))
RunInv == StatusTrue /\ AllLoads /\ Owed

\* What AutoloadEnds rests on: while a run on a polled node with downloads is not over, one
\* of its steps is not settled and the command that will settle it is on its way.
RunningIsOwed ==
  pushed /\ node.has # {} /\ status = "running" =>
    \E i \in DOMAIN tracked :
      Unsettled(tracked[i]) /\ Coming(LoadOf(tracked[i].model))

\* What is left of the batches when one has sent its first command.
LEMMA SentIsGone ==
  ASSUME NEW b \in Seq(Batch), NEW i \in 1..Len(b), NEW new,
         new = IF Len(b[i].cmds) = 1 THEN RemoveAt(b, i)
               ELSE [b EXCEPT ![i] = [cmds |-> Tail(@.cmds), sending |-> FALSE]],
         NEW j \in 1..Len(b), NEW c, Within(b[j].cmds, c), c # Head(b[i].cmds)
  PROVE  \E k \in 1..Len(new) : Within(new[k].cmds, c)
<1>1. /\ Len(b) \in Nat /\ DOMAIN b = 1..Len(b)
      /\ \A k \in 1..Len(b) : b[k].cmds \in Seq(Commands) /\ b[k].cmds # <<>>
  <2>1. Len(b) \in Nat /\ DOMAIN b = 1..Len(b) /\ \A k \in 1..Len(b) : b[k] \in Batch
    OBVIOUS
  <2> QED
    BY <2>1 DEF Batch
<1>2. CASE Len(b[i].cmds) = 1
  <2>1. j # i
    <3>1. b[i].cmds \in Seq(Commands) /\ Head(b[i].cmds) = b[i].cmds[1]
      BY <1>1, HeadTailProperties
    <3> QED
      BY <1>2, <3>1 DEF Within
  <2> DEFINE p == SubSeq(b, 1, i - 1)
             q == SubSeq(b, i + 1, Len(b))
  <2>2. /\ p \in Seq(Batch) /\ Len(p) = i - 1 /\ \A k \in 1..(i - 1) : p[k] = b[k]
    BY <1>1
  <2>3. /\ q \in Seq(Batch) /\ Len(q) = Len(b) - i
        /\ \A k \in 1..(Len(b) - i) : q[k] = b[i + k]
    <3>1. i \in Nat /\ i <= Len(b) /\ \A k \in (i + 1)..Len(b) : b[k] \in Batch
      BY <1>1
    <3>2. /\ q \in Seq(Batch)
          /\ Len(q) = IF i + 1 <= Len(b) THEN Len(b) - (i + 1) + 1 ELSE 0
          /\ \A k \in 1..(Len(b) - (i + 1) + 1) : q[k] = b[i + 1 + k - 1]
      BY <1>1, <3>1, SubSeqProperties
    <3> HIDE DEF q
    <3>3. Len(q) = Len(b) - i
      <4>1. CASE i + 1 <= Len(b)
        BY <1>1, <3>1, <3>2, <4>1
      <4>2. CASE i = Len(b)
        BY <1>1, <3>1, <3>2, <4>2
      <4>3. i \in Nat /\ Len(b) \in Nat /\ i <= Len(b)
        BY <1>1, <3>1
      <4>4. i + 1 <= Len(b) \/ i = Len(b)
        BY <4>3
      <4> QED
        BY <4>1, <4>2, <4>4
    <3>4. ASSUME NEW k \in 1..(Len(b) - i) PROVE q[k] = b[i + k]
      <4>1. k \in 1..(Len(b) - (i + 1) + 1) /\ i + 1 + k - 1 = i + k
        BY <1>1, <3>1
      <4> QED
        BY <3>2, <4>1
    <3> QED
      BY <3>2, <3>3, <3>4
  <2>4. new = p \o q
    BY <1>2 DEF RemoveAt
  <2> HIDE DEF p, q
  <2>5. Within(p, b[j]) \/ Within(q, b[j])
    <3>1. CASE j < i
      <4>1. j \in 1..Len(p) /\ p[j] = b[j]
        BY <1>1, <2>2, <3>1
      <4> QED
        BY <4>1 DEF Within
    <3>2. CASE j > i
      <4>1. j - i \in 1..Len(q) /\ q[j - i] = b[j]
        BY <1>1, <2>3, <3>2
      <4> QED
        BY <4>1 DEF Within
    <3> QED
      BY <1>1, <2>1, <3>1, <3>2
  <2>6. Within(new, b[j])
    <3>1. p \in Seq(Batch) /\ q \in Seq(Batch)
      BY <2>2, <2>3
    <3>2. /\ \A x : Within(p, x) => Within(p \o q, x)
          /\ \A x : Within(q, x) => Within(p \o q, x)
      BY <3>1, WithinConcat
    <3> QED
      BY <2>4, <2>5, <3>2
  <2> QED
    BY <2>6 DEF Within
<1>3. CASE Len(b[i].cmds) # 1
  <2> DEFINE r == [cmds |-> Tail(b[i].cmds), sending |-> FALSE]
  <2>1. new = [b EXCEPT ![i] = r] /\ r.cmds = Tail(b[i].cmds)
    BY <1>3
  <2> HIDE DEF r
  <2>2. /\ Len(new) = Len(b) /\ new[i].cmds = Tail(b[i].cmds)
        /\ \A k \in 1..Len(b) : k # i => new[k] = b[k]
    BY <1>1, <2>1
  <2>3. CASE j = i
    <3>1. Within(Tail(b[i].cmds), c)
      BY <1>1, <2>3, WithinTail
    <3> QED
      BY <2>2, <3>1
  <2>4. CASE j # i
    BY <2>2, <2>4
  <2> QED
    BY <2>3, <2>4
<1> QED
  BY <1>2, <1>3

\* A report keeps the status true; the steps of other models are left alone, and those of
\* this one settled unless the report is that it is being sent.
LEMMA UpdateTrue ==
  ASSUME AutoloadTypeOK, StatusTrue, NEW m, NEW state \in {"sending", "done", "failed"},
         UpdateStep(m, state)
  PROVE  /\ StatusTrue' /\ DOMAIN tracked' = DOMAIN tracked
         /\ \A i \in DOMAIN tracked :
              /\ tracked'[i].op = tracked[i].op /\ tracked'[i].model = tracked[i].model
              /\ tracked[i].model = m /\ tracked[i].op = "load" => tracked'[i].state = state
              /\ tracked[i].model # m => tracked'[i] = tracked[i]
<1>1. \A i \in DOMAIN tracked : tracked[i] \in TrackedStep
  <2>1. tracked \in Seq(TrackedStep)
    BY DEF AutoloadTypeOK, TrackedStep
  <2> QED
    BY <2>1
<1>2. CASE status = "none"
  <2>1. tracked = <<>> /\ UNCHANGED <<tracked, status>>
    BY <1>2 DEF StatusTrue, UpdateStep, stepVars
  <2>2. DOMAIN tracked = {}
    BY <2>1
  <2> QED
    BY <1>2, <2>1, <2>2 DEF StatusTrue
<1>3. CASE status # "none"
  <2>1. /\ tracked' = [i \in DOMAIN tracked |->
                        IF tracked[i].model = m /\ tracked[i].op = "load"
                        THEN [tracked[i] EXCEPT !.state = state] ELSE tracked[i]]
        /\ status' = StatusOf(tracked')
    BY <1>3 DEF UpdateStep
  <2>2. /\ DOMAIN tracked' = DOMAIN tracked
        /\ \A i \in DOMAIN tracked :
              /\ tracked'[i].op = tracked[i].op /\ tracked'[i].model = tracked[i].model
              /\ tracked[i].model = m /\ tracked[i].op = "load" => tracked'[i].state = state
              /\ ~(tracked[i].model = m /\ tracked[i].op = "load") => tracked'[i] = tracked[i]
    BY <1>1, <2>1 DEF TrackedStep
  <2>3. status' # "none" /\ (status' = "done" <=> Settled(tracked'))
    <3>1. CASE Settled(tracked')
      BY <2>1, <3>1 DEF StatusOf
    <3>2. CASE ~Settled(tracked') /\ \E i \in DOMAIN tracked' : tracked'[i].state = "sending"
      BY <2>1, <3>2 DEF StatusOf
    <3>3. CASE ~Settled(tracked') /\ ~\E i \in DOMAIN tracked' : tracked'[i].state = "sending"
      <4>1. status' = status
        BY <2>1, <3>3 DEF StatusOf
      <4>2. PICK i \in DOMAIN tracked : tracked'[i].state \notin {"done", "failed"}
        BY <2>2, <3>3 DEF Settled
      <4>3. tracked'[i] = tracked[i]
        BY <2>2, <3>3, <4>2
      <4>4. ~Settled(tracked)
        BY <4>2, <4>3 DEF Settled
      <4> QED
        BY <1>3, <3>3, <4>1, <4>4 DEF StatusTrue
    <3> QED
      BY <3>1, <3>2, <3>3
  <2> QED
    BY <2>2, <2>3 DEF StatusTrue
<1> QED
  BY <1>2, <1>3

\* A heartbeat settles steps and unsettles none.
LEMMA HeartbeatTrue ==
  ASSUME AutoloadTypeOK, StatusTrue, NEW seen, CheckHeartbeat(seen)
  PROVE  /\ StatusTrue' /\ DOMAIN tracked' = DOMAIN tracked
         /\ \A i \in DOMAIN tracked :
              /\ tracked'[i].op = tracked[i].op /\ tracked'[i].model = tracked[i].model
              /\ Unsettled(tracked'[i]) => Unsettled(tracked[i])
<1>1. \A i \in DOMAIN tracked : tracked[i] \in TrackedStep
  <2>1. tracked \in Seq(TrackedStep)
    BY DEF AutoloadTypeOK, TrackedStep
  <2> QED
    BY <2>1
<1>2. CASE status # "running"
  BY <1>2 DEF CheckHeartbeat, stepVars, StatusTrue, Settled
<1>3. CASE status = "running"
  <2>1. /\ tracked' = [i \in DOMAIN tracked |->
                        IF /\ tracked[i].state \in {"queued", "sending"}
                           /\ tracked[i].op = "load" /\ tracked[i].model \in seen
                        THEN [tracked[i] EXCEPT !.state = "done"] ELSE tracked[i]]
        /\ status' = IF Settled(tracked') THEN "done" ELSE status
    BY <1>3 DEF CheckHeartbeat
  <2>2. \A i \in DOMAIN tracked :
              /\ tracked'[i].op = tracked[i].op /\ tracked'[i].model = tracked[i].model
              /\ Unsettled(tracked'[i]) => Unsettled(tracked[i])
    BY <1>1, <2>1 DEF TrackedStep, Unsettled
  <2>3. StatusTrue'
    BY <1>3, <2>1 DEF StatusTrue
  <2> QED
    BY <2>1, <2>2, <2>3
<1> QED
  BY <1>2, <1>3

\* A plan is followed by the commands that load it.
LEMMA PlanOwed ==
  ASSUME AutoloadInv, MakePlan, UNCHANGED placeVars
  PROVE  RunInv'
<1> DEFINE models == FlattenSeq(plan)
           op == IF node.has = {} THEN "download_and_load" ELSE "load"
           c(i) == [op |-> op, model |-> models[i]]
           ls == [i \in DOMAIN models |-> Enqueue(c(i))]
           ts == [i \in DOMAIN models |-> [model |-> models[i], op |-> op, state |-> "queued"]]
<1>1. models \in Seq(PlanModels)
  BY PlanType, FlatType DEF AutoloadInv
<1>2. /\ tracked' = ts /\ toDo' = FlattenSeq(ls)
      /\ status' = IF models = <<>> THEN "done" ELSE "running"
      /\ node' = node
  BY DEF MakePlan, placeVars
<1>3. op \in {"load", "download_and_load"} /\ (op = "download_and_load" <=> node.has = {})
  OBVIOUS
<1> HIDE DEF models, op
<1>4. DOMAIN models = 1..Len(models) /\ Len(models) \in Nat
      /\ \A i \in 1..Len(models) : models[i] \in PlanModels
  BY <1>1
<1>5. /\ DOMAIN ts = 1..Len(models)
      /\ \A i \in 1..Len(models) : /\ ts[i].model = models[i] /\ ts[i].op = op
                                   /\ ts[i].state = "queued"
  BY <1>4
<1>6. models = <<>> <=> DOMAIN ts = {}
  <2>1. models = <<>> <=> Len(models) = 0
    BY <1>1, EmptySeq
  <2> QED
    BY <1>4, <1>5, <2>1
<1>7. AllLoads'
  BY <1>2, <1>3, <1>5 DEF AllLoads
<1>8. StatusTrue'
  <2>1. Settled(ts) <=> DOMAIN ts = {}
    BY <1>4, <1>5 DEF Settled
  <2> HIDE DEF ts
  <2> QED
    BY <1>2, <1>6, <2>1 DEF StatusTrue
<1>9. ls \in Seq(Seq(Todo)) /\ Len(ls) = Len(models) /\ \A i \in 1..Len(models) : ls[i] = Enqueue(c(i))
  <2>1. \A i \in 1..Len(models) : c(i) \in Commands
    BY <1>3, <1>4 DEF Commands
  <2> HIDE DEF c
  <2>2. \A i \in 1..Len(models) : Enqueue(c(i)) \in Seq(Todo)
    BY <2>1, EnqueueType
  <2>3. ls \in [1..Len(models) -> Seq(Todo)]
    BY <1>4, <2>2
  <2> QED
    BY <1>4, <2>3
<1>10. ASSUME NEW i \in 1..Len(models) PROVE Within(toDo', [do |-> "append", cmd |-> c(i)])
  <2>1. Within(ls[i], [do |-> "append", cmd |-> c(i)])
    <3>1. ls[i][1] = [do |-> "append", cmd |-> c(i)] /\ Len(ls[i]) = 2
      BY <1>9 DEF Enqueue
    <3>2. 1 \in 1..Len(ls[i])
      BY <3>1
    <3> QED
      BY <3>1, <3>2 DEF Within
  <2> HIDE DEF ls, c
  <2>2. i \in 1..Len(ls)
    BY <1>9
  <2>3. Within(FlattenSeq(ls), [do |-> "append", cmd |-> c(i)])
    BY <1>9, <2>1, <2>2, FlatHolds
  <2> QED
    BY <1>2, <2>3
<1>11. Owed'
  <2>1. ASSUME NEW i \in 1..Len(models), NEW m, m = ts[i].model, ts[i].op = "load"
        PROVE  Coming(LoadOf(m))'
    <3>1. LoadOf(m) = c(i)
      BY <1>5, <2>1 DEF LoadOf
    <3>2. Within(toDo', [do |-> "append", cmd |-> LoadOf(m)])
      BY <1>10, <3>1
    <3> QED
      BY <3>2 DEF Coming
  <2> HIDE DEF ts
  <2>2. \A i \in DOMAIN tracked' : \A m :
           m = tracked'[i].model /\ tracked'[i].op = "load" => Coming(LoadOf(m))'
    BY <1>2, <1>5, <2>1
  <2> QED
    BY <2>2 DEF Owed
<1> QED
  BY <1>7, <1>8, <1>11 DEF RunInv

\* The thread of a run hands its commands over to the queue.
LEMMA ThreadOwed ==
  ASSUME AutoloadInv, RunInv, RunAutoload
  PROVE  RunInv'
<1> DEFINE next == Head(toDo)
<1>1. toDo \in Seq(Todo) /\ toDo # <<>> /\ queue \in Seq(Commands)
  BY DEF RunAutoload, AutoloadInv, AutoloadTypeOK, Todo
<1>2. next \in Todo
  BY <1>1
<1>3. next.cmd \in Commands /\ next.do \in {"append", "pend", "plan"}
  BY <1>2 DEF Todo
<1>4. \A x : Within(toDo, x) => x = next \/ Within(Tail(toDo), x)
  BY <1>1, WithinTail
<1> HIDE DEF next
<1>5. UNCHANGED <<placeVars, poll, batches>>
  BY DEF RunAutoload
<1>6. CASE next.do = "plan"
  BY <1>5, <1>6, PlanOwed DEF RunAutoload, next
<1>7. CASE next.do # "plan"
  <2>1. /\ toDo' = Tail(toDo) /\ UNCHANGED stepVars
        /\ \/ next.do = "append" /\ queue' = Append(queue, next.cmd)
           \/ next.do = "pend" /\ queue' = queue
    BY <1>3, <1>7 DEF RunAutoload, next
  <2>2. \A x : Within(Append(queue, next.cmd), x) <=> Within(queue, x) \/ x = next.cmd
    BY <1>1, <1>3, WithinAppend
  <2>3. ASSUME NEW c, Coming(c) PROVE Coming(c)'
    <3> DEFINE x == [do |-> "append", cmd |-> c]
    <3>1. x.do = "append" /\ x.cmd = c
      OBVIOUS
    <3> HIDE DEF x
    <3>2. Within(queue, c) => Within(queue', c)
      BY <2>1, <2>2
    <3>3. Within(toDo, x) => Within(toDo', x) \/ Within(queue', c)
      BY <1>4, <2>1, <2>2, <3>1
    <3> QED
      BY <1>5, <2>3, <3>2, <3>3 DEF Coming, x
  <2>4. UNCHANGED <<tracked, status, node, pushed>>
    BY <1>5, <2>1 DEF stepVars, placeVars
  <2> QED
    BY <2>3, <2>4 DEF RunInv, StatusTrue, AllLoads, Owed
<1> QED
  BY <1>6, <1>7

\* A poll or a heartbeat takes the queue over, whole, and splits it.
LEMMA PollOwed ==
  ASSUME AutoloadInv, RunInv, PollStep \/ PollFails
  PROVE  RunInv'
<1>0. /\ UNCHANGED <<node, pushed, toDo>>
      /\ AutoloadTypeOK /\ poll.cmds \in Seq(Commands) /\ batches \in Seq(Batch)
  BY DEF AutoloadInv, AutoloadTypeOK, Batch, PollStep, PollAsk, PollCheck, Drain, MarkSent, PollFails,
         placeVars
<1>1. CASE PollAsk \/ PollFails
  <2>1. UNCHANGED <<tracked, status, queue, batches>> /\ poll.at # "mark"
    BY <1>1 DEF PollAsk, PollFails, NoPoll, stepVars
  <2>2. ASSUME NEW c, Coming(c) PROVE Coming(c)'
    BY <1>0, <2>1, <2>2 DEF Coming
  <2> QED
    BY <1>0, <2>1, <2>2 DEF RunInv, StatusTrue, AllLoads, Owed
<1>2. CASE PollCheck
  <2>1. CheckHeartbeat(poll.seen) /\ poll.at # "mark" /\ UNCHANGED <<queue, batches>>
    BY <1>2 DEF PollCheck
  <2>2. ASSUME NEW c, Coming(c) PROVE Coming(c)'
    BY <1>0, <2>1, <2>2 DEF Coming
  <2>3. /\ StatusTrue' /\ DOMAIN tracked' = DOMAIN tracked
        /\ \A i \in DOMAIN tracked :
              /\ tracked'[i].op = tracked[i].op /\ tracked'[i].model = tracked[i].model
              /\ Unsettled(tracked'[i]) => Unsettled(tracked[i])
    BY <1>0, <2>1, HeartbeatTrue DEF RunInv
  <2> QED
    BY <1>0, <2>2, <2>3 DEF RunInv, AllLoads, Owed
<1>3. CASE Drain
  <2>1. UNCHANGED <<tracked, status, batches>> /\ poll.at # "mark"
    BY <1>3 DEF Drain, stepVars
  <2>2. ASSUME NEW c, Within(queue, c) PROVE poll'.at = "mark" /\ Within(poll'.cmds, c)
    <3>1. queue # <<>>
      BY <2>2 DEF Within
    <3>2. poll'.at = "mark" /\ poll'.cmds = queue
      BY <1>3, <3>1 DEF Drain, NoPoll
    <3> QED
      BY <2>2, <3>2
  <2>3. ASSUME NEW c, Coming(c) PROVE Coming(c)'
    BY <1>0, <2>1, <2>2, <2>3 DEF Coming
  <2> QED
    BY <1>0, <2>1, <2>3 DEF RunInv, StatusTrue, AllLoads, Owed
<1>4. CASE MarkSent
  <2> DEFINE ops == Those(poll.cmds, {"load", "unload_all"})
             rest == Those(poll.cmds, {"download_and_load"})
             own == IF ops = <<>> THEN <<>> ELSE <<[cmds |-> ops, sending |-> FALSE]>>
             each == [i \in DOMAIN rest |-> [cmds |-> <<rest[i]>>, sending |-> FALSE]]
  <2>1. UNCHANGED <<tracked, status, queue>> /\ batches' = (batches \o own) \o each
    BY <1>4 DEF MarkSent, stepVars
  <2>2. ops \in Seq(Commands) /\ rest \in Seq(Commands)
    BY <1>0, ThoseType
  <2>3. \A c : Within(poll.cmds, c) /\ c.op = "load" => Within(ops, c)
    BY <1>0, ThoseHolds
  <2> HIDE DEF ops, rest
  <2>4. own \in Seq(Batch)
    <3>1. CASE ops = <<>>
      BY <3>1
    <3>2. CASE ops # <<>>
      <4>1. [cmds |-> ops, sending |-> FALSE] \in Batch
        BY <2>2, <3>2 DEF Batch
      <4> QED
        BY <3>2, <4>1
    <3> QED
      BY <3>1, <3>2
  <2>5. each \in Seq(Batch)
    <3>1. DOMAIN rest = 1..Len(rest) /\ Len(rest) \in Nat
          /\ \A i \in 1..Len(rest) : <<rest[i]>> \in Seq(Commands) /\ <<rest[i]>> # <<>>
      BY <2>2
    <3>2. \A i \in 1..Len(rest) : [cmds |-> <<rest[i]>>, sending |-> FALSE] \in Batch
      BY <3>1 DEF Batch
    <3>3. each \in [1..Len(rest) -> Batch]
      BY <3>1, <3>2
    <3> QED
      BY <3>1, <3>3
  <2>6. ASSUME NEW c, Within(poll.cmds, c), c.op = "load"
        PROVE  \E b : Within(own, b) /\ Within(b.cmds, c)
    <3>1. Within(ops, c)
      BY <2>3, <2>6
    <3>2. ops # <<>>
      BY <3>1 DEF Within
    <3> DEFINE b == [cmds |-> ops, sending |-> FALSE]
    <3>3. own = <<b>> /\ b.cmds = ops
      BY <3>2
    <3> HIDE DEF b, own
    <3>4. Within(own, b)
      BY <3>3 DEF Within
    <3> QED
      BY <3>1, <3>3, <3>4
  <2> HIDE DEF own, each
  <2>7. \A b : Within(batches, b) \/ Within(own, b) => Within(batches', b)
    <3>1. batches \o own \in Seq(Batch)
      BY <1>0, <2>4
    <3>2. \A b : Within(batches, b) \/ Within(own, b) => Within(batches \o own, b)
      BY <1>0, <2>4, WithinConcat
    <3>3. \A b : Within(batches \o own, b) => Within((batches \o own) \o each, b)
      BY <2>5, <3>1, WithinConcat
    <3> QED
      BY <2>1, <3>2, <3>3
  <2>8. ASSUME NEW c, Coming(c), c.op = "load" PROVE Coming(c)'
    <3>1. CASE Within(toDo, [do |-> "append", cmd |-> c]) \/ Within(queue, c)
      BY <1>0, <2>1, <3>1 DEF Coming
    <3>2. CASE Within(poll.cmds, c) \/ \E i \in 1..Len(batches) : Within(batches[i].cmds, c)
      <4>1. \E b : (Within(batches, b) \/ Within(own, b)) /\ Within(b.cmds, c)
        BY <2>6, <2>8, <3>2 DEF Within
      <4>2. PICK b : Within(batches', b) /\ Within(b.cmds, c)
        BY <2>7, <4>1
      <4>3. PICK i \in 1..Len(batches') : batches'[i] = b
        BY <4>2 DEF Within
      <4> QED
        BY <4>2, <4>3 DEF Coming
    <3> QED
      BY <2>8, <3>1, <3>2 DEF Coming
  <2>9. \A m : LoadOf(m).op = "load"
    BY DEF LoadOf
  <2> QED
    BY <1>0, <2>1, <2>8, <2>9 DEF RunInv, StatusTrue, AllLoads, Owed
<1> QED
  BY <1>1, <1>2, <1>3, <1>4 DEF PollStep

\* A command is sent, and answered: the answer settles its step.
LEMMA SenderOwed ==
  ASSUME AutoloadInv, RunInv, NEW i \in DOMAIN batches, SenderStep(i)
  PROVE  RunInv'
<1> DEFINE h == Head(batches[i].cmds)
<1>0. /\ UNCHANGED <<node, pushed, toDo, queue, poll>>
      /\ AutoloadTypeOK /\ batches \in Seq(Batch) /\ i \in 1..Len(batches)
      /\ StatusTrue
  BY DEF AutoloadInv, RunInv, AutoloadTypeOK, Batch, SenderStep, MarkSending, Send, placeVars
<1>1. batches[i].cmds \in Seq(Commands) /\ batches[i].cmds # <<>>
  BY <1>0, BatchType
<1>2. Within(batches[i].cmds, h)
  <2>1. Len(batches[i].cmds) \in Nat /\ Len(batches[i].cmds) >= 1 /\ h = batches[i].cmds[1]
    BY <1>1, EmptySeq, LenProperties
  <2>2. 1 \in 1..Len(batches[i].cmds)
    BY <2>1
  <2> QED
    BY <2>1, <2>2 DEF Within
<1>3. h \in Commands
  BY <1>1
<1> HIDE DEF h
<1>4. h.op = "load" => h = LoadOf(h.model)
  BY <1>3 DEF Commands, LoadOf
<1>5. \A m : LoadOf(m).op = "load" /\ LoadOf(m).model = m
  BY DEF LoadOf
<1>6. CASE MarkSending(i)
  <2>1. /\ batches' = [batches EXCEPT ![i].sending = TRUE]
        /\ IF pushed /\ h.op = "load" THEN UpdateStep(h.model, "sending")
           ELSE UNCHANGED <<tracked, status>>
    BY <1>6 DEF MarkSending, stepVars, h
  <2>2. Len(batches') = Len(batches) /\ \A j \in 1..Len(batches) : batches'[j].cmds = batches[j].cmds
    <3>1. \A j \in 1..Len(batches) : batches[j] \in Batch
      BY <1>0
    <3> DEFINE r == [batches[i] EXCEPT !.sending = TRUE]
    <3>2. r.cmds = batches[i].cmds
      BY <1>0, <3>1 DEF Batch
    <3>3. batches' = [batches EXCEPT ![i] = r]
      BY <2>1
    <3> HIDE DEF r
    <3> QED
      BY <1>0, <3>2, <3>3
  <2>3. ASSUME NEW c, Coming(c) PROVE Coming(c)'
    BY <1>0, <2>2, <2>3 DEF Coming
  <2>4. CASE pushed /\ h.op = "load"
    <3>1. /\ StatusTrue' /\ DOMAIN tracked' = DOMAIN tracked
          /\ \A k \in DOMAIN tracked :
              /\ tracked'[k].op = tracked[k].op /\ tracked'[k].model = tracked[k].model
              /\ tracked[k].model # h.model => tracked'[k] = tracked[k]
      <4>1. UpdateStep(h.model, "sending") /\ "sending" \in {"sending", "done", "failed"}
        BY <2>1, <2>4
      <4> QED
        BY <1>0, <4>1, UpdateTrue
    <3>2. Coming(LoadOf(h.model))
      BY <1>0, <1>2, <1>4, <2>4 DEF Coming
    <3> QED
      BY <1>0, <2>3, <3>1, <3>2 DEF RunInv, AllLoads, Owed
  <2>5. CASE ~(pushed /\ h.op = "load")
    BY <1>0, <2>1, <2>3, <2>5 DEF RunInv, StatusTrue, AllLoads, Owed
  <2> QED
    BY <2>4, <2>5
<1>7. CASE Send(i)
  <2>1. /\ batches' = IF Len(batches[i].cmds) = 1 THEN RemoveAt(batches, i)
                      ELSE [batches EXCEPT ![i] = [cmds |-> Tail(@.cmds), sending |-> FALSE]]
        /\ \E state \in {"done", "failed"} :
             IF pushed /\ h.op = "load" THEN UpdateStep(h.model, state)
             ELSE UNCHANGED <<tracked, status>>
    BY <1>7 DEF Send, stepVars, h
  <2>2. ASSUME NEW j \in 1..Len(batches), NEW c, Within(batches[j].cmds, c), c # h
        PROVE  \E k \in 1..Len(batches') : Within(batches'[k].cmds, c)
    BY <1>0, <2>1, <2>2, SentIsGone DEF h
  <2>3. ASSUME NEW c, Coming(c), c # h PROVE Coming(c)'
    BY <1>0, <2>2, <2>3 DEF Coming
  <2>4. CASE pushed /\ h.op = "load"
    <3>1. PICK state \in {"done", "failed"} : UpdateStep(h.model, state)
      BY <2>1, <2>4
    <3>2. /\ StatusTrue' /\ DOMAIN tracked' = DOMAIN tracked
          /\ \A k \in DOMAIN tracked :
              /\ tracked'[k].op = tracked[k].op /\ tracked'[k].model = tracked[k].model
              /\ tracked[k].model = h.model /\ tracked[k].op = "load" => tracked'[k].state = state
              /\ tracked[k].model # h.model => tracked'[k] = tracked[k]
      <4>1. state \in {"sending", "done", "failed"}
        OBVIOUS
      <4> QED
        BY <1>0, <3>1, <4>1, UpdateTrue
    <3>3. ASSUME NEW k \in DOMAIN tracked, tracked'[k].op = "load", Unsettled(tracked'[k])
          PROVE  \A m : m = tracked[k].model /\ pushed => Coming(LoadOf(m))'
      <4>1. tracked[k].model # h.model
        BY <3>2, <3>3 DEF Unsettled
      <4>2. Coming(LoadOf(tracked[k].model))
        BY <2>4, <3>2, <3>3, <4>1 DEF RunInv, Owed
      <4>3. LoadOf(tracked[k].model) # h
        BY <1>5, <4>1
      <4> QED
        BY <2>3, <4>2, <4>3
    <3> QED
      BY <1>0, <3>2, <3>3 DEF RunInv, AllLoads, Owed
  <2>5. CASE ~(pushed /\ h.op = "load")
    <3>1. UNCHANGED <<tracked, status>>
      BY <2>1, <2>5
    <3>2. ASSUME pushed, NEW m, Coming(LoadOf(m)) PROVE Coming(LoadOf(m))'
      <4>1. LoadOf(m) # h
        BY <1>5, <2>5, <3>2
      <4> QED
        BY <2>3, <3>2, <4>1
    <3> QED
      BY <1>0, <3>1, <3>2 DEF RunInv, StatusTrue, AllLoads, Owed
  <2> QED
    BY <2>4, <2>5
<1> QED
  BY <1>6, <1>7 DEF SenderStep

\* Every step keeps a run waiting for what is on its way.
LEMMA RunStays == AutoloadInv /\ RunInv /\ [AutoloadNext]_autoloadVars => RunInv'
<1> SUFFICES ASSUME AutoloadInv, RunInv, [AutoloadNext]_autoloadVars PROVE RunInv'
  OBVIOUS
<1>1. CASE BeginAutoload
  <2>1. toDo = <<>> /\ UNCHANGED <<tracked, status, node, pushed, queue, poll, batches>>
    BY <1>1 DEF BeginAutoload, stepVars, placeVars
  <2>2. \A x : ~Within(toDo, x)
    BY <2>1 DEF Within
  <2>3. ASSUME NEW c, Coming(c) PROVE Coming(c)'
    BY <2>1, <2>2, <2>3 DEF Coming
  <2> QED
    BY <2>1, <2>3 DEF RunInv, StatusTrue, AllLoads, Owed
<1>2. CASE FiveMinutesPass \/ UNCHANGED autoloadVars
  <2>1. UNCHANGED <<tracked, status, node, pushed, toDo, queue, poll, batches>>
    BY <1>2 DEF FiveMinutesPass, stepVars, placeVars, autoloadVars
  <2>2. ASSUME NEW c, Coming(c) PROVE Coming(c)'
    BY <2>1, <2>2 DEF Coming
  <2> QED
    BY <2>1, <2>2 DEF RunInv, StatusTrue, AllLoads, Owed
<1> QED
  BY <1>1, <1>2, ThreadOwed, PollOwed, SenderOwed DEF AutoloadNext

\* At the start there is no run.
LEMMA RunStarts == AutoloadInit => RunInv
<1> SUFFICES ASSUME AutoloadInit PROVE RunInv
  OBVIOUS
<1>1. tracked = <<>> /\ DOMAIN tracked = {} /\ status = "none"
  BY DEF AutoloadInit
<1> QED
  BY <1>1 DEF RunInv, StatusTrue, AllLoads, Owed

\* No run of a polled node with downloads is left running with nothing that could end it,
\* however many runs overlap, whatever commands fail and whenever heartbeats come between:
\* some step of it is not settled, and the load of its model is with the thread, in the
\* queue, in a poll or with a sender.  AutoloadEnds adds that threads and polls go on.
THEOREM RunsAreOwed == AutoloadSpec => []RunningIsOwed
<1>1. AutoloadInv /\ [AutoloadNext]_autoloadVars => AutoloadInv'
  BY AutoloadTypeStep, PlanStep DEF AutoloadInv
<1>2. AutoloadInv /\ RunInv => RunningIsOwed
  <2> SUFFICES ASSUME AutoloadInv, RunInv, pushed, node.has # {}, status = "running"
               PROVE  \E i \in DOMAIN tracked :
                        Unsettled(tracked[i]) /\ Coming(LoadOf(tracked[i].model))
    BY DEF RunningIsOwed
  <2>1. PICK i \in DOMAIN tracked : tracked[i].state \notin {"done", "failed"}
    BY DEF RunInv, StatusTrue, Settled
  <2>2. tracked[i] \in TrackedStep
    <3>1. tracked \in Seq(TrackedStep)
      BY DEF AutoloadInv, AutoloadTypeOK, TrackedStep
    <3> QED
      BY <3>1
  <2>3. Unsettled(tracked[i]) /\ tracked[i].op = "load"
    BY <2>1, <2>2 DEF Unsettled, TrackedStep, RunInv, AllLoads
  <2> QED
    BY <2>3 DEF RunInv, Owed
<1> QED
  BY AutoloadStarts, RunStarts, <1>1, <1>2, RunStays, PTL DEF AutoloadSpec

----------------------------------------------------------------------------
(* The four side by side.                                                   *)

\* Each of the four takes steps of its own, or none.
LEMMA FourStep ==
  ASSUME [Next]_vars
  PROVE  /\ [AutoloadNext]_autoloadVars /\ [BenchNext]_benchVars
         /\ [SessionNext]_sessionVars /\ [FlockNext]_flockVars
BY DEF Next, vars

\* What holds of each holds of them together, wherever the focus lies.
CoordinatorInv == AutoloadInv /\ RunInv /\ BenchInv /\ SessionInv /\ FlockInv

LEMMA CoordinatorInvariant == Spec => []CoordinatorInv
<1>1. Init => CoordinatorInv
  BY AutoloadStarts, RunStarts, BenchStarts, SoundInit, FlockStarts DEF Init, CoordinatorInv
<1>2. CoordinatorInv /\ [Next]_vars => CoordinatorInv'
  <2> SUFFICES ASSUME CoordinatorInv, [Next]_vars PROVE CoordinatorInv'
    OBVIOUS
  <2>1. /\ [AutoloadNext]_autoloadVars /\ [BenchNext]_benchVars
        /\ [SessionNext]_sessionVars /\ [FlockNext]_flockVars
    BY FourStep
  <2>2. AutoloadInv' /\ RunInv'
    BY <2>1, AutoloadTypeStep, PlanStep, RunStays DEF CoordinatorInv, AutoloadInv
  <2>3. BenchInv'
    BY <2>1, BenchTypeStep, ServedStep, UpwardsStep, ClosestStep DEF CoordinatorInv, BenchInv
  <2>4. SessionInv' /\ FlockInv'
    BY <2>1, SoundStep, FlockStays DEF CoordinatorInv
  <2> QED
    BY <2>2, <2>3, <2>4 DEF CoordinatorInv
<1> QED
  BY <1>1, <1>2, PTL DEF Spec

\* The variables of the loads, of the search, of the sessions and of the flock keep their
\* types, wherever the focus of a behaviour lies.
THEOREM CoordinatorTypes == Spec => []TypesOK
<1>1. CoordinatorInv => TypesOK
  BY StoreIs DEF CoordinatorInv, AutoloadInv, BenchInv, SessionInv, StoreTypes, SessionTypeOK,
                 FlockInv, TypesOK
<1> QED
  BY CoordinatorInvariant, <1>1, PTL
===================================================================================
