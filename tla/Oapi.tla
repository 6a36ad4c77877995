---------------------------------- MODULE Oapi ----------------------------------
(***************************************************************************)
(* The OpenAI-compatible front end (nCore/oapi.py): chat completions wait  *)
(* in a bounded queue and are processed one at a time; each belongs to a   *)
(* conversation that the user may delete meanwhile; a streaming request    *)
(* goes to one local endpoint, in fan-out mode after rounds of prompts to  *)
(* all the others.                                                         *)
(*                                                                         *)
(* A request thread takes _lock for each access to the queue depth and to  *)
(* the conversations and holds _active_request while it is processed.      *)
(* Prompts are tasks with one target: they are answered or never are (see  *)
(* TaskBoard). Which of several endpoints scores best is left open.        *)
(***************************************************************************)
EXTENDS Naturals, Sequences, FiniteSets, SequencesExt

CONSTANTS
  Requests,    \* requests, each made once
  Convs,       \* conversation ids in use (bound)
  ConvOf,      \* the conversation of each request
  Eps, Local,  \* endpoints, and those on the machine of nCore
  None,        \* no model selected, nobody active
  MaxQueue,    \* _MAX_QUEUE
  MaxConvs,    \* _MAX_CONVERSATIONS
  MaxTurns,    \* _MAX_HISTORY_TURNS
  MaxRounds,   \* rounds of a fan-out (bound)
  MaxChanges   \* deletions, changes of endpoints and configuration, clients that stop
               \* reading (bound)

ASSUME CapsAssumption == MaxQueue \in Nat /\ MaxConvs \in Nat \ {0} /\ MaxTurns \in Nat \ {0}
ASSUME BoundsAssumption == MaxRounds \in Nat \ {0} /\ MaxChanges \in Nat
ASSUME RequestsAssumption == IsFiniteSet(Requests) /\ ConvOf \in [Requests -> Convs]
ASSUME EndpointsAssumption == IsFiniteSet(Eps)
ASSUME NoneAssumption == None \notin Requests \cup Eps /\ Local \subseteq Eps

Modes == {"fanout", "speed", "manual"}
Tasks == Requests \X (1..MaxRounds) \X Eps

VARIABLES
  mode, manual,   \* _oapi_mode; the endpoint the selected model runs on
  ready,          \* endpoints that answer
  at,             \* the step of each request
  depth,          \* _queue_depth
  active,         \* the holder of _active_request
  blocked,        \* it waits in a write: its client has stopped reading
  turns, order,   \* _conversations and _conv_order
  fan,            \* locals of a request: see Fan
  pending,        \* tasks on the board that are not answered
  changes

confVars  == <<mode, manual, ready, changes>>
queueVars == <<depth, active, blocked>>
convVars  == <<turns, order>>
vars == <<confVars, at, queueVars, convVars, fan, pending>>

\* The endpoint that streams to the client; whether the client has its headers; the
\* endpoints of the fan-out and those of this round not sent yet; the round and its
\* tasks not seen done; the thinking time, in which "short" allows no new round.
Fan == [sr : Eps \cup {None}, sent : BOOLEAN, targets : SUBSET Eps, left : SUBSET Eps,
        round : 0..MaxRounds, waiting : SUBSET Tasks, time : {"early", "short", "over"}]
NoFan == [sr |-> None, sent |-> FALSE, targets |-> {}, left |-> {},
          round |-> 0, waiting |-> {}, time |-> "early"]

Init ==
  /\ mode = "fanout" /\ manual = None /\ ready = Eps /\ changes = 0
  /\ at = [r \in Requests |-> "out"]
  /\ depth = 0 /\ active = None /\ blocked = FALSE
  /\ turns = [c \in {} |-> <<>>] /\ order = <<>>
  /\ fan = [r \in Requests |-> NoFan]
  /\ pending = {}

GoTo(r, step) == at' = [at EXCEPT ![r] = step]
Change == changes < MaxChanges /\ changes' = changes + 1

----------------------------------------------------------------------------
(* The queue.                                                               *)

ArriveInsideTry(r) ==
  /\ at[r] = "out"
  /\ IF depth >= MaxQueue
     THEN GoTo(r, "leave") /\ UNCHANGED depth
     ELSE GoTo(r, "queued") /\ depth' = depth + 1
  /\ UNCHANGED <<confVars, active, blocked, convVars, fan, pending>>

\* 429 when the queue is full.
Arrive(r) ==
  /\ at[r] = "out"
  /\ IF depth >= MaxQueue
     THEN GoTo(r, "refused") /\ UNCHANGED depth
     ELSE GoTo(r, "queued") /\ depth' = depth + 1
  /\ UNCHANGED <<confVars, active, blocked, convVars, fan, pending>>

\* The end of "with _active_request", whatever led there. The locals are not used
\* again.
Unlock(r) ==
  /\ at[r] = "unlock"
  /\ active' = None
  /\ GoTo(r, "leave")
  /\ fan' = [fan EXCEPT ![r] = NoFan]
  /\ UNCHANGED <<confVars, depth, blocked, convVars, pending>>

\* The finally clause.
Leave(r) ==
  /\ at[r] = "leave"
  /\ depth' = depth - 1
  /\ GoTo(r, "gone")
  /\ UNCHANGED <<confVars, active, blocked, convVars, fan, pending>>

\* Steps that write to the client: no write has a timeout, and one to a client that has
\* stopped reading returns when the client reads again or goes away.
Writes == {"targets", "collect", "stream", "fail"}

StopReading(r) ==
  /\ at[r] \in Writes /\ ~blocked
  /\ Change /\ blocked' = TRUE
  /\ UNCHANGED <<mode, manual, ready, at, depth, active, convVars, fan, pending>>

WriteReturns ==
  /\ blocked
  /\ blocked' = FALSE
  /\ UNCHANGED <<confVars, at, depth, active, convVars, fan, pending>>

\* Steps at which the thread may raise: a message or a result that is not built as expected,
\* a client or a llama-server that has gone away, and a body without stream, for
\* _process_chat_completion takes no tools_params.
Raises == {"ask", "route", "targets", "send", "collect", "stream", "fail"}

RaiseKeepsPlace(r) ==
  /\ at[r] \in Raises /\ ~blocked
  /\ active' = None
  /\ GoTo(r, "gone")
  /\ UNCHANGED <<confVars, depth, blocked, convVars, fan, pending>>

Raise(r) ==
  /\ at[r] \in Raises /\ ~blocked
  /\ GoTo(r, "unlock")
  /\ UNCHANGED <<confVars, queueVars, convVars, fan, pending>>

----------------------------------------------------------------------------
(* Conversations.                                                           *)

Kept == DOMAIN turns
Without(c) == RemoveFirst(order, c)
Only(S) == [c \in S |-> turns[c]]

\* _get_or_create_conv: a new conversation may push out the oldest.
GetOrCreate(c) ==
  IF c \in Kept
  THEN UNCHANGED convVars
  ELSE LET n == IF Len(order) < MaxConvs THEN Len(order) + 1 ELSE MaxConvs
           o == SubSeq(<<c>> \o order, 1, n)
       IN  /\ order' = o
           /\ turns' = [d \in Range(o) |-> IF d = c THEN <<>> ELSE turns[d]]

BeginAtOnce(r) ==
  /\ at[r] = "queued"
  /\ active' = r
  /\ GetOrCreate(ConvOf[r])
  /\ GoTo(r, "ask")
  /\ UNCHANGED <<confVars, depth, blocked, fan, pending>>

Begin(r) ==
  /\ at[r] = "queued" /\ active = None
  /\ active' = r
  /\ GetOrCreate(ConvOf[r])
  /\ GoTo(r, "ask")
  /\ UNCHANGED <<confVars, depth, blocked, fan, pending>>

Turn(r, role) == [req |-> r, role |-> role]

\* The last n turns.
LastTurns(s, n) == IF Len(s) <= n THEN s ELSE SubSeq(s, Len(s) - n + 1, Len(s))

\* _add_turn: nothing when the conversation has been deleted.
AddTurn(c, turn) ==
  IF c \in Kept
  THEN /\ turns' = [turns EXCEPT ![c] = LastTurns(Append(@, turn), MaxTurns)]
       /\ order' = <<c>> \o Without(c)
  ELSE UNCHANGED <<turns, order>>

AskTurn(r) ==
  /\ at[r] = "ask"
  /\ AddTurn(ConvOf[r], Turn(r, "user"))
  /\ GoTo(r, "route")
  /\ UNCHANGED <<confVars, queueVars, fan, pending>>

AnswerTurn(r) ==
  /\ at[r] = "answer"
  /\ AddTurn(ConvOf[r], Turn(r, "assistant"))
  /\ GoTo(r, "unlock")
  /\ UNCHANGED <<confVars, queueVars, fan, pending>>

\* The interface deletes one conversation, or all of them.
DeleteHalf(c) ==
  /\ Change /\ c \in Kept
  /\ turns' = Only(Kept \ {c}) /\ UNCHANGED order
  /\ UNCHANGED <<mode, manual, ready, at, queueVars, fan, pending>>

Delete(c) ==
  /\ Change /\ c \in Kept
  /\ turns' = Only(Kept \ {c}) /\ order' = Without(c)
  /\ UNCHANGED <<mode, manual, ready, at, queueVars, fan, pending>>

Clear ==
  /\ Change /\ Kept # {}
  /\ turns' = Only({}) /\ order' = <<>>
  /\ UNCHANGED <<mode, manual, ready, at, queueVars, fan, pending>>

----------------------------------------------------------------------------
(* Streaming.                                                               *)

\* The endpoint of speed and of manual mode, and the showrunner of a fan-out.
Candidates ==
  IF mode = "manual" THEN ready \cap Local \cap {manual} ELSE ready \cap Local

Route(r) ==
  /\ at[r] = "route"
  /\ \/ Candidates = {} /\ GoTo(r, "fail") /\ UNCHANGED fan
     \/ \E e \in Candidates :
          /\ fan' = [fan EXCEPT ![r].sr = e]
          /\ GoTo(r, IF mode = "fanout" THEN "targets" ELSE "stream")
  /\ UNCHANGED <<confVars, queueVars, convVars, pending>>

NewRound(r, T) ==
  fan' = [fan EXCEPT ![r].sent = TRUE, ![r].targets = T, ![r].left = T, ![r].round = @ + 1]

\* The other endpoints are looked up again; then the headers go out.
Targets(r) ==
  /\ at[r] = "targets" /\ ~blocked
  /\ IF ready = {}
     THEN GoTo(r, "fail") /\ UNCHANGED fan
     ELSE LET T == ready \ {fan[r].sr}
          IN  NewRound(r, T) /\ GoTo(r, IF T = {} THEN "stream" ELSE "send")
  /\ UNCHANGED <<confVars, queueVars, convVars, pending>>

Send(r) ==
  /\ at[r] = "send"
  /\ \E e \in fan[r].left :
       LET t == <<r, fan[r].round, e>> IN
       /\ pending' = pending \cup {t}
       /\ fan' = [fan EXCEPT ![r].left = @ \ {e}, ![r].waiting = @ \cup {t}]
       /\ GoTo(r, IF fan[r].left = {e} THEN "collect" ELSE "send")
  /\ UNCHANGED <<confVars, queueVars, convVars>>

\* A task is seen done, with an answer or an error.
Collect(r) ==
  /\ at[r] = "collect" /\ ~blocked /\ fan[r].time # "over"
  /\ \E t \in fan[r].waiting \ pending : fan' = [fan EXCEPT ![r].waiting = @ \ {t}]
  /\ UNCHANGED <<confVars, at, queueVars, convVars, pending>>

Tick(r) ==
  /\ at[r] \in {"send", "collect"} /\ fan[r].time # "over"
  /\ fan' = [fan EXCEPT ![r].time = IF @ = "early" THEN "short" ELSE "over"]
  /\ UNCHANGED <<confVars, at, queueVars, convVars, pending>>

ReuseAnyway(r) ==
  /\ at[r] = "collect" /\ ~blocked /\ fan[r].time = "early" /\ fan[r].round < MaxRounds
  /\ NewRound(r, fan[r].targets)
  /\ GoTo(r, "send")
  /\ UNCHANGED <<confVars, queueVars, convVars, pending>>

\* All have answered with time to spare: the endpoints are asked once more.
Reuse(r) ==
  /\ at[r] = "collect" /\ ~blocked /\ fan[r].time = "early" /\ fan[r].round < MaxRounds
  /\ fan[r].waiting = {}
  /\ NewRound(r, fan[r].targets)
  /\ GoTo(r, "send")
  /\ UNCHANGED <<confVars, queueVars, convVars, pending>>

SynthesizeWhenAll(r) ==
  /\ at[r] = "collect" /\ ~blocked
  /\ fan[r].time # "early" /\ fan[r].waiting = {}
  /\ GoTo(r, "stream")
  /\ UNCHANGED <<confVars, queueVars, convVars, fan, pending>>

\* The window has closed, or no time is left for another round.
Synthesize(r) ==
  /\ at[r] = "collect" /\ ~blocked
  /\ fan[r].time = "over" \/ (fan[r].time = "short" /\ fan[r].waiting = {})
  /\ GoTo(r, "stream")
  /\ UNCHANGED <<confVars, queueVars, convVars, fan, pending>>

\* The answer of the endpoint, or an error: in the stream once the headers are
\* out, else as a 503.
Stream(r) ==
  /\ at[r] = "stream" /\ ~blocked
  /\ GoTo(r, "answer") \/ (~fan[r].sent /\ GoTo(r, "fail"))
  /\ UNCHANGED <<confVars, queueVars, convVars, fan, pending>>

Fail(r) ==
  /\ at[r] = "fail" /\ ~blocked
  /\ GoTo(r, "unlock")
  /\ UNCHANGED <<confVars, queueVars, convVars, fan, pending>>

----------------------------------------------------------------------------
(* The cluster and the configuration.                                       *)

Answered(t) ==
  /\ t \in pending
  /\ pending' = pending \ {t}
  /\ UNCHANGED <<confVars, at, queueVars, convVars, fan>>

LoadOrUnload(e) ==
  /\ Change
  /\ ready' = IF e \in ready THEN ready \ {e} ELSE ready \cup {e}
  /\ UNCHANGED <<mode, manual, at, queueVars, convVars, fan, pending>>

\* The selected model is set with the mode "manual" or alone.
PutConfig ==
  /\ Change
  /\ mode' \in Modes /\ manual' \in Eps \cup {None}
  /\ mode' \in {"manual", mode} \/ manual' = manual
  /\ UNCHANGED <<ready, at, queueVars, convVars, fan, pending>>

----------------------------------------------------------------------------

Step(r) ==
  \/ Begin(r) \/ AskTurn(r) \/ Route(r) \/ Targets(r) \/ Send(r) \/ Collect(r) \/ Reuse(r)
  \/ Synthesize(r) \/ Stream(r) \/ Fail(r) \/ AnswerTurn(r) \/ Unlock(r) \/ Leave(r)

Next ==
  \/ \E r \in Requests : Arrive(r) \/ Step(r) \/ Raise(r) \/ Tick(r) \/ StopReading(r)
  \/ WriteReturns
  \/ \E c \in Convs : Delete(c)
  \/ Clear
  \/ \E t \in Tasks : Answered(t)
  \/ \E e \in Eps : LoadOrUnload(e)
  \/ PutConfig

Spec == Init /\ [][Next]_vars

\* A request thread runs on, and time passes: its waits for endpoints have timeouts, and
\* an answer is a finite number of writes. Nothing is assumed of the answers, nor of a
\* client that has stopped reading.
Fairness == \A r \in Requests : WF_vars(Step(r)) /\ WF_vars(Tick(r))

LiveSpec == Spec /\ Fairness

----------------------------------------------------------------------------
(* Properties.                                                              *)

Held   == {"ask", "route", "targets", "send", "collect", "stream", "fail", "answer", "unlock"}
Inside == Held \cup {"queued", "leave"}

TypeOK ==
  /\ mode \in Modes /\ manual \in Eps \cup {None} /\ ready \subseteq Eps /\ changes \in Nat
  /\ at \in [Requests -> Inside \cup {"out", "refused", "gone"}]
  /\ depth \in Nat /\ active \in Requests \cup {None}
  /\ blocked \in BOOLEAN
  /\ Kept \subseteq Convs
  /\ turns \in [Kept -> Seq([req : Requests, role : {"user", "assistant"}])]
  /\ order \in Seq(Convs)
  /\ fan \in [Requests -> Fan] /\ pending \subseteq Tasks

\* The depth of the queue is the number of requests in it, also after one has
\* raised, and at most the limit.
QueueCounts ==
  /\ depth = Cardinality({r \in Requests : at[r] \in Inside})
  /\ depth <= MaxQueue

\* The list of conversations and the conversations stay in step, whatever is
\* deleted, pushed out or cleared while requests use them.
OrderMatches ==
  /\ Range(order) = Kept
  /\ Len(order) = Cardinality(Kept)
  /\ Cardinality(Kept) <= MaxConvs

\* In a conversation an answer comes right after the question it answers:
\* requests queued for the same conversation never interleave, and a deleted
\* conversation that another request creates again gets no answer of the first.
AnswersFollow ==
  \A c \in Kept : \A i \in 2..Len(turns[c]) :
    turns[c][i].role = "assistant" => turns[c][i-1] = Turn(turns[c][i].req, "user")

\* A fan-out never has two prompts unanswered at one endpoint, and none at the
\* endpoint that is to synthesize.
OneAtATime ==
  \A r \in Requests, e \in Eps :
    Cardinality({t \in pending : t[1] = r /\ t[3] = e}) <= IF e = fan[r].sr THEN 0 ELSE 1

\* Every request leaves the queue, even if no endpoint ever answers it, unless a client
\* stops reading for good: that one holds everybody else's place as well.
Leaves == <>[]blocked \/ \A r \in Requests : at[r] = "queued" ~> at[r] = "gone"
=============================================================================
