----------------------------- MODULE MCCoordinator -----------------------------
(* What the coordinator does besides the life cycle of missions: it loads      *)
(* models, looks for the largest fast enough one, keeps sessions, and runs the *)
(* helpers of a mission, with one loop or with two.  They share no state: in a *)
(* behaviour one of them, the focus, moves, and the others stay in one initial *)
(* state.                                                                      *)
EXTENDS Autoload, BenchAutoload, Sessions, Flock

CONSTANTS m3, m5, m8, b1, b2, b3, b4, s1, s2, x1, x2, r1, l1, l2, e1, n1

ThreeModels == {m3, m5, m8}
Sizes == m3 :> 3 @@ m5 :> 5 @@ m8 :> 8
Memories == {<<10>>, <<7, 12>>, <<13, 4, 5>>, <<0, 20>>}
\* Two loads, one, and the catalog; one load that is asked for twice.
TwoLoads  == [kind |-> "linux", shape |-> <<7, 12>>, has |-> {m3, m8}]
OneLoad   == [kind |-> "linux", shape |-> <<10>>, has |-> {m3}]
NothingOn == [kind |-> "plain", shape |-> <<10>>, has |-> {}]
Twice     == [kind |-> "linux", shape |-> <<0, 20>>, has |-> {m3}]
FourNodes == TwoLoads :> 1 @@ OneLoad :> 1 @@ NothingOn :> 1 @@ Twice :> 2

BySize == <<b1, b2, b3, b4>>
\* Nothing fits a quarter of the memory; two models take up to three quarters of it.
Quarters == b1 :> 2 @@ b2 :> 3 @@ b3 :> 3 @@ b4 :> 4
\* Two ways of falling: a larger model is closer to the target, or farther from it.  One
\* that does not fall.
Measured == {b1 :> 120 @@ b2 :> 80 @@ b3 :> 56 @@ b4 :> 20,
             b1 :> 60 @@ b2 :> 58 @@ b3 :> 30 @@ b4 :> 20,
             b1 :> 70 @@ b2 :> 40 @@ b3 :> 65 @@ b4 :> 58}
Downloaded == {{b1, b2, b4}, {b1, b3}, {b4}, {}}
TheCatalog == <<b2, b4>>

TwoSessions == {s1, s2}
TwoTexts == {x1, x2}
OneStarter == {r1}
TwoLoops == {l1, l2}
OneEndpoint == {e1}
OneName == {n1}

VARIABLE focus

Init ==
  /\ focus \in {"autoload", "bench", "sessions", "flock", "loops"}
  /\ AutoloadInit /\ BenchInit /\ SessionInit /\ FlockInit
  /\ loadedOn = {} \/ (Cardinality(node.has) = 1 /\ node # Twice)
  /\ focus # "autoload" => /\ node = NothingOn
                           /\ ~tight /\ first = {} /\ ~pushed /\ loadedOn = {}
  /\ focus # "bench" => /\ library = {} /\ rate[b1] = 120
                        /\ \A d \in BenchDevices : serving[d] = NoModel

\* Two loops share one helper that stays and two tasks, or one that goes and one task; once
\* the helper is loose they finish their dispatches and rest.
BoundedForTwo ==
  /\ born' <= 1 /\ (changes' = 0 \/ (changes' = 1 /\ made' <= 1))
  /\ loose # {} => \A l \in Loops : \/ UNCHANGED sr[l] \/ sr'[l].at = "over"
                                   \/ sr[l].at = "dispatching"

Next ==
  /\ UNCHANGED focus
  /\ \/ focus = "autoload" /\ AutoloadNext /\ UNCHANGED <<benchVars, sessionVars, flockVars>>
     \/ focus = "bench" /\ BenchNext /\ UNCHANGED <<autoloadVars, sessionVars, flockVars>>
     \/ focus = "sessions" /\ SessionNext /\ UNCHANGED <<autoloadVars, benchVars, flockVars>>
     \/ /\ focus = "flock" /\ FlockNext /\ UNCHANGED sr[l2]
        /\ UNCHANGED <<autoloadVars, benchVars, sessionVars>>
     \/ /\ focus = "loops" /\ FlockNext /\ BoundedForTwo
        /\ UNCHANGED <<autoloadVars, benchVars, sessionVars>>

vars == <<focus, autoloadVars, benchVars, sessionVars, flockVars>>

\* AutoloadFairness, BenchFairness and FlockFairness.
Fairness ==
  /\ WF_autoloadVars(focus = "autoload" /\ RunAutoload)
  /\ WF_autoloadVars(focus = "autoload" /\ PollStep)
  /\ WF_autoloadVars(focus = "autoload" /\ \E i \in DOMAIN batches : SenderStep(i))
  /\ WF_autoloadVars(focus = "autoload" /\ FiveMinutesPass)
  /\ WF_benchVars(focus = "bench" /\ (Worker \/ MeasureAny))
  /\ \A d \in BenchDevices : WF_benchVars(focus = "bench" /\ JobEnds(d))
  /\ \A t \in Tasks : WF_flockVars(focus \in {"flock", "loops"} /\ TaskStep(t))

Spec == Init /\ [][Next]_vars /\ Fairness

\* The types of the four modules.
TypesOK == AutoloadTypeOK /\ BenchTypeOK /\ SessionTypeOK /\ FlockTypeOK
=============================================================================
