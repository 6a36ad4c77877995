------------------------------- MODULE TaskBoard -------------------------------
(***************************************************************************)
(* What nCore promises to whoever waits for a task (a browser, the mission *)
(* loop, the OpenAI front end): a task is posted once, with a number of    *)
(* answers to expect; answers only accumulate; it is reported done when    *)
(* enough have come or when it is late and has at least one, and it is     *)
(* never reported undone afterwards.                                       *)
(***************************************************************************)
EXTENDS Naturals

CONSTANTS Tasks,
          Goals   \* how many answers a task may ask for

VARIABLES posted, goal, got, late, done
vars == <<posted, goal, got, late, done>>

Init ==
  /\ posted = {} /\ late = {} /\ done = {}
  /\ goal = [t \in Tasks |-> 0]
  /\ got = [t \in Tasks |-> 0]

Post(t, n) ==
  /\ t \notin posted
  /\ posted' = posted \cup {t}
  /\ goal' = [goal EXCEPT ![t] = n]
  /\ done' = IF n = 0 THEN done \cup {t} ELSE done
  /\ UNCHANGED <<got, late>>

Close(t) ==
  IF got'[t] >= goal[t] \/ (t \in late' /\ got'[t] > 0) THEN done \cup {t} ELSE done

Answer(t) ==
  /\ t \in posted
  /\ got' = [got EXCEPT ![t] = @ + 1]
  /\ UNCHANGED <<posted, goal, late>>
  /\ done' = Close(t)

Late(t) ==
  /\ t \in posted \ late
  /\ late' = late \cup {t}
  /\ UNCHANGED <<posted, goal, got>>
  /\ done' = Close(t)

Next == \E t \in Tasks : Answer(t) \/ Late(t) \/ \E n \in Goals : Post(t, n)

Spec == Init /\ [][Next]_vars
=============================================================================
