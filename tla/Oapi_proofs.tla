------------------------------ MODULE Oapi_proofs ------------------------------
(***************************************************************************)
(* Proofs about Oapi, for any number of requests, conversations, endpoints *)
(* and rounds: the queue keeps its count, the two records of the           *)
(* conversations agree, an answer stands after its question, an endpoint   *)
(* has one prompt of a fan-out at a time, and every request moves on.      *)
(***************************************************************************)
EXTENDS Oapi, FiniteSetTheorems, SequenceTheorems, TLAPS

TurnRecord == [req : Requests, role : {"user", "assistant"}]

\* What the conversations of a state are: a list without repetition of those there are.
Listed(o, f) ==
  /\ o \in Seq(Convs) /\ IsInjective(o)
  /\ DOMAIN f = Range(o)
  /\ Len(o) <= MaxConvs

\* _active_request has one holder, which is the request between Begin and Unlock.
Exclusive == \A r \in Requests : at[r] \in Held <=> active = r

\* In a sequence of turns an answer comes right after its question.
Follows(s) ==
  \A i \in 2..Len(s) : s[i].role = "assistant" => s[i-1] = Turn(s[i].req, "user")

\* From its question to its answer a request has the last word in its conversation, if
\* that is still there: nobody else speaks, and nobody else could create it again.
Asked == {"route", "targets", "send", "collect", "stream", "answer"}
LastWord ==
  \A r \in Requests : at[r] \in Asked /\ ConvOf[r] \in Kept =>
    /\ turns[ConvOf[r]] # <<>>
    /\ turns[ConvOf[r]][Len(turns[ConvOf[r]])] = Turn(r, "user")

\* Before a fan-out.
Early == {"out", "refused", "queued", "ask", "route", "targets"}

\* Prompts of a request: none before its fan-out; in a round only those it waits for,
\* which are of this round and have been sent; to each endpoint one, and none to the one
\* that is to synthesize.
Prompts ==
  /\ \A r \in Requests : at[r] \in Early =>
       fan[r].round = 0 /\ fan[r].waiting = {} /\ \A t \in pending : t[1] # r
  /\ \A r \in Requests : at[r] \in {"send", "collect"} =>
       /\ fan[r].round >= 1 /\ fan[r].sr \notin fan[r].targets /\ fan[r].left \subseteq fan[r].targets
       /\ \A t \in pending : t[1] = r => t \in fan[r].waiting
       /\ \A t \in fan[r].waiting :
            t[1] = r /\ t[2] = fan[r].round /\ t[3] \in fan[r].targets \ fan[r].left
  /\ \A t, u \in pending : t[1] = u[1] /\ t[3] = u[3] => t = u
  /\ \A t \in pending : t[3] # fan[t[1]].sr

\* The inductive invariant.
OapiInv == TypeOK /\ QueueCounts /\ Listed(order, turns) /\ Exclusive
           /\ AnswersFollow /\ LastWord /\ Prompts

----------------------------------------------------------------------------
(* Sequences.                                                               *)

\* A sequence without repetition is as long as its set of elements is large.
LEMMA Distinct ==
  ASSUME NEW S, NEW s \in Seq(S), IsInjective(s)
  PROVE  IsFiniteSet(Range(s)) /\ Cardinality(Range(s)) = Len(s)
<1>1. Len(s) \in Nat /\ DOMAIN s = 1..Len(s)
  OBVIOUS
<1>2. s \in [1..Len(s) -> Range(s)]
  BY <1>1 DEF Range
<1>3. s \in Bijection(1..Len(s), Range(s))
  BY <1>1, <1>2 DEF Bijection, Injection, Surjection, IsInjective, Range
<1>4. IsFiniteSet(1..Len(s)) /\ Cardinality(1..Len(s)) = Len(s)
  BY <1>1, FS_Interval
<1> QED
  BY <1>3, <1>4, FS_Bijection DEF ExistsBijection

\* Removing an element of a sequence without repetition.
LEMMA Removed ==
  ASSUME NEW S, NEW s \in Seq(S), IsInjective(s), NEW k \in DOMAIN s
  PROVE  LET t == RemoveFirst(s, s[k])
         IN  /\ t \in Seq(S) /\ IsInjective(t)
             /\ Len(t) = Len(s) - 1
             /\ Range(t) = Range(s) \ {s[k]}
<1> DEFINE I == {i \in 1..Len(s) : s[i] = s[k]}
           a == SubSeq(s, 1, k-1)
           b == SubSeq(s, k+1, Len(s))
           t == a \o b
<1>1. DOMAIN s = 1..Len(s) /\ Len(s) \in Nat /\ k \in 1..Len(s)
  OBVIOUS
<1>2. I = {k}
  BY <1>1 DEF IsInjective
<1>3. Min({k}) = k
  BY <1>1 DEF Min
<1>4. RemoveFirst(s, s[k]) = t
  BY <1>1, <1>2, <1>3, Zenon DEF RemoveFirst, SelectInSeq, RemoveAt
<1>5. \A i \in 1..(k-1) : s[i] \in S
  BY <1>1
<1>6. \A i \in (k+1)..Len(s) : s[i] \in S
  BY <1>1
<1>7. /\ a \in Seq(S) /\ Len(a) = k - 1
      /\ \A i \in 1..(k-1) : a[i] = s[i]
  BY <1>1, <1>5, SubSeqProperties
<1>8. /\ b \in Seq(S) /\ Len(b) = Len(s) - k
      /\ \A i \in 1..(Len(s) - k) : b[i] = s[k+i]
  BY <1>1, <1>6, SubSeqProperties
<1> HIDE DEF a, b
<1>9. /\ t \in Seq(S) /\ Len(t) = Len(s) - 1 /\ DOMAIN t = 1..(Len(s) - 1)
      /\ \A i \in 1..(Len(s) - 1) : t[i] = IF i <= k - 1 THEN s[i] ELSE s[i+1]
  <2>1. /\ t \in Seq(S) /\ Len(t) = Len(s) - 1
        /\ \A i \in 1..Len(t) : t[i] = IF i <= Len(a) THEN a[i] ELSE b[i - Len(a)]
    <3>1. /\ t \in Seq(S) /\ Len(t) = Len(a) + Len(b)
          /\ \A i \in 1..(Len(a) + Len(b)) : t[i] = IF i <= Len(a) THEN a[i] ELSE b[i - Len(a)]
      BY <1>7, <1>8, ConcatProperties, Zenon
    <3> QED
      BY <1>1, <1>7, <1>8, <3>1
  <2> HIDE DEF t
  <2>2. ASSUME NEW i \in 1..(Len(s) - 1), i <= k - 1 PROVE t[i] = s[i]
    BY <1>1, <1>7, <2>1, <2>2
  <2>3. ASSUME NEW i \in 1..(Len(s) - 1), ~(i <= k - 1) PROVE t[i] = s[i+1]
    <3>1. i - (k - 1) \in 1..(Len(s) - k) /\ k + (i - (k - 1)) = i + 1
      BY <1>1, <2>3
    <3>2. t[i] = b[i - (k - 1)]
      BY <1>1, <1>7, <2>1, <2>3
    <3> QED
      BY <1>8, <3>1, <3>2
  <2> QED
    BY <2>1, <2>2, <2>3
<1> HIDE DEF t
<1>10. DOMAIN t = 1..(Len(s) - 1)
  BY <1>9
<1>11. IsInjective(t)
  <2> SUFFICES ASSUME NEW i \in DOMAIN t, NEW j \in DOMAIN t, t[i] = t[j] PROVE i = j
    BY DEF IsInjective
  <2>1. i \in 1..(Len(s) - 1) /\ j \in 1..(Len(s) - 1)
    BY <1>9
  <2> DEFINE p == IF i <= k - 1 THEN i ELSE i + 1
             q == IF j <= k - 1 THEN j ELSE j + 1
  <2>2. t[i] = s[p] /\ t[j] = s[q]
    BY <1>9, <2>1
  <2>3. p \in DOMAIN s /\ q \in DOMAIN s
    BY <1>1, <2>1
  <2>4. p = q
    BY <2>2, <2>3, Zenon DEF IsInjective
  <2> QED
    BY <1>1, <2>1, <2>4
<1>12. ASSUME NEW i \in DOMAIN s, i # k PROVE \E j \in DOMAIN t : t[j] = s[i]
  <2>1. CASE i < k
    BY <1>1, <1>9, <1>10, <2>1
  <2>2. CASE i > k
    <3>1. i - 1 \in DOMAIN t /\ t[i-1] = s[i]
      BY <1>1, <1>9, <1>10, <2>2
    <3> QED
      BY <3>1
  <2> QED
    BY <1>1, <1>12, <2>1, <2>2
<1>13. ASSUME NEW j \in DOMAIN t PROVE t[j] # s[k] /\ \E i \in DOMAIN s : t[j] = s[i]
  <2> DEFINE p == IF j <= k - 1 THEN j ELSE j + 1
  <2>1. j \in 1..(Len(s) - 1) /\ p \in DOMAIN s /\ p # k
    BY <1>1, <1>9
  <2>2. t[j] = s[p]
    BY <1>9, <2>1
  <2> HIDE DEF p
  <2>3. s[p] # s[k]
    BY <1>1, <2>1, Zenon DEF IsInjective
  <2> QED
    BY <2>1, <2>2, <2>3
<1>14. Range(t) = Range(s) \ {s[k]}
  BY <1>1, <1>12, <1>13 DEF Range
<1> QED
  BY <1>4, <1>9, <1>11, <1>14

\* Putting a new element in front.
LEMMA InFront ==
  ASSUME NEW S, NEW s \in Seq(S), IsInjective(s), NEW c \in S,
         c \notin Range(s)
  PROVE  LET t == <<c>> \o s
         IN  /\ t \in Seq(S) /\ IsInjective(t)
             /\ Len(t) = Len(s) + 1 /\ t[1] = c
             /\ Range(t) = Range(s) \cup {c}
<1> DEFINE t == <<c>> \o s
<1>1. DOMAIN s = 1..Len(s) /\ Len(s) \in Nat
  OBVIOUS
<1>2. /\ t \in Seq(S) /\ Len(t) = Len(s) + 1
      /\ \A i \in 1..(Len(s) + 1) : t[i] = IF i = 1 THEN c ELSE s[i-1]
  OBVIOUS
<1>3. DOMAIN t = 1..(Len(s) + 1)
  BY <1>2
<1> HIDE DEF t
<1>4. IsInjective(t)
  BY <1>1, <1>2, <1>3 DEF IsInjective, Range
<1>5. ASSUME NEW i \in DOMAIN s PROVE \E j \in DOMAIN t : t[j] = s[i]
  <2>1. i + 1 \in DOMAIN t /\ t[i+1] = s[i]
    BY <1>1, <1>2, <1>3
  <2> QED
    BY <2>1
<1>6. 1 \in DOMAIN t /\ t[1] = c
  BY <1>1, <1>2, <1>3
<1>7. ASSUME NEW j \in DOMAIN t PROVE t[j] = c \/ \E i \in DOMAIN s : t[j] = s[i]
  <2>1. CASE j = 1
    BY <1>2, <1>3, <2>1
  <2>2. CASE j # 1
    <3>1. j - 1 \in DOMAIN s /\ t[j] = s[j-1]
      BY <1>1, <1>2, <1>3, <2>2
    <3> QED
      BY <3>1
  <2> QED
    BY <2>1, <2>2
<1>8. Range(t) = Range(s) \cup {c}
  BY <1>5, <1>6, <1>7 DEF Range
<1> QED
  BY <1>2, <1>4, <1>6, <1>8 DEF t

\* The first elements of a sequence.
LEMMA Prefix ==
  ASSUME NEW S, NEW s \in Seq(S), IsInjective(s), NEW n \in 1..Len(s)
  PROVE  LET t == SubSeq(s, 1, n)
         IN  /\ t \in Seq(S) /\ IsInjective(t)
             /\ Len(t) = n /\ t[1] = s[1]
             /\ Range(t) \subseteq Range(s)
             /\ 1 \in DOMAIN t
<1> DEFINE t == SubSeq(s, 1, n)
<1>1. DOMAIN s = 1..Len(s) /\ Len(s) \in Nat /\ \A i \in 1..n : s[i] \in S
  OBVIOUS
<1>2. t \in Seq(S) /\ Len(t) = n /\ \A i \in 1..n : t[i] = s[i]
  BY <1>1, SubSeqProperties
<1>3. DOMAIN t = 1..n
  BY <1>2
<1> HIDE DEF t
<1> QED
  BY <1>1, <1>2, <1>3 DEF IsInjective, Range

\* A turn is added at the end and pushes out the oldest: if it is no answer, or the answer
\* to the turn before, answers still follow their questions.
LEMMA Added ==
  ASSUME NEW s \in Seq(TurnRecord), NEW u \in TurnRecord, Follows(s),
         u.role = "assistant" => s # <<>> /\ s[Len(s)] = Turn(u.req, "user")
  PROVE  LET t == LastTurns(Append(s, u), MaxTurns)
         IN  t \in Seq(TurnRecord) /\ t # <<>> /\ t[Len(t)] = u /\ Follows(t)
<1> DEFINE a == Append(s, u)
<1>1. /\ a \in Seq(TurnRecord) /\ Len(a) = Len(s) + 1 /\ Len(s) \in Nat
      /\ \A i \in 1..Len(s) : a[i] = s[i]
      /\ a[Len(s) + 1] = u
  BY AppendProperties
<1>2. Follows(a)
  <2> SUFFICES ASSUME NEW i \in 2..Len(a), a[i].role = "assistant"
               PROVE  a[i-1] = Turn(a[i].req, "user")
    BY DEF Follows
  <2>1. CASE i = Len(s) + 1
    BY <1>1, <2>1
  <2>2. CASE i \in 2..Len(s)
    <3>1. a[i] = s[i] /\ a[i-1] = s[i-1]
      BY <1>1, <2>2
    <3> QED
      BY <2>2, <3>1 DEF Follows
  <2> QED
    BY <1>1, <2>1, <2>2
<1> HIDE DEF a
<1>3. MaxTurns \in Nat \ {0}
  BY CapsAssumption
<1>4. CASE Len(a) <= MaxTurns
  <2>1. LastTurns(a, MaxTurns) = a
    BY <1>4 DEF LastTurns
  <2>2. a # <<>> /\ a[Len(a)] = u
    BY <1>1
  <2> QED
    BY <1>1, <1>2, <2>1, <2>2 DEF a
<1>5. CASE Len(a) > MaxTurns
  <2> DEFINE m == Len(a) - MaxTurns + 1
             t == SubSeq(a, m, Len(a))
  <2>1. m \in 2..Len(a) /\ Len(a) \in Nat
    BY <1>1, <1>3, <1>5
  <2>2. \A i \in m..Len(a) : a[i] \in TurnRecord
    BY <1>1, <2>1
  <2>3. /\ t \in Seq(TurnRecord) /\ Len(t) = MaxTurns
        /\ \A i \in 1..MaxTurns : t[i] = a[m + i - 1]
    <3>1. m \in Int /\ Len(a) \in Int /\ Len(a) - m + 1 = MaxTurns /\ m <= Len(a)
      BY <1>3, <2>1
    <3> HIDE DEF m
    <3> QED
      BY <2>2, <3>1, SubSeqProperties
  <2>4. LastTurns(a, MaxTurns) = t
    BY <1>1, <1>3, <1>5 DEF LastTurns
  <2> HIDE DEF t
  <2>5. t # <<>> /\ t[Len(t)] = u
    BY <1>1, <1>3, <2>1, <2>3
  <2>6. Follows(t)
    <3> SUFFICES ASSUME NEW i \in 2..Len(t), t[i].role = "assistant"
                 PROVE  t[i-1] = Turn(t[i].req, "user")
      BY DEF Follows
    <3> DEFINE k == m + i - 1
    <3>1. /\ i \in 1..MaxTurns /\ i - 1 \in 1..MaxTurns
          /\ k \in 2..Len(a) /\ m + (i - 1) - 1 = k - 1
      BY <1>1, <1>3, <2>1, <2>3
    <3>2. t[i] = a[k] /\ t[i-1] = a[k-1]
      BY <2>3, <3>1
    <3> HIDE DEF k
    <3>3. a[k-1] = Turn(a[k].req, "user")
      BY <1>2, <3>1, <3>2 DEF Follows
    <3> QED
      BY <3>2, <3>3
  <2> QED
    BY <2>3, <2>4, <2>5, <2>6 DEF a
<1> QED
  BY <1>1, <1>3, <1>4, <1>5 DEF a

----------------------------------------------------------------------------
(* The operations on the conversations.                                     *)

\* A conversation is found, or created in front of the others; the oldest goes when there
\* are too many.
LEMMA CreateKeeps ==
  ASSUME TypeOK, Listed(order, turns), NEW c \in Convs, GetOrCreate(c)
  PROVE  /\ Listed(order, turns)'
         /\ turns' \in [Kept' -> Seq(TurnRecord)]
         /\ \A d \in Kept' : turns'[d] = <<>> \/ (d \in Kept /\ turns'[d] = turns[d])
<1>1. CASE c \in Kept
  BY <1>1 DEF GetOrCreate, convVars, TypeOK, Kept, TurnRecord
<1>2. CASE c \notin Kept
  <2> DEFINE n == IF Len(order) < MaxConvs THEN Len(order) + 1 ELSE MaxConvs
             s == <<c>> \o order
             o == SubSeq(s, 1, n)
             f == [d \in Range(o) |-> IF d = c THEN <<>> ELSE turns[d]]
  <2>1. order' = o /\ turns' = f
    BY <1>2 DEF GetOrCreate
  <2>2. order \in Seq(Convs) /\ IsInjective(order) /\ Kept = Range(order)
    BY DEF Listed, Kept
  <2>3. /\ s \in Seq(Convs) /\ IsInjective(s) /\ Len(s) = Len(order) + 1 /\ s[1] = c
        /\ Range(s) = Kept \cup {c}
    <3>1. c \notin Range(order)
      BY <1>2, <2>2
    <3> QED
      BY <2>2, <3>1, InFront
  <2>4. n \in 1..(Len(order) + 1) /\ n <= MaxConvs
    BY <2>2, CapsAssumption DEF Listed
  <2> HIDE DEF n, s
  <2>5. /\ o \in Seq(Convs) /\ IsInjective(o) /\ Len(o) = n
        /\ Range(o) \subseteq Kept \cup {c}
    BY <2>3, <2>4, Prefix
  <2> HIDE DEF o
  <2>6. DOMAIN f = Range(o)
    OBVIOUS
  <2>7. Listed(order, turns)'
    BY <2>1, <2>4, <2>5, <2>6 DEF Listed
  <2>8. \A d \in DOMAIN f : f[d] = <<>> \/ (d \in Kept /\ f[d] = turns[d])
    BY <2>5
  <2>9. \A d \in Kept : turns[d] \in Seq(TurnRecord)
    BY DEF TypeOK, TurnRecord
  <2>10. <<>> \in Seq(TurnRecord)
    OBVIOUS
  <2>11. f \in [DOMAIN f -> Seq(TurnRecord)]
    <3>1. \A d \in DOMAIN f : f[d] \in Seq(TurnRecord)
      BY <2>8, <2>9, <2>10
    <3> QED
      BY <3>1
  <2> QED
    BY <2>1, <2>7, <2>8, <2>11 DEF Kept
<1> QED
  BY <1>1, <1>2

\* A turn is added at the end of its conversation, which comes to the front.
LEMMA AddKeeps ==
  ASSUME TypeOK, Listed(order, turns), NEW c \in Convs, NEW u \in TurnRecord, AddTurn(c, u)
  PROVE  /\ Listed(order, turns)'
         /\ Kept' = Kept
         /\ c \in Kept => turns'[c] = LastTurns(Append(turns[c], u), MaxTurns)
         /\ \A d \in Kept \ {c} : turns'[d] = turns[d]
<1>1. CASE c \notin Kept
  BY <1>1 DEF AddTurn, Kept
<1>2. CASE c \in Kept
  <2>1. /\ turns' = [turns EXCEPT ![c] = LastTurns(Append(@, u), MaxTurns)]
        /\ order' = <<c>> \o Without(c)
    BY <1>2 DEF AddTurn
  <2>2. order \in Seq(Convs) /\ IsInjective(order) /\ Kept = Range(order)
    BY DEF Listed, Kept
  <2>3. PICK k \in DOMAIN order : order[k] = c
    BY <1>2, <2>2 DEF Range
  <2> DEFINE w == RemoveFirst(order, c)
  <2>4. /\ w \in Seq(Convs) /\ IsInjective(w) /\ Len(w) = Len(order) - 1
        /\ Range(w) = Kept \ {c}
    <3>1. /\ w \in Seq(Convs) /\ IsInjective(w) /\ Len(w) = Len(order) - 1
          /\ Range(w) = Range(order) \ {order[k]}
      BY <2>2, <2>3, Removed
    <3> QED
      BY <2>2, <2>3, <3>1
  <2>5. order' = <<c>> \o w
    BY <2>1 DEF Without
  <2> HIDE DEF w
  <2> DEFINE s == <<c>> \o w
  <2>6. /\ s \in Seq(Convs) /\ IsInjective(s) /\ Len(s) = Len(w) + 1
        /\ Range(s) = (Kept \ {c}) \cup {c}
    <3>1. c \notin Range(w)
      BY <2>4
    <3> QED
      BY <2>4, <3>1, InFront
  <2> HIDE DEF s
  <2>7. Len(s) = Len(order) /\ order' = s /\ Kept' = Kept
    BY <2>1, <2>2, <2>4, <2>5, <2>6 DEF s, Kept
  <2>8. Listed(order, turns)'
    BY <1>2, <2>6, <2>7 DEF Listed, Kept
  <2> QED
    BY <1>2, <2>1, <2>7, <2>8 DEF Kept
<1> QED
  BY <1>1, <1>2

\* A conversation goes, or all do: what is left is as it was.
LEMMA DeleteKeeps ==
  ASSUME TypeOK, Listed(order, turns), (\E c \in Convs : Delete(c)) \/ Clear
  PROVE  /\ Listed(order, turns)'
         /\ Kept' \subseteq Kept /\ \A d \in Kept' : turns'[d] = turns[d]
<1>1. ASSUME NEW c \in Convs, Delete(c)
      PROVE  /\ Listed(order, turns)'
             /\ Kept' \subseteq Kept /\ \A d \in Kept' : turns'[d] = turns[d]
  <2>1. c \in Kept /\ turns' = Only(Kept \ {c}) /\ order' = RemoveFirst(order, c)
    BY <1>1 DEF Delete, Without
  <2>2. order \in Seq(Convs) /\ IsInjective(order) /\ Kept = Range(order)
    BY DEF Listed, Kept
  <2>3. PICK k \in DOMAIN order : order[k] = c
    BY <2>1, <2>2 DEF Range
  <2> DEFINE w == RemoveFirst(order, c)
  <2>4. /\ w \in Seq(Convs) /\ IsInjective(w) /\ Len(w) = Len(order) - 1
        /\ Range(w) = Kept \ {c}
    <3>1. /\ w \in Seq(Convs) /\ IsInjective(w) /\ Len(w) = Len(order) - 1
          /\ Range(w) = Range(order) \ {order[k]}
      BY <2>2, <2>3, Removed
    <3> QED
      BY <2>2, <2>3, <3>1
  <2>5. order' = w
    BY <2>1
  <2> HIDE DEF w
  <2>6. Len(w) <= MaxConvs
    BY <2>2, <2>4, CapsAssumption DEF Listed
  <2> QED
    BY <2>1, <2>4, <2>5, <2>6 DEF Listed, Only, Kept
<1>2. CASE Clear
  <2>1. turns' = Only({}) /\ order' = <<>>
    BY <1>2 DEF Clear
  <2> QED
    BY <2>1, CapsAssumption DEF Listed, Only, Kept, IsInjective, Range
<1> QED
  BY <1>1, <1>2

\* Nothing but these operations touches the conversations.
LEMMA ConvSteps ==
  ASSUME [Next]_vars
  PROVE  \/ UNCHANGED convVars
         \/ \E r \in Requests : Begin(r) \/ AskTurn(r) \/ AnswerTurn(r)
         \/ (\E c \in Convs : Delete(c)) \/ Clear
BY DEF Next, Step, vars, convVars, Arrive, Raise, Tick, Route, Targets, Send, Collect, Reuse,
       Synthesize, Stream, Fail, Unlock, Leave, Answered, LoadOrUnload, PutConfig, StopReading,
       WriteReturns

----------------------------------------------------------------------------
(* The inductive invariant.                                                 *)

\* At the start there is nothing.
LEMMA OapiStarts == Init => OapiInv
<1> SUFFICES ASSUME Init PROVE OapiInv
  OBVIOUS
<1>1. TypeOK
  <2>1. NoFan \in Fan
    BY BoundsAssumption DEF NoFan, Fan
  <2>2. turns \in [Kept -> Seq([req : Requests, role : {"user", "assistant"}])] /\ Kept = {}
    BY DEF Init, Kept
  <2>3. /\ mode = "fanout" /\ manual = None /\ ready = Eps /\ changes = 0
        /\ at = [r \in Requests |-> "out"] /\ depth = 0 /\ active = None /\ order = <<>>
        /\ fan = [r \in Requests |-> NoFan] /\ pending = {}
    BY Zenon DEF Init
  <2>4. blocked \in BOOLEAN
    BY Zenon DEF Init
  <2> QED
    BY <2>1, <2>2, <2>3, <2>4 DEF TypeOK, Modes, Inside, Held
<1>2. QueueCounts
  <2>1. {r \in Requests : at[r] \in Inside} = {}
    BY DEF Init, Inside, Held
  <2> QED
    <3>1. depth = 0
      BY Zenon DEF Init
    <3> QED
      BY <2>1, <3>1, FS_EmptySet, CapsAssumption DEF QueueCounts
<1>3. Listed(order, turns)
  BY CapsAssumption DEF Init, Listed, IsInjective, Range
<1>4. Exclusive
  BY NoneAssumption DEF Init, Exclusive, Held
<1>5. AnswersFollow /\ LastWord
  BY DEF Init, AnswersFollow, LastWord, Kept
<1>6. Prompts
  BY DEF Init, Prompts, NoFan, Early
<1> QED
  BY <1>1, <1>2, <1>3, <1>4, <1>5, <1>6 DEF OapiInv

\* The depth is incremented by a request that enters and decremented by one that leaves.
LEMMA QueueStep == ASSUME OapiInv, [Next]_vars PROVE QueueCounts' /\ depth' \in Nat
<1> DEFINE In == {r \in Requests : at[r] \in Inside}
<1>1. TypeOK /\ QueueCounts /\ IsFiniteSet(Requests) /\ MaxQueue \in Nat
  BY RequestsAssumption, CapsAssumption DEF OapiInv
<1>2. IsFiniteSet(In) /\ depth = Cardinality(In) /\ depth \in Nat /\ depth <= MaxQueue
  BY <1>1, FS_Subset DEF QueueCounts, TypeOK
<1>3. CASE In' = In /\ depth' = depth
  BY <1>2, <1>3 DEF QueueCounts
<1>4. ASSUME NEW r \in Requests, Arrive(r) PROVE QueueCounts' /\ depth' \in Nat
  <2>1. CASE depth >= MaxQueue
    <3>1. In' = In /\ depth' = depth
      BY <1>1, <1>4, <2>1 DEF Arrive, GoTo, Inside, Held, TypeOK
    <3> QED
      BY <1>3, <3>1
  <2>2. CASE ~(depth >= MaxQueue)
    <3>1. In' = In \cup {r} /\ r \notin In /\ depth' = depth + 1
      BY <1>1, <1>4, <2>2 DEF Arrive, GoTo, Inside, Held, TypeOK
    <3>2. Cardinality(In') = depth + 1
      BY <1>2, <3>1, FS_AddElement
    <3> QED
      BY <1>1, <1>2, <2>2, <3>1, <3>2 DEF QueueCounts
  <2> QED
    BY <2>1, <2>2
<1>5. ASSUME NEW r \in Requests, Leave(r) PROVE QueueCounts' /\ depth' \in Nat
  <2>1. In' = In \ {r} /\ r \in In /\ depth' = depth - 1
    BY <1>1, <1>5 DEF Leave, GoTo, Inside, Held, TypeOK
  <2>2. Cardinality(In') = depth - 1 /\ Cardinality(In') \in Nat
    <3> HIDE DEF In
    <3>1. Cardinality(In \ {r}) = Cardinality(In) - 1 /\ IsFiniteSet(In \ {r})
      BY <1>2, <2>1, FS_RemoveElement
    <3> QED
      BY <1>2, <2>1, <3>1, FS_CardinalityType
  <2> QED
    BY <1>1, <1>2, <2>1, <2>2 DEF QueueCounts
<1>6. ASSUME NEW r \in Requests, Step(r) \/ Raise(r) \/ Tick(r), ~Leave(r)
      PROVE  In' = In /\ depth' = depth
  <2>1. CASE Raise(r) \/ Tick(r) \/ Unlock(r) \/ Begin(r) \/ AskTurn(r) \/ AnswerTurn(r)
    BY <1>1, <2>1 DEF Raise, Raises, Tick, Unlock, Begin, AskTurn, AnswerTurn, GoTo, queueVars,
                      Inside, Held, TypeOK
  <2>2. CASE Route(r) \/ Targets(r) \/ Send(r) \/ Collect(r)
    BY <1>1, <2>2 DEF Route, Targets, Send, Collect, GoTo, queueVars, Inside, Held, TypeOK
  <2>3. CASE Reuse(r) \/ Synthesize(r) \/ Stream(r) \/ Fail(r)
    BY <1>1, <2>3 DEF Reuse, Synthesize, Stream, Fail, GoTo, queueVars, Inside, Held, TypeOK
  <2> QED
    BY <1>6, <2>1, <2>2, <2>3 DEF Step
<1>7. ASSUME \/ \E c \in Convs : Delete(c)
             \/ Clear
             \/ \E t \in Tasks : Answered(t)
             \/ \E e \in Eps : LoadOrUnload(e)
             \/ PutConfig
             \/ (\E q \in Requests : StopReading(q)) \/ WriteReturns
             \/ UNCHANGED vars
      PROVE  In' = In /\ depth' = depth
  BY <1>7 DEF Delete, Clear, Answered, LoadOrUnload, PutConfig, StopReading,
      WriteReturns, vars, queueVars
<1> QED
  BY <1>3, <1>4, <1>5, <1>6, <1>7 DEF Next, Step

\* A request becomes the active one when there is none, and leaves the lock as it goes.
LEMMA ExclusiveStep == ASSUME OapiInv, [Next]_vars PROVE Exclusive'
<1>1. TypeOK /\ Exclusive /\ None \notin Requests
  BY NoneAssumption DEF OapiInv
<1>2. ASSUME NEW r \in Requests, Step(r) \/ Raise(r) \/ Tick(r) \/ Arrive(r)
      PROVE  Exclusive'
  <2>1. CASE Arrive(r) \/ Raise(r) \/ Tick(r)
    BY <1>1, <2>1 DEF Arrive, Raise, Raises, Tick, GoTo, queueVars, Exclusive, Held, TypeOK
  <2>2. CASE Begin(r)
    BY <1>1, <2>2 DEF Begin, GoTo, Exclusive, Held, TypeOK
  <2>3. CASE Unlock(r)
    BY <1>1, <2>3 DEF Unlock, GoTo, Exclusive, Held, TypeOK
  <2>4. CASE Leave(r) \/ AskTurn(r) \/ AnswerTurn(r) \/ Stream(r) \/ Fail(r) \/ Synthesize(r)
    BY <1>1, <2>4 DEF Leave, AskTurn, AnswerTurn, Stream, Fail, Synthesize, GoTo, queueVars,
                      Exclusive, Held, TypeOK
  <2>5. CASE Route(r) \/ Targets(r)
    BY <1>1, <2>5 DEF Route, Targets, GoTo, queueVars, Exclusive, Held, TypeOK
  <2>6. CASE Collect(r) \/ Reuse(r)
    BY <1>1, <2>6 DEF Collect, Reuse, GoTo, queueVars, Exclusive, Held, TypeOK
  <2>7. CASE Send(r)
    <3>1. at[r] = "send" /\ (GoTo(r, "send") \/ GoTo(r, "collect")) /\ active' = active
      BY <2>7 DEF Send, queueVars
    <3> QED
      BY <1>1, <3>1 DEF GoTo, Exclusive, Held, TypeOK
  <2> QED
    BY <1>2, <2>1, <2>2, <2>3, <2>4, <2>5, <2>6, <2>7 DEF Step
<1>3. CASE \/ \E c \in Convs : Delete(c)
           \/ Clear
           \/ \E t \in Tasks : Answered(t)
           \/ \E e \in Eps : LoadOrUnload(e)
           \/ PutConfig
           \/ (\E q \in Requests : StopReading(q)) \/ WriteReturns
           \/ UNCHANGED vars
  BY <1>1, <1>3 DEF Delete, Clear, Answered, LoadOrUnload, PutConfig, StopReading,
      WriteReturns, vars, queueVars, Exclusive
<1> QED
  BY <1>2, <1>3 DEF Next

\* Where requests ask and answer the conversations keep their shape: an answer is added
\* only by the request whose question is the last turn.
LEMMA AnswerStep == ASSUME OapiInv, [Next]_vars PROVE AnswersFollow'
<1>1. TypeOK /\ Listed(order, turns) /\ AnswersFollow /\ LastWord
  BY DEF OapiInv
<1>2. \A r \in Requests : ConvOf[r] \in Convs
  BY RequestsAssumption
<1>3. \A c \in Kept : turns[c] \in Seq(TurnRecord) /\ Follows(turns[c])
  BY <1>1 DEF TypeOK, TurnRecord, AnswersFollow, Follows
<1>4. (\A c \in Kept' : Follows(turns'[c])) => AnswersFollow'
  BY DEF AnswersFollow, Follows
<1>5. CASE UNCHANGED convVars
  BY <1>1, <1>5 DEF convVars, AnswersFollow, Kept
<1>6. ASSUME NEW r \in Requests, Begin(r) PROVE AnswersFollow'
  <2>1. \A d \in Kept' : turns'[d] = <<>> \/ (d \in Kept /\ turns'[d] = turns[d])
    BY <1>1, <1>2, <1>6, CreateKeeps DEF Begin
  <2>2. Follows(<<>>)
    BY DEF Follows
  <2> QED
    BY <1>3, <1>4, <2>1, <2>2
<1>7. ASSUME NEW r \in Requests, NEW u \in TurnRecord, AddTurn(ConvOf[r], u),
             /\ u.role = "assistant"
             /\ ConvOf[r] \in Kept
             => LET s == turns[ConvOf[r]] IN s # <<>> /\ s[Len(s)] = Turn(u.req, "user")
      PROVE  AnswersFollow'
  <2> DEFINE c == ConvOf[r]
  <2>1. /\ Kept' = Kept
        /\ c \in Kept => turns'[c] = LastTurns(Append(turns[c], u), MaxTurns)
        /\ \A d \in Kept \ {c} : turns'[d] = turns[d]
    BY <1>1, <1>2, <1>7, AddKeeps
  <2>2. c \in Kept => Follows(LastTurns(Append(turns[c], u), MaxTurns))
    BY <1>3, <1>7, Added
  <2> QED
    BY <1>3, <1>4, <2>1, <2>2
<1>8. ASSUME NEW r \in Requests, AskTurn(r) PROVE AnswersFollow'
  <2>1. Turn(r, "user") \in TurnRecord /\ Turn(r, "user").role # "assistant"
    BY DEF Turn, TurnRecord
  <2> QED
    BY <1>7, <1>8, <2>1 DEF AskTurn
<1>9. ASSUME NEW r \in Requests, AnswerTurn(r) PROVE AnswersFollow'
  <2>1. Turn(r, "assistant") \in TurnRecord /\ Turn(r, "assistant").req = r
    BY DEF Turn, TurnRecord
  <2>2. at[r] = "answer" /\ AddTurn(ConvOf[r], Turn(r, "assistant"))
    BY <1>9 DEF AnswerTurn
  <2>3. ConvOf[r] \in Kept => LET s == turns[ConvOf[r]] IN s # <<>> /\ s[Len(s)] = Turn(r, "user")
    BY <1>1, <2>2 DEF LastWord, Asked
  <2> QED
    BY <1>7, <2>1, <2>2, <2>3
<1>10. CASE (\E c \in Convs : Delete(c)) \/ Clear
  <2>1. Kept' \subseteq Kept /\ \A d \in Kept' : turns'[d] = turns[d]
    BY <1>1, <1>10, DeleteKeeps
  <2> QED
    BY <1>3, <1>4, <2>1
<1> QED
  BY <1>5, <1>6, <1>8, <1>9, <1>10, ConvSteps

\* A request that has asked holds the lock, so that no other adds a turn or makes a
\* conversation until it has answered.
LEMMA LastWordStep == ASSUME OapiInv, [Next]_vars PROVE LastWord'
<1>1. TypeOK /\ Listed(order, turns) /\ Exclusive /\ LastWord /\ None \notin Requests
  BY NoneAssumption DEF OapiInv
<1>2. \A r \in Requests : ConvOf[r] \in Convs
  BY RequestsAssumption
<1>3. \A c \in Kept : turns[c] \in Seq(TurnRecord)
  BY <1>1 DEF TypeOK, TurnRecord
<1>4. Asked \subseteq Held
  BY DEF Asked, Held
<1>5. Exclusive'
  BY ExclusiveStep
<1>6. ASSUME NEW r \in Requests, AskTurn(r) PROVE LastWord'
  <2> DEFINE c == ConvOf[r]
             t == LastTurns(Append(turns[c], Turn(r, "user")), MaxTurns)
  <2>1. Turn(r, "user") \in TurnRecord /\ Turn(r, "user").role # "assistant"
    BY DEF Turn, TurnRecord
  <2>2. Kept' = Kept /\ (c \in Kept => turns'[c] = t)
    BY <1>1, <1>2, <1>6, <2>1, AddKeeps DEF AskTurn
  <2>3. c \in Kept => Follows(turns[c])
    BY DEF OapiInv, AnswersFollow, Follows
  <2>4. c \in Kept => t # <<>> /\ t[Len(t)] = Turn(r, "user")
    BY <1>3, <2>1, <2>3, Added
  <2> HIDE DEF t
  <2>5. \A q \in Requests \ {r} : at'[q] \notin Asked
    BY <1>1, <1>4, <1>5, <1>6 DEF AskTurn, queueVars, Exclusive, Held
  <2> QED
    BY <2>2, <2>4, <2>5 DEF LastWord
<1>7. ASSUME NEW r \in Requests, Begin(r) \/ AnswerTurn(r) PROVE LastWord'
  <2>1. at'[r] \notin Asked
    BY <1>1, <1>7 DEF Begin, AnswerTurn, GoTo, Asked, TypeOK
  <2>2. \A q \in Requests \ {r} : at'[q] \notin Asked
    <3>1. active' = r
      BY <1>1, <1>7 DEF Begin, AnswerTurn, queueVars, Exclusive, Held
    <3> QED
      BY <1>4, <1>5, <3>1 DEF Exclusive
  <2> QED
    BY <2>1, <2>2 DEF LastWord
<1>8. CASE (\E c \in Convs : Delete(c)) \/ Clear
  <2>1. Kept' \subseteq Kept /\ (\A d \in Kept' : turns'[d] = turns[d]) /\ at' = at
    BY <1>1, <1>8, DeleteKeeps DEF Delete, Clear
  <2> QED
    BY <1>1, <2>1 DEF LastWord
<1>9. CASE UNCHANGED convVars
  <2>1. \A r \in Requests : at'[r] \in Asked => at[r] \in Asked \/ AskTurn(r)
    <3>1. ASSUME NEW q \in Requests, Step(q) \/ Raise(q) \/ Tick(q) \/ Arrive(q)
          PROVE  \A r \in Requests : at'[r] \in Asked => at[r] \in Asked \/ AskTurn(r)
      <4>1. CASE Arrive(q) \/ Raise(q) \/ Tick(q) \/ Begin(q) \/ Unlock(q) \/ Leave(q)
        BY <1>1, <4>1 DEF Arrive, Raise, Raises, Tick, Begin, Unlock, Leave, GoTo, Asked, TypeOK
      <4>2. CASE AskTurn(q) \/ Route(q) \/ Targets(q) \/ Send(q) \/ Collect(q) \/ Reuse(q)
                 \/ Synthesize(q) \/ Stream(q) \/ Fail(q) \/ AnswerTurn(q)
        <5>1. at[q] \in Asked \/ AskTurn(q) \/ (at[q] = "fail" /\ GoTo(q, "unlock"))
          BY <4>2 DEF Route, Targets, Send, Collect, Reuse, Synthesize, Stream, Fail,
                      AnswerTurn, Asked
        <5>2. \A r \in Requests \ {q} : at'[r] = at[r]
          BY <1>1, <4>2 DEF AskTurn, Route, Targets, Send, Collect, Reuse, Synthesize, Stream,
                            Fail, AnswerTurn, GoTo, TypeOK
        <5>3. CASE at[q] = "fail" /\ GoTo(q, "unlock")
          BY <1>1, <5>2, <5>3 DEF GoTo, Asked, TypeOK
        <5> QED
          BY <5>1, <5>2, <5>3
      <4> QED
        BY <3>1, <4>1, <4>2 DEF Step
    <3>2. CASE ~\E q \in Requests : Step(q) \/ Raise(q) \/ Tick(q) \/ Arrive(q)
      <4>1. at' = at
        BY <3>2 DEF Next, Delete, Clear, Answered, LoadOrUnload, PutConfig, StopReading,
      WriteReturns, vars
      <4> QED
        BY <4>1
    <3> QED
      BY <3>1, <3>2
  <2>2. CASE \E r \in Requests : AskTurn(r)
    BY <1>6, <2>2
  <2>3. CASE ~\E r \in Requests : AskTurn(r)
    BY <1>1, <1>9, <2>1, <2>3 DEF LastWord, convVars, Kept
  <2> QED
    BY <2>2, <2>3
<1> QED
  BY <1>6, <1>7, <1>8, <1>9, ConvSteps

\* A step of the fan-out of one request, and of the board.
LEMMA PromptStep == ASSUME OapiInv, [Next]_vars PROVE Prompts'
<1>1. TypeOK /\ Prompts /\ None \notin Eps
  BY NoneAssumption DEF OapiInv
<1>2. \A t \in pending : t[1] \in Requests /\ t[3] \in Eps
  BY <1>1 DEF TypeOK, Tasks
<1>3. \A q \in Requests : fan[q] \in Fan
  BY <1>1 DEF TypeOK
\* A request goes on without a prompt, and no new fan-out begins.
<1>4. ASSUME NEW r \in Requests, UNCHANGED <<fan, pending>>,
             NEW s, GoTo(r, s), s \in Early => at[r] \in Early, s \notin {"send", "collect"}
      PROVE  Prompts'
  BY <1>1, <1>2, <1>4 DEF Prompts, GoTo, TypeOK
<1>5. ASSUME NEW r \in Requests, Arrive(r) \/ Raise(r) \/ Begin(r) \/ AskTurn(r) PROVE Prompts'
  <2>1. CASE Arrive(r)
    <3>1. at[r] \in Early /\ (GoTo(r, "refused") \/ GoTo(r, "queued")) /\ UNCHANGED <<fan, pending>>
      BY <2>1 DEF Arrive, Early
    <3> QED
      BY <1>4, <3>1
  <2>2. CASE Raise(r)
    BY <1>4, <2>2 DEF Raise, Early
  <2>3. CASE Begin(r)
    BY <1>4, <2>3 DEF Begin, Early
  <2>4. CASE AskTurn(r)
    BY <1>4, <2>4 DEF AskTurn, Early
  <2> QED
    BY <1>5, <2>1, <2>2, <2>3, <2>4
<1>6. ASSUME NEW r \in Requests,
             Synthesize(r) \/ Stream(r) \/ Fail(r) \/ AnswerTurn(r) \/ Leave(r)
      PROVE  Prompts'
  <2>1. /\ UNCHANGED <<fan, pending>>
        /\ \E s \in {"stream", "answer", "fail", "unlock", "gone"} : GoTo(r, s)
    BY <1>6 DEF Synthesize, Stream, Fail, AnswerTurn, Leave
  <2> QED
    BY <1>4, <2>1 DEF Early
<1>7. ASSUME NEW r \in Requests, Unlock(r) PROVE Prompts'
  <2>1. /\ fan' = [fan EXCEPT ![r] = NoFan] /\ at' = [at EXCEPT ![r] = "leave"]
        /\ pending' = pending
    BY <1>7 DEF Unlock, GoTo
  <2>2. NoFan.sr = None
    BY DEF NoFan
  <2> QED
    BY <1>1, <1>2, <2>1, <2>2 DEF Prompts, TypeOK, Early
<1>8. ASSUME NEW r \in Requests, Route(r) PROVE Prompts'
  <2>1. at[r] \in Early /\ pending' = pending
    BY <1>8 DEF Route, Early
  <2>2. CASE GoTo(r, "fail") /\ fan' = fan
    BY <1>4, <2>1, <2>2 DEF Early
  <2>3. ASSUME NEW e \in Candidates, fan' = [fan EXCEPT ![r].sr = e],
               NEW s \in {"targets", "stream"}, GoTo(r, s)
        PROVE  Prompts'
    <3>1. /\ \A q \in Requests \ {r} : fan'[q] = fan[q] /\ at'[q] = at[q]
          /\ fan'[r].round = fan[r].round /\ fan'[r].waiting = fan[r].waiting
          /\ at'[r] = s
      BY <1>1, <1>3, <2>3 DEF TypeOK, GoTo, Fan
    <3> QED
      BY <1>1, <1>2, <2>1, <3>1 DEF Prompts
  <2> QED
    BY <1>8, <2>2, <2>3 DEF Route
<1>9. ASSUME NEW r \in Requests, Targets(r) PROVE Prompts'
  <2>1. /\ at[r] \in Early /\ pending' = pending
        /\ fan[r].round = 0 /\ fan[r].waiting = {} /\ \A t \in pending : t[1] # r
    BY <1>1, <1>9 DEF Targets, Early, Prompts
  <2>2. CASE GoTo(r, "fail") /\ fan' = fan
    BY <1>4, <2>1, <2>2 DEF Early
  <2>3. ASSUME NewRound(r, ready \ {fan[r].sr}), NEW s \in {"stream", "send"}, GoTo(r, s)
        PROVE  Prompts'
    <3>1. /\ \A q \in Requests \ {r} : fan'[q] = fan[q] /\ at'[q] = at[q]
          /\ fan'[r].round = 1 /\ fan'[r].waiting = {} /\ fan'[r].sr = fan[r].sr
          /\ fan'[r].targets = ready \ {fan[r].sr} /\ fan'[r].left = ready \ {fan[r].sr}
          /\ at'[r] = s
      BY <1>1, <1>3, <2>1, <2>3 DEF TypeOK, GoTo, Fan, NewRound
    <3> QED
      BY <1>1, <1>2, <2>1, <3>1 DEF Prompts, Early
  <2> QED
    BY <1>9, <2>2, <2>3 DEF Targets
<1>10. ASSUME NEW r \in Requests, Send(r) PROVE Prompts'
  <2>1. PICK e \in fan[r].left :
          LET t == <<r, fan[r].round, e>> IN
          /\ pending' = pending \cup {t}
          /\ fan' = [fan EXCEPT ![r].left = @ \ {e}, ![r].waiting = @ \cup {t}]
    BY <1>10 DEF Send
  <2> DEFINE t == <<r, fan[r].round, e>>
  <2>2. at[r] = "send" /\ \E s \in {"send", "collect"} : GoTo(r, s)
    BY <1>10 DEF Send
  <2>3. /\ fan[r].round >= 1 /\ fan[r].sr \notin fan[r].targets /\ fan[r].left \subseteq fan[r].targets
        /\ \A u \in pending : u[1] = r => u \in fan[r].waiting
        /\ \A u \in fan[r].waiting :
             u[1] = r /\ u[2] = fan[r].round /\ u[3] \in fan[r].targets \ fan[r].left
    BY <1>1, <2>2 DEF Prompts
  <2>4. t[1] = r /\ t[2] = fan[r].round /\ t[3] = e
    OBVIOUS
  <2>5. pending' = pending \cup {t}
    BY <2>1
  <2> HIDE DEF t
  <2>6. /\ \A q \in Requests \ {r} : fan'[q] = fan[q] /\ at'[q] = at[q]
        /\ fan'[r].round = fan[r].round /\ fan'[r].sr = fan[r].sr
        /\ fan'[r].targets = fan[r].targets /\ fan'[r].left = fan[r].left \ {e}
        /\ fan'[r].waiting = fan[r].waiting \cup {t}
        /\ at'[r] \in {"send", "collect"}
    BY <1>1, <1>3, <2>1, <2>2 DEF TypeOK, GoTo, Fan, t
  <2>7. \A q \in Requests : at'[q] \in Early => q # r /\ at[q] \in Early
    BY <2>6 DEF Early
  <2>8. \A q \in Requests : at'[q] \in Early =>
          fan'[q].round = 0 /\ fan'[q].waiting = {} /\ \A u \in pending' : u[1] # q
    BY <1>1, <2>4, <2>5, <2>6, <2>7 DEF Prompts
  <2>9. \A q \in Requests \ {r} : at'[q] \in {"send", "collect"} =>
          /\ fan'[q].round >= 1 /\ fan'[q].sr \notin fan'[q].targets
          /\ fan'[q].left \subseteq fan'[q].targets
          /\ \A u \in pending' : u[1] = q => u \in fan'[q].waiting
          /\ \A u \in fan'[q].waiting :
               u[1] = q /\ u[2] = fan'[q].round /\ u[3] \in fan'[q].targets \ fan'[q].left
    BY <1>1, <2>4, <2>5, <2>6 DEF Prompts
  <2>10. /\ fan'[r].round >= 1 /\ fan'[r].sr \notin fan'[r].targets
         /\ fan'[r].left \subseteq fan'[r].targets
         /\ \A u \in pending' : u[1] = r => u \in fan'[r].waiting
         /\ \A u \in fan'[r].waiting :
              u[1] = r /\ u[2] = fan'[r].round /\ u[3] \in fan'[r].targets \ fan'[r].left
    BY <2>3, <2>4, <2>5, <2>6
  <2>11. \A u \in pending : u[1] = r => u[3] # e
    BY <2>3
  <2>12. \A u, v \in pending' : u[1] = v[1] /\ u[3] = v[3] => u = v
    BY <1>1, <2>4, <2>5, <2>11 DEF Prompts
  <2>13. \A u \in pending' : u[3] # fan'[u[1]].sr
    <3>1. t[3] # fan'[t[1]].sr
      BY <2>3, <2>4, <2>6
    <3>2. \A u \in pending : fan'[u[1]].sr = fan[u[1]].sr
      BY <1>2, <2>6
    <3> QED
      BY <1>1, <2>5, <3>1, <3>2 DEF Prompts
  <2> QED
    BY <2>8, <2>9, <2>10, <2>12, <2>13 DEF Prompts
<1>11. ASSUME NEW r \in Requests, Collect(r) PROVE Prompts'
  <2>1. PICK t \in fan[r].waiting \ pending :
          fan' = [fan EXCEPT ![r].waiting = @ \ {t}]
    BY <1>11 DEF Collect
  <2>2. at[r] = "collect" /\ at' = at /\ pending' = pending
    BY <1>11 DEF Collect
  <2>3. /\ \A q \in Requests \ {r} : fan'[q] = fan[q]
        /\ fan'[r].round = fan[r].round /\ fan'[r].sr = fan[r].sr
        /\ fan'[r].targets = fan[r].targets /\ fan'[r].left = fan[r].left
        /\ fan'[r].waiting = fan[r].waiting \ {t}
    BY <1>1, <1>3, <2>1 DEF TypeOK, Fan
  <2> QED
    BY <1>1, <1>2, <2>2, <2>3 DEF Prompts, Early
<1>12. ASSUME NEW r \in Requests, Tick(r) PROVE Prompts'
  <2>1. at' = at /\ pending' = pending
    BY <1>12 DEF Tick
  <2>2. \A q \in Requests :
          /\ fan'[q].round = fan[q].round /\ fan'[q].sr = fan[q].sr
          /\ fan'[q].targets = fan[q].targets /\ fan'[q].left = fan[q].left
          /\ fan'[q].waiting = fan[q].waiting
    BY <1>1, <1>3, <1>12 DEF Tick, TypeOK, Fan
  <2> QED
    BY <1>1, <1>2, <2>1, <2>2 DEF Prompts
<1>13. ASSUME NEW r \in Requests, Reuse(r) PROVE Prompts'
  <2>1. /\ at[r] = "collect" /\ fan[r].waiting = {} /\ pending' = pending
        /\ NewRound(r, fan[r].targets) /\ GoTo(r, "send")
    BY <1>13 DEF Reuse
  <2>2. fan[r].round >= 1 /\ fan[r].sr \notin fan[r].targets /\ \A t \in pending : t[1] # r
    BY <1>1, <2>1 DEF Prompts
  <2>3. /\ \A q \in Requests \ {r} : fan'[q] = fan[q] /\ at'[q] = at[q]
        /\ fan'[r].round = fan[r].round + 1 /\ fan'[r].waiting = {} /\ fan'[r].sr = fan[r].sr
        /\ fan'[r].targets = fan[r].targets /\ fan'[r].left = fan[r].targets
        /\ at'[r] = "send"
    BY <1>1, <1>3, <2>1 DEF TypeOK, GoTo, Fan, NewRound
  <2>4. fan[r].round + 1 >= 1
    BY <1>3, <2>2 DEF Fan
  <2> QED
    BY <1>1, <1>2, <2>1, <2>2, <2>3, <2>4 DEF Prompts, Early
<1>14. ASSUME NEW t \in Tasks, Answered(t) PROVE Prompts'
  <2>1. pending' = pending \ {t} /\ at' = at /\ fan' = fan
    BY <1>14 DEF Answered
  <2> QED
    BY <1>1, <2>1 DEF Prompts
<1>15. CASE \/ \E c \in Convs : Delete(c)
            \/ Clear
            \/ \E e \in Eps : LoadOrUnload(e)
            \/ PutConfig
            \/ (\E q \in Requests : StopReading(q)) \/ WriteReturns
            \/ UNCHANGED vars
  <2>1. pending' = pending /\ at' = at /\ fan' = fan
    BY <1>15 DEF Delete, Clear, LoadOrUnload, PutConfig, StopReading,
      WriteReturns, vars
  <2> QED
    BY <1>1, <2>1 DEF Prompts
<1> QED
  BY <1>5, <1>6, <1>7, <1>8, <1>9, <1>10, <1>11, <1>12, <1>13, <1>14, <1>15 DEF Next, Step

\* Nothing but these steps touches the prompts, and they keep their types; the number of a
\* round stays within the bound because a fan-out starts at none.
LEMMA FanTypeStep ==
  ASSUME OapiInv, [Next]_vars
  PROVE  fan' \in [Requests -> Fan] /\ pending' \subseteq Tasks
<1>1. TypeOK /\ Prompts /\ None \notin Eps /\ Local \subseteq Eps /\ MaxRounds \in Nat \ {0}
  BY NoneAssumption, BoundsAssumption DEF OapiInv
<1>2. /\ fan \in [Requests -> Fan] /\ pending \subseteq Tasks /\ ready \subseteq Eps
      /\ \A q \in Requests : fan[q] \in Fan
  BY <1>1 DEF TypeOK
<1>3. CASE UNCHANGED <<fan, pending>>
  BY <1>2, <1>3
<1>4. ASSUME NEW r \in Requests, NEW g \in Fan, fan' = [fan EXCEPT ![r] = g], pending' = pending
      PROVE  fan' \in [Requests -> Fan] /\ pending' \subseteq Tasks
  BY <1>2, <1>4
<1>5. ASSUME NEW r \in Requests, Unlock(r)
      PROVE  fan' \in [Requests -> Fan] /\ pending' \subseteq Tasks
  <2>1. NoFan \in Fan
    BY <1>1 DEF NoFan, Fan
  <2> QED
    BY <1>4, <1>5, <2>1 DEF Unlock
<1>6. ASSUME NEW r \in Requests, Route(r)
      PROVE  fan' \in [Requests -> Fan] /\ pending' \subseteq Tasks
  <2>1. ASSUME NEW e \in Candidates, fan' = [fan EXCEPT ![r].sr = e], pending' = pending
        PROVE  fan' \in [Requests -> Fan] /\ pending' \subseteq Tasks
    <3>1. e \in Eps
      BY <1>1, <2>1 DEF Candidates
    <3>2. [fan[r] EXCEPT !.sr = e] \in Fan
      BY <1>2, <3>1 DEF Fan
    <3> QED
      BY <1>4, <2>1, <3>2
  <2> QED
    BY <1>3, <1>6, <2>1 DEF Route
<1>7. ASSUME NEW r \in Requests, NEW T \in SUBSET Eps, NewRound(r, T),
             fan[r].round < MaxRounds, pending' = pending
      PROVE  fan' \in [Requests -> Fan] /\ pending' \subseteq Tasks
  <2> DEFINE g == [fan[r] EXCEPT !.sent = TRUE, !.targets = T, !.left = T, !.round = @ + 1]
  <2>1. fan' = [fan EXCEPT ![r] = g]
    BY <1>2, <1>7 DEF NewRound, Fan
  <2>2. fan[r] \in Fan /\ fan[r].round + 1 \in 0..MaxRounds
    BY <1>1, <1>2, <1>7 DEF Fan
  <2>3. /\ g.sr = fan[r].sr /\ g.sent = TRUE /\ g.targets = T /\ g.left = T
        /\ g.round = fan[r].round + 1 /\ g.waiting = fan[r].waiting /\ g.time = fan[r].time
    BY <2>2 DEF Fan
  <2>4. g \in Fan
    BY <2>2, <2>3 DEF Fan
  <2> HIDE DEF g
  <2> QED
    BY <1>4, <1>7, <2>1, <2>4
<1>8. ASSUME NEW r \in Requests, Targets(r)
      PROVE  fan' \in [Requests -> Fan] /\ pending' \subseteq Tasks
  <2>1. fan[r].round = 0
    BY <1>1, <1>8 DEF Targets, Prompts, Early
  <2> QED
    BY <1>1, <1>2, <1>3, <1>7, <1>8, <2>1 DEF Targets
<1>9. ASSUME NEW r \in Requests, Reuse(r)
      PROVE  fan' \in [Requests -> Fan] /\ pending' \subseteq Tasks
  <2>1. fan[r].targets \in SUBSET Eps
    BY <1>2 DEF Fan
  <2> QED
    BY <1>7, <1>9, <2>1 DEF Reuse
<1>10. ASSUME NEW r \in Requests, Send(r)
       PROVE  fan' \in [Requests -> Fan] /\ pending' \subseteq Tasks
  <2>1. PICK e \in fan[r].left :
          LET t == <<r, fan[r].round, e>> IN
          /\ pending' = pending \cup {t}
          /\ fan' = [fan EXCEPT ![r].left = @ \ {e}, ![r].waiting = @ \cup {t}]
    BY <1>10 DEF Send
  <2> DEFINE t == <<r, fan[r].round, e>>
             g == [fan[r] EXCEPT !.left = @ \ {e}, !.waiting = @ \cup {t}]
  <2>2. fan[r].round >= 1
    BY <1>1, <1>10 DEF Send, Prompts
  <2>3. e \in Eps /\ fan[r].round \in 1..MaxRounds
    BY <1>1, <1>2, <2>2 DEF Fan
  <2>4. t \in Tasks
    BY <2>3 DEF Tasks
  <2>5. pending' = pending \cup {t} /\ fan' = [fan EXCEPT ![r] = g]
    BY <1>2, <2>1 DEF Fan
  <2> HIDE DEF t
  <2>6. g \in Fan
    BY <1>2, <2>4 DEF Fan
  <2> HIDE DEF g
  <2> QED
    BY <1>2, <2>4, <2>5, <2>6
<1>11. ASSUME NEW r \in Requests, Collect(r)
       PROVE  fan' \in [Requests -> Fan] /\ pending' \subseteq Tasks
  <2>1. PICK t \in fan[r].waiting \ pending : fan' = [fan EXCEPT ![r].waiting = @ \ {t}]
    BY <1>11 DEF Collect
  <2>2. [fan[r] EXCEPT !.waiting = @ \ {t}] \in Fan
    BY <1>2 DEF Fan
  <2> QED
    BY <1>4, <1>11, <2>1, <2>2 DEF Collect
<1>12. ASSUME NEW r \in Requests, Tick(r)
       PROVE  fan' \in [Requests -> Fan] /\ pending' \subseteq Tasks
  <2> DEFINE g == [fan[r] EXCEPT !.time = IF @ = "early" THEN "short" ELSE "over"]
  <2>1. g \in Fan
    BY <1>2 DEF Fan
  <2>2. fan' = [fan EXCEPT ![r] = g] /\ pending' = pending
    BY <1>12 DEF Tick
  <2> QED
    BY <1>4, <2>1, <2>2
<1>13. ASSUME NEW t \in Tasks, Answered(t)
       PROVE  fan' \in [Requests -> Fan] /\ pending' \subseteq Tasks
  BY <1>2, <1>13 DEF Answered
<1>14. ASSUME NEW r \in Requests,
              \/ Arrive(r) \/ Raise(r) \/ Begin(r) \/ AskTurn(r) \/ Synthesize(r) \/ Stream(r)
              \/ Fail(r) \/ AnswerTurn(r) \/ Leave(r)
       PROVE  UNCHANGED <<fan, pending>>
  BY <1>14 DEF Arrive, Raise, Begin, AskTurn, Synthesize, Stream, Fail, AnswerTurn, Leave
<1>15. ASSUME \/ \E c \in Convs : Delete(c)
              \/ Clear
              \/ \E e \in Eps : LoadOrUnload(e)
              \/ PutConfig
              \/ (\E q \in Requests : StopReading(q)) \/ WriteReturns
              \/ UNCHANGED vars
       PROVE  UNCHANGED <<fan, pending>>
  BY <1>15 DEF Delete, Clear, LoadOrUnload, PutConfig, StopReading,
      WriteReturns, vars
<1> QED
  BY <1>3, <1>5, <1>6, <1>8, <1>9, <1>10, <1>11, <1>12, <1>13, <1>14, <1>15 DEF Next, Step

\* The conversations keep their types, and the list its form.
LEMMA ConvTypeStep ==
  ASSUME OapiInv, [Next]_vars
  PROVE  /\ Listed(order, turns)' /\ Kept' \subseteq Convs
         /\ turns' \in [Kept' -> Seq(TurnRecord)]
<1>1. TypeOK /\ Listed(order, turns) /\ Kept \subseteq Convs /\ turns \in [Kept -> Seq(TurnRecord)]
  BY DEF OapiInv, TypeOK, TurnRecord
<1>2. \A r \in Requests : ConvOf[r] \in Convs
  BY RequestsAssumption
<1>3. ASSUME Listed(order, turns)' PROVE Kept' \subseteq Convs
  BY <1>3 DEF Listed, Kept, Range
<1>4. CASE UNCHANGED convVars
  BY <1>1, <1>4 DEF convVars, Listed, Kept
<1>5. ASSUME NEW r \in Requests, Begin(r)
      PROVE  Listed(order, turns)' /\ turns' \in [Kept' -> Seq(TurnRecord)]
  BY <1>1, <1>2, <1>5, CreateKeeps DEF Begin
<1>6. ASSUME NEW r \in Requests, NEW u \in TurnRecord, AddTurn(ConvOf[r], u),
             u.role = "assistant" => AnswerTurn(r) /\ u = Turn(r, "assistant")
      PROVE  Listed(order, turns)' /\ turns' \in [Kept' -> Seq(TurnRecord)]
  <2> DEFINE c == ConvOf[r]
  <2>1. /\ Listed(order, turns)' /\ Kept' = Kept
        /\ c \in Kept => turns'[c] = LastTurns(Append(turns[c], u), MaxTurns)
        /\ \A d \in Kept \ {c} : turns'[d] = turns[d]
    BY <1>1, <1>2, <1>6, AddKeeps
  <2>2. c \in Kept => LastTurns(Append(turns[c], u), MaxTurns) \in Seq(TurnRecord)
    <3>1. c \in Kept => turns[c] \in Seq(TurnRecord) /\ Follows(turns[c])
      BY <1>1 DEF OapiInv, AnswersFollow, Follows
    <3>2. c \in Kept /\ u.role = "assistant"
          => turns[c] # <<>> /\ turns[c][Len(turns[c])] = Turn(u.req, "user")
      BY <1>6 DEF OapiInv, LastWord, AnswerTurn, Asked, Turn
    <3> QED
      BY <3>1, <3>2, Added
  <2>3. turns' = [d \in Kept' |-> turns'[d]]
    BY <1>1, <1>6, <2>1 DEF AddTurn, Kept
  <2> QED
    BY <1>1, <2>1, <2>2, <2>3
<1>7. ASSUME NEW r \in Requests, AskTurn(r) \/ AnswerTurn(r)
      PROVE  Listed(order, turns)' /\ turns' \in [Kept' -> Seq(TurnRecord)]
  <2>1. \A role \in {"user", "assistant"} :
          Turn(r, role) \in TurnRecord /\ Turn(r, role).role = role
    BY DEF Turn, TurnRecord
  <2> QED
    BY <1>6, <1>7, <2>1 DEF AskTurn, AnswerTurn
<1>8. ASSUME (\E c \in Convs : Delete(c)) \/ Clear
      PROVE  Listed(order, turns)' /\ turns' \in [Kept' -> Seq(TurnRecord)]
  <2>1. Listed(order, turns)' /\ Kept' \subseteq Kept /\ \A d \in Kept' : turns'[d] = turns[d]
    BY <1>1, <1>8, DeleteKeeps
  <2>2. turns' = [d \in Kept' |-> turns'[d]]
    BY <1>8 DEF Delete, Clear, Only, Kept
  <2> QED
    BY <1>1, <2>1, <2>2
<1> QED
  BY <1>1, <1>3, <1>4, <1>5, <1>7, <1>8, ConvSteps

\* Every step keeps the types.
LEMMA TypeStep == ASSUME OapiInv, [Next]_vars PROVE TypeOK'
<1>1. TypeOK
  BY DEF OapiInv
<1>2. mode' \in Modes /\ manual' \in Eps \cup {None} /\ ready' \subseteq Eps /\ changes' \in Nat
  <2>1. CASE UNCHANGED confVars
    BY <1>1, <2>1 DEF TypeOK, confVars
  <2>2. CASE ~UNCHANGED confVars
    <3>1. \/ PutConfig
          \/ \E e \in Eps : LoadOrUnload(e)
          \/ Clear \/ \E c \in Convs : Delete(c)
          \/ \E r \in Requests : StopReading(r)
      BY <2>2 DEF WriteReturns, Next, vars, Arrive, Raise, Tick, Step, Begin, AskTurn, Route, Targets, Send,
                  Collect, Reuse, Synthesize, Stream, Fail, AnswerTurn, Unlock, Leave, Answered
    <3>2. changes' = changes + 1
      BY <3>1 DEF PutConfig, LoadOrUnload, Clear, Delete, StopReading, Change
    <3>3. CASE PutConfig
      BY <1>1, <3>2, <3>3 DEF TypeOK, PutConfig
    <3>4. CASE \E e \in Eps : LoadOrUnload(e)
      BY <1>1, <3>2, <3>4 DEF TypeOK, LoadOrUnload
    <3>5. CASE \/ Clear \/ \E c \in Convs : Delete(c)
               \/ \E r \in Requests : StopReading(r)
      <4>1. UNCHANGED <<mode, manual, ready>>
        BY <3>5 DEF Clear, Delete, StopReading
      <4> QED
        BY <1>1, <3>2, <4>1 DEF TypeOK
    <3> QED
      BY <3>1, <3>3, <3>4, <3>5
  <2> QED
    BY <2>1, <2>2
<1>3. active' \in Requests \cup {None} /\ blocked' \in BOOLEAN
  BY <1>1 DEF TypeOK, Next, vars, queueVars, Arrive, Raise, Tick, Step, Begin, AskTurn, Route,
              Targets, Send, Collect, Reuse, Synthesize, Stream, Fail, AnswerTurn, Unlock, Leave,
              Delete, Clear, Answered, LoadOrUnload, PutConfig, StopReading, WriteReturns
<1>4. at' \in [Requests -> Inside \cup {"out", "refused", "gone"}]
  <2>1. \/ at' = at
        \/ \E r \in Requests, s \in Inside \cup {"refused", "gone"} : GoTo(r, s)
    BY DEF Next, vars, Arrive, Raise, Tick, Step, Begin, AskTurn, Route, Targets, Send, Collect,
           Reuse, Synthesize, Stream, Fail, AnswerTurn, Unlock, Leave, Delete, Clear, Answered,
           LoadOrUnload, PutConfig, StopReading, WriteReturns, Inside, Held
  <2> QED
    BY <1>1, <2>1 DEF TypeOK, GoTo
<1>5. /\ Kept' \subseteq Convs /\ order' \in Seq(Convs)
      /\ turns' \in [Kept' -> Seq([req : Requests, role : {"user", "assistant"}])]
  BY ConvTypeStep DEF Listed, TurnRecord
<1>6. depth' \in Nat /\ fan' \in [Requests -> Fan] /\ pending' \subseteq Tasks
  BY QueueStep, FanTypeStep
<1> QED
  BY <1>2, <1>3, <1>4, <1>5, <1>6 DEF TypeOK

\* The invariant holds always.
THEOREM OapiInvariant == Spec => []OapiInv
<1>1. OapiInv /\ [Next]_vars => OapiInv'
  BY TypeStep, QueueStep, ConvTypeStep, ExclusiveStep, AnswerStep, LastWordStep, PromptStep
     DEF OapiInv
<1> QED
  BY OapiStarts, <1>1, PTL DEF Spec

----------------------------------------------------------------------------
(* The theorems.                                                            *)

\* Every variable has its type: in particular no fan-out runs more rounds than it may.
THEOREM OapiTypes == Spec => []TypeOK
<1>1. OapiInv => TypeOK
  BY DEF OapiInv
<1> QED
  BY OapiInvariant, <1>1, PTL

\* _queue_depth is the number of requests in the queue and at most _MAX_QUEUE, whatever
\* path a request takes out, raised exceptions included.
THEOREM QueueKeepsCount == Spec => []QueueCounts
<1>1. OapiInv => QueueCounts
  BY DEF OapiInv
<1> QED
  BY OapiInvariant, <1>1, PTL

\* _conv_order lists the conversations of _conversations, each once, at most
\* _MAX_CONVERSATIONS of them.
THEOREM OrderKeepsStep == Spec => []OrderMatches
<1>1. OapiInv => OrderMatches
  <2> SUFFICES ASSUME OapiInv PROVE OrderMatches
    OBVIOUS
  <2>1. order \in Seq(Convs) /\ IsInjective(order) /\ Kept = Range(order) /\ Len(order) <= MaxConvs
    BY DEF OapiInv, Listed, Kept
  <2>2. Cardinality(Range(order)) = Len(order)
    BY <2>1, Distinct
  <2> QED
    BY <2>1, <2>2 DEF OrderMatches
<1> QED
  BY OapiInvariant, <1>1, PTL

\* An answer stands right after its question in every conversation, for the lock is held
\* from the one to the other and a conversation is created only under it.
THEOREM AnswersStayBehind == Spec => []AnswersFollow
<1>1. OapiInv => AnswersFollow
  BY DEF OapiInv
<1> QED
  BY OapiInvariant, <1>1, PTL

\* An endpoint has at most one unanswered prompt of a fan-out, and the one that is to
\* synthesize has none.
THEOREM OnePromptEach == Spec => []OneAtATime
<1>1. OapiInv => OneAtATime
  <2> SUFFICES ASSUME OapiInv, NEW r \in Requests, NEW e \in Eps
               PROVE  Cardinality({t \in pending : t[1] = r /\ t[3] = e})
                        <= IF e = fan[r].sr THEN 0 ELSE 1
    BY DEF OneAtATime
  <2> DEFINE P == {t \in pending : t[1] = r /\ t[3] = e}
  <2>1. /\ \A t, u \in pending : t[1] = u[1] /\ t[3] = u[3] => t = u
        /\ \A t \in pending : t[3] # fan[t[1]].sr
    BY DEF OapiInv, Prompts
  <2>2. CASE P = {}
    BY <2>2, FS_EmptySet
  <2>3. CASE P # {}
    <3>1. PICK t \in P : TRUE
      BY <2>3
    <3>2. P = {t} /\ e # fan[r].sr
      BY <2>1, <3>1
    <3> HIDE DEF P
    <3>3. Cardinality(P) = 1
      BY <3>2, FS_Singleton
    <3> QED
      BY <3>2, <3>3 DEF P
  <2> QED
    BY <2>2, <2>3
<1> QED
  BY OapiInvariant, <1>1, PTL

----------------------------------------------------------------------------
(* A request moves on: what Leaves rests on besides fairness.               *)

\* Steps of a round: a prompt to each endpoint, an answer of each, and its end.
Full == 2 * Cardinality(Eps) + 1
Rounds(n) == n * Full

\* The thinking time passes in two steps.
Ticks(t) == IF t = "early" THEN 2 ELSE IF t = "short" THEN 1 ELSE 0

\* How many steps a request has left at most, at a step s with the locals f.
InFan(f) ==
  5 + Rounds(MaxRounds - f.round) + 2 * Cardinality(f.left) + Cardinality(f.waiting) + Ticks(f.time)

StepsLeft(s, f) ==
  CASE s = "out"                -> 11 + Rounds(MaxRounds)
    [] s = "queued"             -> 10 + Rounds(MaxRounds)
    [] s = "ask"                -> 9 + Rounds(MaxRounds)
    [] s = "route"              -> 8 + Rounds(MaxRounds)
    [] s = "targets"            -> 7 + Rounds(MaxRounds)
    [] s \in {"send", "collect"} -> InFan(f)
    [] s = "stream"             -> 4
    [] s \in {"answer", "fail"} -> 3
    [] s = "unlock"             -> 2
    [] s = "leave"              -> 1
    [] OTHER                    -> 0

Left(r) == StepsLeft(at[r], fan[r])

\* Whatever happens, no request gets farther from its end, and each step of its own, of
\* its thinking time or of its client brings it nearer.
RequestsMoveOn ==
  \A r \in Requests :
    /\ Left(r) \in Nat
    /\ Left(r)' <= Left(r)
    /\ Arrive(r) \/ Step(r) \/ Raise(r) \/ Tick(r) => Left(r)' < Left(r)

\* A request at a step with nothing to wait for but its thinking time.
CanGoOn(r) == \/ at[r] \in {"ask", "route", "targets", "stream", "fail", "answer", "unlock"}
              \/ at[r] = "send" /\ fan[r].left # {}
              \/ at[r] = "collect"

\* A queued request waits for nobody, or for one that can go on, or for the client of one
\* that writes to it.
QueueMoves ==
  \A r \in Requests : at[r] = "queued" =>
    \/ active = None
    \/ ~blocked /\ CanGoOn(active)
    \/ blocked /\ at[active] \in Writes

\* Only a request that is at a write keeps the others waiting for its client.
WriteInv == blocked => \E r \in Requests : active = r /\ at[r] \in Writes

\* A round is about some endpoints, and it is sent until none is left.
RoundInv ==
  \A r \in Requests :
    /\ at[r] \in {"send", "collect"} => fan[r].targets # {}
    /\ at[r] = "send" => fan[r].left # {}

LEMMA RoundsLeft ==
  /\ Full \in Nat /\ Full = 2 * Cardinality(Eps) + 1 /\ Cardinality(Eps) \in Nat
  /\ \A n \in Nat : Rounds(n) \in Nat /\ Rounds(n + 1) = Rounds(n) + Full
<1>1. Cardinality(Eps) \in Nat
  BY EndpointsAssumption, FS_CardinalityType
<1>2. Full \in Nat /\ Full = 2 * Cardinality(Eps) + 1
  BY <1>1 DEF Full
<1> HIDE DEF Full
<1>3. \A n \in Nat : n * Full \in Nat /\ (n + 1) * Full = n * Full + Full
  BY <1>2
<1> QED
  BY <1>1, <1>2, <1>3 DEF Rounds

\* A round has as many endpoints to go as there are at most, and as many to wait for.
LEMMA FanFinite ==
  ASSUME OapiInv, NEW r \in Requests
  PROVE  /\ fan[r] \in Fan /\ fan[r].left \subseteq Eps /\ fan[r].targets \subseteq Eps
         /\ fan[r].round \in 0..MaxRounds /\ Ticks(fan[r].time) \in 0..2
         /\ at[r] \in {"send", "collect"} =>
              /\ IsFiniteSet(fan[r].left) /\ Cardinality(fan[r].left) \in Nat
              /\ IsFiniteSet(fan[r].waiting) /\ Cardinality(fan[r].waiting) \in Nat
<1>1. fan[r] \in Fan
  BY DEF OapiInv, TypeOK
<1>2. /\ fan[r].left \subseteq Eps /\ fan[r].targets \subseteq Eps
      /\ fan[r].round \in 0..MaxRounds /\ fan[r].time \in {"early", "short", "over"}
  BY <1>1 DEF Fan
<1>3. IsFiniteSet(fan[r].left) /\ Cardinality(fan[r].left) \in Nat
  BY <1>2, EndpointsAssumption, FS_Subset, FS_CardinalityType
<1>4. ASSUME at[r] \in {"send", "collect"}
      PROVE  IsFiniteSet(fan[r].waiting) /\ Cardinality(fan[r].waiting) \in Nat
  <2> DEFINE W == fan[r].waiting
             end == [t \in W |-> t[3]]
  <2>1. W \subseteq Tasks /\ \A t \in W : t[1] = r /\ t[2] = fan[r].round
    BY <1>1, <1>4 DEF OapiInv, Prompts, Fan
  <2>2. \A t \in W : t[3] \in Eps
    BY <2>1 DEF Tasks
  <2>3. ASSUME NEW t \in W, NEW u \in W, t[3] = u[3] PROVE t = u
    <3>1. t \in Tasks /\ u \in Tasks /\ t[1] = u[1] /\ t[2] = u[2]
      BY <2>1
    <3> QED
      BY <2>3, <3>1 DEF Tasks
  <2> HIDE DEF W
  <2>4. end \in Injection(W, Eps)
    BY <2>2, <2>3 DEF Injection, IsInjective
  <2> HIDE DEF end
  <2>5. IsFiniteSet(W)
    BY <2>4, EndpointsAssumption, FS_Injection
  <2> QED
    BY <2>5, FS_CardinalityType DEF W
<1> QED
  BY <1>1, <1>2, <1>3, <1>4 DEF Ticks

\* A request always has a natural number of steps left.
LEMMA LeftType == ASSUME OapiInv, NEW r \in Requests PROVE Left(r) \in Nat
<1>1. Rounds(MaxRounds) \in Nat
  BY RoundsLeft, BoundsAssumption
<1>2. ASSUME at[r] \in {"send", "collect"} PROVE InFan(fan[r]) \in Nat
  <2>1. /\ fan[r].round \in 0..MaxRounds /\ Ticks(fan[r].time) \in 0..2
        /\ Cardinality(fan[r].left) \in Nat /\ Cardinality(fan[r].waiting) \in Nat
    BY <1>2, FanFinite
  <2>2. MaxRounds - fan[r].round \in Nat
    BY <2>1, BoundsAssumption
  <2>3. Rounds(MaxRounds - fan[r].round) \in Nat
    BY <2>2, RoundsLeft
  <2> QED
    BY <2>1, <2>3 DEF InFan
<1> QED
  BY <1>1, <1>2 DEF Left, StepsLeft

\* A step of a request, of its thinking time or of its client brings it nearer to its end.
LEMMA OwnStep ==
  ASSUME OapiInv, NEW r \in Requests, Arrive(r) \/ Step(r) \/ Raise(r) \/ Tick(r)
  PROVE  Left(r)' \in Nat /\ Left(r)' < Left(r)
<1> DEFINE f == fan[r]
           all == Rounds(MaxRounds)
<1>1. TypeOK /\ Prompts /\ MaxRounds \in Nat \ {0}
  BY BoundsAssumption DEF OapiInv
<1>2. /\ f \in Fan /\ f.left \subseteq Eps /\ f.targets \subseteq Eps
      /\ f.round \in 0..MaxRounds /\ Ticks(f.time) \in 0..2
      /\ at[r] \in {"send", "collect"} =>
           /\ IsFiniteSet(f.left) /\ Cardinality(f.left) \in Nat
           /\ IsFiniteSet(f.waiting) /\ Cardinality(f.waiting) \in Nat
  BY FanFinite
<1>3. all \in Nat /\ at \in [Requests -> Inside \cup {"out", "refused", "gone"}]
  BY <1>1, RoundsLeft DEF TypeOK
<1>4. Left(r)' = StepsLeft(at'[r], fan'[r]) /\ Left(r) = StepsLeft(at[r], f)
  BY DEF Left
<1>5. ASSUME at[r] \in {"send", "collect"}
      PROVE  /\ MaxRounds - f.round \in Nat /\ Rounds(MaxRounds - f.round) \in Nat
             /\ InFan(f) = 5 + Rounds(MaxRounds - f.round) + 2 * Cardinality(f.left)
                             + Cardinality(f.waiting) + Ticks(f.time)
             /\ InFan(f) \in Nat /\ InFan(f) >= 5
             /\ StepsLeft(at[r], f) = InFan(f)
  <2>1. MaxRounds - f.round \in Nat
    BY <1>1, <1>2
  <2>2. Rounds(MaxRounds - f.round) \in Nat
    BY <2>1, RoundsLeft
  <2>3. StepsLeft(at[r], f) = InFan(f)
    BY <1>5 DEF StepsLeft
  <2> HIDE DEF f
  <2> QED
    BY <1>2, <1>5, <2>1, <2>2, <2>3 DEF InFan
<1> HIDE DEF f, all
\* The steps outside the rounds.
<1>6. ASSUME NEW s, GoTo(r, s),
             \/ at[r] = "out" /\ s \in {"queued", "refused"}
             \/ at[r] = "queued" /\ s = "ask"
             \/ at[r] = "ask" /\ s \in {"route", "unlock"}
             \/ at[r] = "route" /\ s \in {"targets", "stream", "fail", "unlock"}
             \/ at[r] = "targets" /\ s \in {"stream", "fail", "unlock"}
             \/ at[r] = "stream" /\ s \in {"answer", "fail", "unlock"}
             \/ at[r] \in {"answer", "fail"} /\ s = "unlock"
             \/ at[r] = "unlock" /\ s = "leave"
             \/ at[r] = "leave" /\ s = "gone"
      PROVE  Left(r)' \in Nat /\ Left(r)' < Left(r)
  <2>1. at'[r] = s
    BY <1>3, <1>6 DEF GoTo
  <2> QED
    BY <1>3, <1>4, <1>6, <2>1 DEF StepsLeft, all
<1>7. CASE Arrive(r) \/ Begin(r) \/ AskTurn(r) \/ Route(r) \/ Stream(r) \/ Fail(r)
           \/ AnswerTurn(r) \/ Unlock(r) \/ Leave(r) \/ Raise(r)
  <2>1. CASE Arrive(r)
    BY <1>6, <2>1 DEF Arrive
  <2>2. CASE Begin(r) \/ AskTurn(r)
    BY <1>6, <2>2 DEF Begin, AskTurn
  <2>3. CASE Route(r)
    BY <1>6, <2>3 DEF Route
  <2>4. CASE Stream(r) \/ Fail(r) \/ AnswerTurn(r)
    BY <1>6, <2>4 DEF Stream, Fail, AnswerTurn
  <2>5. CASE Unlock(r) \/ Leave(r)
    BY <1>6, <2>5 DEF Unlock, Leave
  <2>6. CASE Raise(r) /\ at[r] \notin {"send", "collect"}
    BY <1>6, <2>6 DEF Raise, Raises
  <2>7. CASE Raise(r) /\ at[r] \in {"send", "collect"}
    <3>1. at'[r] = "unlock"
      BY <1>3, <2>7 DEF Raise, GoTo
    <3>2. StepsLeft(at'[r], fan'[r]) = 2
      BY <3>1 DEF StepsLeft
    <3> QED
      BY <1>4, <1>5, <2>7, <3>2
  <2> QED
    BY <1>7, <2>1, <2>2, <2>3, <2>4, <2>5, <2>6, <2>7
\* A round begins, the first or another one.
<1>8. ASSUME NEW T \in SUBSET Eps, NewRound(r, T), at'[r] = "send",
             f.round + 1 \in 0..MaxRounds, f.waiting = {}
      PROVE  Left(r)' \in Nat /\ Left(r)' < 7 + Rounds(MaxRounds - f.round)
  <2>1. /\ fan'[r].left = T /\ fan'[r].round = f.round + 1
        /\ fan'[r].waiting = {} /\ fan'[r].time = f.time
    BY <1>1, <1>2, <1>8 DEF NewRound, TypeOK, Fan, f
  <2>2. Cardinality(T) \in Nat /\ Cardinality(T) <= Cardinality(Eps)
    BY EndpointsAssumption, FS_Subset, FS_CardinalityType
  <2>3. MaxRounds - (f.round + 1) \in Nat /\ (MaxRounds - (f.round + 1)) + 1 = MaxRounds - f.round
    BY <1>1, <1>2, <1>8
  <2>4. /\ Rounds(MaxRounds - (f.round + 1)) \in Nat
        /\ Rounds(MaxRounds - f.round) = Rounds(MaxRounds - (f.round + 1)) + Full
        /\ Full = 2 * Cardinality(Eps) + 1 /\ Cardinality(Eps) \in Nat
    BY <2>3, RoundsLeft
  <2>5. Cardinality({}) = 0
    BY FS_EmptySet
  <2>6. Left(r)' = 5 + Rounds(MaxRounds - (f.round + 1)) + 2 * Cardinality(T) + 0 + Ticks(f.time)
    BY <1>4, <1>8, <2>1, <2>5 DEF StepsLeft, InFan
  <2> QED
    BY <1>2, <2>2, <2>4, <2>6
<1>9. CASE Targets(r)
  <2>1. at[r] = "targets" /\ f.round = 0 /\ f.waiting = {}
    BY <1>1, <1>9 DEF Targets, Prompts, Early, f
  <2>2. CASE GoTo(r, "fail") \/ GoTo(r, "stream")
    BY <1>6, <2>1, <2>2
  <2>3. CASE NewRound(r, ready \ {fan[r].sr}) /\ GoTo(r, "send")
    <3>1. ready \ {fan[r].sr} \in SUBSET Eps
      BY <1>1 DEF TypeOK
    <3>2. at'[r] = "send" /\ f.round + 1 \in 0..MaxRounds /\ MaxRounds - f.round = MaxRounds
      BY <1>1, <1>3, <2>1, <2>3 DEF GoTo
    <3>3. Left(r)' \in Nat /\ Left(r)' < 7 + Rounds(MaxRounds)
      BY <1>8, <2>1, <2>3, <3>1, <3>2
    <3>4. Left(r) = 7 + Rounds(MaxRounds)
      BY <1>4, <2>1 DEF StepsLeft
    <3> QED
      BY <3>3, <3>4
  <2> QED
    BY <1>9, <2>2, <2>3 DEF Targets
<1>10. CASE Reuse(r)
  <2>1. /\ at[r] = "collect" /\ f.time = "early" /\ f.round < MaxRounds /\ f.waiting = {}
        /\ NewRound(r, f.targets) /\ GoTo(r, "send")
    BY <1>10 DEF Reuse, f
  <2>2. at'[r] = "send" /\ f.round + 1 \in 0..MaxRounds
    BY <1>1, <1>2, <1>3, <2>1 DEF GoTo
  <2>3. Left(r)' \in Nat /\ Left(r)' < 7 + Rounds(MaxRounds - f.round)
    BY <1>2, <1>8, <2>1, <2>2
  <2>4. Ticks(f.time) = 2
    BY <2>1 DEF Ticks
  <2>5. Cardinality(f.left) \in Nat /\ Cardinality(f.waiting) \in Nat
    BY <1>2, <2>1
  <2>6. Left(r) >= 7 + Rounds(MaxRounds - f.round) /\ Left(r) \in Nat
    BY <1>4, <1>5, <2>1, <2>4, <2>5
  <2>7. Rounds(MaxRounds - f.round) \in Nat
    BY <1>5, <2>1
  <2> QED
    BY <2>3, <2>6, <2>7
<1>11. CASE Send(r)
  <2>1. PICK e \in f.left :
          LET t == <<r, f.round, e>> IN
          /\ fan' = [fan EXCEPT ![r].left = @ \ {e}, ![r].waiting = @ \cup {t}]
          /\ GoTo(r, IF f.left = {e} THEN "collect" ELSE "send")
    BY <1>11 DEF Send, f
  <2> DEFINE t == <<r, f.round, e>>
  <2>2. at[r] = "send" /\ at'[r] \in {"send", "collect"}
    BY <1>3, <1>11, <2>1 DEF Send, GoTo
  <2>3. /\ fan'[r].left = f.left \ {e} /\ fan'[r].waiting = f.waiting \cup {t}
        /\ fan'[r].round = f.round /\ fan'[r].time = f.time
    BY <1>1, <1>2, <2>1 DEF TypeOK, Fan, f
  <2> HIDE DEF t
  <2>4. /\ Cardinality(f.left \ {e}) = Cardinality(f.left) - 1
        /\ Cardinality(f.waiting \cup {t}) \in {Cardinality(f.waiting), Cardinality(f.waiting) + 1}
    BY <1>2, <2>2, FS_RemoveElement, FS_AddElement
  <2>5. Left(r)' = 5 + Rounds(MaxRounds - f.round) + 2 * (Cardinality(f.left) - 1)
                     + Cardinality(f.waiting \cup {t}) + Ticks(f.time)
    BY <1>4, <2>2, <2>3, <2>4 DEF StepsLeft, InFan
  <2> QED
    BY <1>2, <1>4, <1>5, <2>2, <2>4, <2>5
<1>12. CASE Collect(r)
  <2>1. PICK t \in f.waiting : fan' = [fan EXCEPT ![r].waiting = @ \ {t}]
    BY <1>12 DEF Collect, f
  <2>2. at[r] = "collect" /\ at'[r] = "collect"
    BY <1>12 DEF Collect
  <2>3. /\ fan'[r].left = f.left /\ fan'[r].waiting = f.waiting \ {t}
        /\ fan'[r].round = f.round /\ fan'[r].time = f.time
    BY <1>1, <1>2, <2>1 DEF TypeOK, Fan, f
  <2>4. Cardinality(f.waiting \ {t}) = Cardinality(f.waiting) - 1
    BY <1>2, <2>1, <2>2, FS_RemoveElement
  <2>5. Left(r)' = 5 + Rounds(MaxRounds - f.round) + 2 * Cardinality(f.left)
                     + (Cardinality(f.waiting) - 1) + Ticks(f.time)
    BY <1>4, <2>2, <2>3, <2>4 DEF StepsLeft, InFan
  <2> QED
    BY <1>2, <1>4, <1>5, <2>2, <2>5
<1>13. CASE Tick(r)
  <2>1. /\ at[r] \in {"send", "collect"} /\ at' = at /\ f.time # "over"
        /\ fan' = [fan EXCEPT ![r].time = IF @ = "early" THEN "short" ELSE "over"]
    BY <1>13 DEF Tick, f
  <2>2. /\ fan'[r].left = f.left /\ fan'[r].waiting = f.waiting /\ fan'[r].round = f.round
        /\ fan'[r].time = IF f.time = "early" THEN "short" ELSE "over"
    BY <1>1, <1>2, <2>1 DEF TypeOK, Fan, f
  <2>3. f.time \in {"early", "short"}
    BY <1>2, <2>1 DEF Fan
  <2>4. Ticks(fan'[r].time) = Ticks(f.time) - 1
    BY <2>2, <2>3 DEF Ticks
  <2>5. Left(r)' = 5 + Rounds(MaxRounds - f.round) + 2 * Cardinality(f.left)
                     + Cardinality(f.waiting) + (Ticks(f.time) - 1)
    BY <1>4, <2>1, <2>2, <2>4 DEF StepsLeft, InFan
  <2> QED
    BY <1>2, <1>4, <1>5, <2>1, <2>5
<1>14. CASE Synthesize(r)
  <2>1. at[r] = "collect" /\ at'[r] = "stream"
    BY <1>3, <1>14 DEF Synthesize, GoTo
  <2>2. Left(r)' = 4
    BY <1>4, <2>1 DEF StepsLeft
  <2> QED
    BY <1>4, <1>5, <2>1, <2>2
<1> QED
  BY <1>7, <1>9, <1>10, <1>11, <1>12, <1>13, <1>14 DEF Step

\* A step of another request, of the board, the user or the cluster leaves it where it is.
LEMMA OthersStep ==
  ASSUME OapiInv, [Next]_vars, NEW r \in Requests, ~(Arrive(r) \/ Step(r) \/ Raise(r) \/ Tick(r))
  PROVE  at'[r] = at[r] /\ fan'[r] = fan[r]
<1>1. at \in [Requests -> Inside \cup {"out", "refused", "gone"}] /\ fan \in [Requests -> Fan]
  BY DEF OapiInv, TypeOK
<1>2. ASSUME NEW q \in Requests, q # r, Arrive(q) \/ Step(q) \/ Raise(q) \/ Tick(q)
      PROVE  at'[r] = at[r] /\ fan'[r] = fan[r]
  <2>1. CASE Arrive(q) \/ Raise(q) \/ Begin(q) \/ AskTurn(q) \/ AnswerTurn(q) \/ Leave(q) \/ Fail(q)
    BY <1>1, <1>2, <2>1 DEF Arrive, Raise, Begin, AskTurn, AnswerTurn, Leave, Fail, GoTo
  <2>2. CASE Route(q) \/ Unlock(q) \/ Tick(q) \/ Collect(q) \/ Synthesize(q) \/ Stream(q)
    BY <1>1, <1>2, <2>2 DEF Route, Unlock, Tick, Collect, Synthesize, Stream, GoTo
  <2>3. CASE Targets(q) \/ Reuse(q)
    BY <1>1, <1>2, <2>3 DEF Targets, Reuse, NewRound, GoTo
  <2>4. CASE Send(q)
    <3>1. PICK e \in fan[q].left :
            LET t == <<q, fan[q].round, e>> IN
            /\ fan' = [fan EXCEPT ![q].left = @ \ {e}, ![q].waiting = @ \cup {t}]
            /\ GoTo(q, IF fan[q].left = {e} THEN "collect" ELSE "send")
      BY <2>4 DEF Send
    <3> QED
      BY <1>1, <1>2, <3>1 DEF GoTo
  <2> QED
    BY <1>2, <2>1, <2>2, <2>3, <2>4 DEF Step
<1>3. ASSUME \/ \E c \in Convs : Delete(c)
             \/ Clear
             \/ \E t \in Tasks : Answered(t)
             \/ \E e \in Eps : LoadOrUnload(e)
             \/ PutConfig
             \/ (\E q \in Requests : StopReading(q)) \/ WriteReturns
             \/ UNCHANGED vars
      PROVE  UNCHANGED <<at, fan>>
  BY <1>3 DEF Delete, Clear, Answered, LoadOrUnload, PutConfig, StopReading,
      WriteReturns, vars
<1> QED
  BY <1>2, <1>3 DEF Next

\* Nothing but the own steps of a request changes how far it is, and each of them, its
\* client's going away and the passing of its thinking time included, brings it nearer to
\* its end: with fairness, and as long as its client reads, it leaves the queue, answered
\* by endpoints or not.
THEOREM EveryRequestMovesOn == Spec => [][RequestsMoveOn]_vars
<1>1. OapiInv /\ [Next]_vars => [RequestsMoveOn]_vars
  <2> SUFFICES ASSUME OapiInv, [Next]_vars, NEW r \in Requests
               PROVE  /\ Left(r) \in Nat
                      /\ Left(r)' <= Left(r)
                      /\ Arrive(r) \/ Step(r) \/ Raise(r) \/ Tick(r) => Left(r)' < Left(r)
    BY DEF RequestsMoveOn
  <2>1. Left(r) \in Nat
    BY LeftType
  <2>2. CASE Arrive(r) \/ Step(r) \/ Raise(r) \/ Tick(r)
    <3>1. Left(r)' < Left(r) /\ Left(r)' \in Nat
      BY <2>2, OwnStep
    <3> QED
      BY <2>1, <2>2, <3>1
  <2>3. CASE ~(Arrive(r) \/ Step(r) \/ Raise(r) \/ Tick(r))
    <3>1. Left(r)' = Left(r)
      BY <2>3, OthersStep DEF Left
    <3> QED
      BY <2>1, <2>3, <3>1
  <2> QED
    BY <2>2, <2>3
<1> QED
  BY OapiInvariant, <1>1, PTL DEF Spec

\* Whoever waits in the queue waits for nobody, for a request that needs nothing but time,
\* or for the client of one that writes to it: the lock is never held by one that has
\* gone, nor by a round with nobody to ask.
THEOREM TheQueueMoves == Spec => []QueueMoves
<1>1. Init => RoundInv
  BY DEF Init, RoundInv
<1>2. OapiInv /\ RoundInv /\ [Next]_vars => RoundInv'
  <2> SUFFICES ASSUME OapiInv, RoundInv, [Next]_vars, NEW r \in Requests
               PROVE  /\ at'[r] \in {"send", "collect"} => fan'[r].targets # {}
                      /\ at'[r] = "send" => fan'[r].left # {}
    BY DEF RoundInv
  <2> DEFINE Goal == /\ at'[r] \in {"send", "collect"} => fan'[r].targets # {}
                     /\ at'[r] = "send" => fan'[r].left # {}
  <2>1. /\ at \in [Requests -> Inside \cup {"out", "refused", "gone"}]
        /\ fan \in [Requests -> Fan] /\ fan[r] \in Fan
    BY DEF OapiInv, TypeOK
  <2>2. CASE ~(Arrive(r) \/ Step(r) \/ Raise(r) \/ Tick(r))
    BY <2>2, OthersStep DEF RoundInv
  <2>3. ASSUME NEW s, GoTo(r, s), s \notin {"send", "collect"} PROVE Goal
    BY <2>1, <2>3 DEF GoTo
  <2> HIDE DEF Goal
  <2>4. CASE Arrive(r) \/ Raise(r) \/ Begin(r) \/ AskTurn(r) \/ AnswerTurn(r) \/ Unlock(r)
             \/ Leave(r) \/ Fail(r) \/ Route(r) \/ Synthesize(r) \/ Stream(r)
    <3>1. \E s \in {"refused", "queued", "unlock", "ask", "route", "leave", "gone", "fail",
                     "targets", "stream", "answer"} : GoTo(r, s)
      BY <2>4 DEF Arrive, Raise, Begin, AskTurn, AnswerTurn, Unlock, Leave, Fail, Route,
                  Synthesize, Stream
    <3>2. PICK s : GoTo(r, s) /\ s \notin {"send", "collect"}
      BY <3>1
    <3> QED
      BY <2>3, <3>2 DEF Goal
  <2>5. CASE Targets(r) \/ Reuse(r)
    <3>1. ASSUME NEW T, NewRound(r, T), T # {} PROVE Goal
      BY <2>1, <3>1 DEF NewRound, Fan, Goal
    <3>2. CASE Targets(r)
      BY <2>3, <3>1, <3>2 DEF Targets, Goal
    <3>3. CASE Reuse(r)
      BY <3>1, <3>3 DEF Reuse, RoundInv, Goal
    <3> QED
      BY <2>5, <3>2, <3>3
  <2>6. CASE Send(r)
    <3>1. PICK e \in fan[r].left :
            LET t == <<r, fan[r].round, e>> IN
            /\ fan' = [fan EXCEPT ![r].left = @ \ {e}, ![r].waiting = @ \cup {t}]
            /\ GoTo(r, IF fan[r].left = {e} THEN "collect" ELSE "send")
      BY <2>6 DEF Send
    <3>2. /\ fan'[r].targets = fan[r].targets /\ fan'[r].left = fan[r].left \ {e}
          /\ at'[r] = IF fan[r].left = {e} THEN "collect" ELSE "send"
      BY <2>1, <3>1 DEF GoTo, Fan
    <3>3. fan[r].targets # {}
      BY <2>6 DEF Send, RoundInv
    <3> QED
      BY <3>1, <3>2, <3>3 DEF Goal
  <2>7. CASE Collect(r) \/ Tick(r)
    <3>1. at' = at /\ fan'[r].targets = fan[r].targets /\ fan'[r].left = fan[r].left
      BY <2>1, <2>7 DEF Collect, Tick, Fan
    <3> QED
      BY <3>1 DEF RoundInv, Goal
  <2> QED
    BY <2>2, <2>4, <2>5, <2>6, <2>7 DEF Step, Goal
<1>3. Init => WriteInv
  BY DEF Init, WriteInv
<1>4. OapiInv /\ WriteInv /\ [Next]_vars => WriteInv'
  <2> SUFFICES ASSUME OapiInv, WriteInv, [Next]_vars, blocked'
               PROVE  \E r \in Requests : active' = r /\ at'[r] \in Writes
    BY DEF WriteInv
  <2>1. TypeOK /\ Exclusive /\ Exclusive'
    BY ExclusiveStep DEF OapiInv
  <2>2. ASSUME NEW r \in Requests, at'[r] \in Writes PROVE active' = r
    BY <2>1, <2>2 DEF Exclusive, Writes, Held
  <2>3. CASE \E r \in Requests : StopReading(r)
    <3>1. PICK r \in Requests : StopReading(r)
      BY <2>3
    <3>2. at'[r] \in Writes
      BY <3>1 DEF StopReading
    <3> QED
      BY <2>2, <3>2
  <2>4. CASE ~\E r \in Requests : StopReading(r)
    <3>1. blocked
      BY <2>1, <2>4 DEF Next, Step, vars, queueVars, Arrive, Raise, Tick, Begin, AskTurn, Route,
         Targets, Send, Collect, Reuse, Synthesize, Stream, Fail, AnswerTurn, Unlock, Leave,
         Delete, Clear, Answered, LoadOrUnload, PutConfig, WriteReturns
    <3>2. PICK r \in Requests : at[r] \in Writes
      BY <3>1 DEF WriteInv
    <3>3. at'[r] = at[r]
      <4>1. CASE ~(Arrive(r) \/ Step(r) \/ Raise(r) \/ Tick(r))
        BY <4>1, OthersStep
      <4>2. CASE Tick(r)
        BY <4>2 DEF Tick
      <4>3. ~Arrive(r) /\ ~Raise(r)
        BY <3>1, <3>2 DEF Arrive, Raise, Writes
      <4>4. ~Step(r)
        BY <3>1, <3>2 DEF Step, Begin, AskTurn, Route, Targets, Send, Collect, Reuse,
           Synthesize, Stream, Fail, AnswerTurn, Unlock, Leave, Writes
      <4> QED
        BY <4>1, <4>2, <4>3, <4>4
    <3> QED
      BY <2>2, <3>2, <3>3
  <2> QED
    BY <2>3, <2>4
<1>5. OapiInv /\ RoundInv /\ WriteInv => QueueMoves
  <2> SUFFICES ASSUME OapiInv, RoundInv, WriteInv, active # None
               PROVE  \/ ~blocked /\ CanGoOn(active)
                      \/ blocked /\ at[active] \in Writes
    BY DEF QueueMoves
  <2>1. active \in Requests /\ at[active] \in Held
    BY DEF OapiInv, TypeOK, Exclusive
  <2>2. CanGoOn(active)
    BY <2>1 DEF CanGoOn, Held, RoundInv
  <2>3. blocked => at[active] \in Writes
    BY DEF WriteInv
  <2> QED
    BY <2>2, <2>3 DEF OapiInv, TypeOK
<1> QED
  BY OapiInvariant, <1>1, <1>2, <1>3, <1>4, <1>5, PTL DEF Spec
================================================================================
