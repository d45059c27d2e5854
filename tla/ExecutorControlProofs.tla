------------------------ MODULE ExecutorControlProofs ------------------------
(***************************************************************************)
(* The Executor scheduler and the Executor control, proved for every set   *)
(* of turns and keys and every limit, with or without crashes and          *)
(* disconnecting clients.  The two operators are ExecutorControl's: the    *)
(* console and its background drain.                                       *)
(*                                                                         *)
(* First the scheduler by itself: its invariant, the order in which it     *)
(* serves a key, and that it implements LeasePool.                         *)
(*                                                                         *)
(* Then the control: nearly every step of it is a step of the Lifecycle    *)
(* and one of the scheduler, so the invariants of both are taken from      *)
(* their own proofs; ControlFits is what the handlers that call both add,  *)
(* in parts: the record, the turns, the operator's calls, the stop that an *)
(* aborted OFF leaves behind, and the unit while nothing fails.            *)
(***************************************************************************)
EXTENDS ExecutorControl, LifecycleProofs, FiniteSetTheorems, TLAPS

(***************************************************************************)
(* Sequences without repetitions: what the operations on the deques do to  *)
(* the set of their elements.                                              *)
(***************************************************************************)
\* A deque is non-empty exactly when its length is positive.
LEMMA LenPositive ==
    ASSUME NEW S, NEW s \in Seq(S)
    PROVE  Len(s) \in Nat /\ (s # <<>> <=> Len(s) > 0)
OBVIOUS

\* Appending a new element (acquire's append) adds it to the elements and keeps
\* the sequence free of repetitions.
LEMMA AppendDistinct ==
    ASSUME NEW S, NEW s \in Seq(S), NEW e \in S, Distinct(s), e \notin Ids(s)
    PROVE  /\ Append(s, e) \in Seq(S)
           /\ Append(s, e) # <<>>
           /\ Distinct(Append(s, e))
           /\ Ids(Append(s, e)) = Ids(s) \cup {e}
<1> DEFINE t == Append(s, e)
<1>1. /\ t \in Seq(S) /\ Len(t) = Len(s) + 1 /\ DOMAIN t = 1..(Len(s) + 1)
      /\ \A i \in 1..Len(s) : t[i] = s[i]
      /\ t[Len(s) + 1] = e /\ DOMAIN s = 1..Len(s) /\ Len(s) \in Nat
  OBVIOUS
<1>2. Distinct(t)
  BY <1>1 DEF Distinct, Ids
<1>3. Ids(t) = Ids(s) \cup {e}
  <2>1. ASSUME NEW x \in Ids(t) PROVE x \in Ids(s) \cup {e}
    BY <1>1, <2>1 DEF Ids
  <2>2. ASSUME NEW x \in Ids(s) PROVE x \in Ids(t)
    <3>1. PICK i \in 1..Len(s) : x = s[i]
      BY <1>1 DEF Ids
    <3>2. i \in DOMAIN t /\ t[i] = x
      BY <1>1, <3>1
    <3> QED BY <3>2 DEF Ids
  <2>3. e \in Ids(t)
    <3>1. Len(s) + 1 \in DOMAIN t
      BY <1>1
    <3> QED BY <1>1, <3>1 DEF Ids
  <2> QED BY <2>1, <2>2, <2>3
<1> QED BY <1>1, <1>2, <1>3

\* popleft removes exactly the front element of a sequence without repetitions.
LEMMA TailDistinct ==
    ASSUME NEW S, NEW s \in Seq(S), Distinct(s), s # <<>>
    PROVE  /\ Head(s) \in S /\ Head(s) \in Ids(s)
           /\ Tail(s) \in Seq(S) /\ Distinct(Tail(s))
           /\ Ids(Tail(s)) = Ids(s) \ {Head(s)}
           /\ Len(Tail(s)) = Len(s) - 1
<1> DEFINE t == Tail(s)
<1>1. /\ t \in Seq(S) /\ Len(t) = Len(s) - 1 /\ DOMAIN t = 1..(Len(s) - 1)
      /\ \A i \in 1..(Len(s) - 1) : t[i] = s[i + 1]
      /\ DOMAIN s = 1..Len(s) /\ Len(s) \in Nat /\ Len(s) > 0
      /\ Head(s) = s[1] /\ s[1] \in S
  OBVIOUS
<1>2. Distinct(t)
  BY <1>1 DEF Distinct
<1>3. Head(s) \in Ids(s)
  BY <1>1 DEF Ids
<1>4. Ids(t) = Ids(s) \ {Head(s)}
  <2>1. ASSUME NEW x \in Ids(t) PROVE x \in Ids(s) /\ x # Head(s)
    <3>1. PICK i \in 1..(Len(s) - 1) : x = t[i]
      BY <1>1 DEF Ids
    <3>2. i + 1 \in DOMAIN s /\ s[i + 1] = x /\ i + 1 # 1 /\ 1 \in DOMAIN s
      BY <1>1, <3>1
    <3> QED BY <1>1, <3>2 DEF Ids, Distinct
  <2>2. ASSUME NEW x \in Ids(s), x # Head(s) PROVE x \in Ids(t)
    <3>1. PICK i \in 1..Len(s) : x = s[i]
      BY <1>1 DEF Ids
    <3>2. i # 1
      BY <1>1, <2>2, <3>1
    <3>3. i - 1 \in DOMAIN t /\ t[i - 1] = x
      BY <1>1, <3>1, <3>2
    <3> QED BY <3>3 DEF Ids
  <2> QED BY <2>1, <2>2
<1> QED BY <1>1, <1>2, <1>3, <1>4

\* Filtering one entry out of a deque removes exactly that element.
LEMMA RemoveDistinct ==
    ASSUME NEW S, NEW s \in Seq(S), Distinct(s), NEW i \in DOMAIN s
    PROVE  /\ RemoveAt(s, i) \in Seq(S) /\ Distinct(RemoveAt(s, i))
           /\ Ids(RemoveAt(s, i)) = Ids(s) \ {s[i]}
           /\ Len(RemoveAt(s, i)) = Len(s) - 1
<1> DEFINE t == RemoveAt(s, i)
<1>0. DOMAIN s = 1..Len(s) /\ Len(s) \in Nat /\ i \in 1..Len(s)
      /\ \A j \in 1..Len(s) : s[j] \in S
  OBVIOUS
<1>1. /\ t = [j \in 1..(Len(s) - 1) |-> IF j < i THEN s[j] ELSE s[j + 1]]
      /\ DOMAIN t = 1..(Len(s) - 1)
      /\ \A j \in 1..(Len(s) - 1) : t[j] = IF j < i THEN s[j] ELSE s[j + 1]
  BY <1>0 DEF RemoveAt
<1>2. t \in Seq(S) /\ Len(t) = Len(s) - 1
  <2>1. Len(s) - 1 \in Nat
    BY <1>0
  <2>2. \A j \in 1..(Len(s) - 1) : t[j] \in S
    BY <1>0, <1>1
  <2>3. t \in [1..(Len(s) - 1) -> S]
    BY <1>1, <2>2
  <2> QED BY <2>1, <2>3
<1>3. Distinct(t)
  BY <1>0, <1>1 DEF Distinct
<1>4. Ids(t) = Ids(s) \ {s[i]}
  <2>1. ASSUME NEW x \in Ids(t) PROVE x \in Ids(s) /\ x # s[i]
    <3>1. PICK j \in 1..(Len(s) - 1) : x = t[j]
      BY <1>1 DEF Ids
    <3>2. \E m \in 1..Len(s) : m # i /\ x = s[m]
      <4>1. CASE j < i
        BY <1>0, <1>1, <3>1, <4>1
      <4>2. CASE ~(j < i)
        <5>1. j + 1 \in 1..Len(s) /\ j + 1 # i /\ x = s[j + 1]
          BY <1>0, <1>1, <3>1, <4>2
        <5> QED BY <5>1
      <4> QED BY <4>1, <4>2
    <3> QED BY <1>0, <3>2 DEF Ids, Distinct
  <2>2. ASSUME NEW x \in Ids(s), x # s[i] PROVE x \in Ids(t)
    <3>1. PICK j \in 1..Len(s) : x = s[j]
      BY <1>0 DEF Ids
    <3>2. j # i
      BY <2>2, <3>1
    <3>3. \E m \in 1..(Len(s) - 1) : x = t[m]
      <4>1. CASE j < i
        BY <1>0, <1>1, <3>1, <4>1
      <4>2. CASE j > i
        <5>1. j - 1 \in 1..(Len(s) - 1) /\ ~(j - 1 < i) /\ (j - 1) + 1 = j
          BY <1>0, <3>1, <4>2
        <5>2. t[j - 1] = x
          BY <1>1, <3>1, <5>1
        <5> QED BY <5>1, <5>2
      <4> QED BY <1>0, <3>1, <3>2, <4>1, <4>2
    <3> QED BY <1>1, <3>3 DEF Ids
  <2> QED BY <2>1, <2>2
<1> QED BY <1>2, <1>3, <1>4

\* The rotation in _promote keeps the set of waiting keys and every key once.
LEMMA TurnOrderFacts ==
    ASSUME NEW S, roundRobin \in Seq(S), Distinct(roundRobin), NEW last,
           roundRobin # <<>>
    PROVE  /\ TurnOrder(last) \in Seq(S) /\ Distinct(TurnOrder(last))
           /\ TurnOrder(last) # <<>> /\ Ids(TurnOrder(last)) = Ids(roundRobin)
<1>1. /\ Head(roundRobin) \in S /\ Head(roundRobin) \in Ids(roundRobin)
      /\ Tail(roundRobin) \in Seq(S) /\ Distinct(Tail(roundRobin))
      /\ Ids(Tail(roundRobin)) = Ids(roundRobin) \ {Head(roundRobin)}
  BY TailDistinct
<1>2. Head(roundRobin) \notin Ids(Tail(roundRobin))
  BY <1>1
<1>3. /\ Append(Tail(roundRobin), Head(roundRobin)) \in Seq(S)
      /\ Append(Tail(roundRobin), Head(roundRobin)) # <<>>
      /\ Distinct(Append(Tail(roundRobin), Head(roundRobin)))
      /\ Ids(Append(Tail(roundRobin), Head(roundRobin)))
           = Ids(Tail(roundRobin)) \cup {Head(roundRobin)}
  <2> DEFINE s == Tail(roundRobin)
             e == Head(roundRobin)
  <2>1. s \in Seq(S) /\ e \in S /\ Distinct(s) /\ e \notin Ids(s)
    BY <1>1, <1>2
  <2> HIDE DEF s, e
  <2>2. /\ Append(s, e) \in Seq(S) /\ Append(s, e) # <<>>
        /\ Distinct(Append(s, e)) /\ Ids(Append(s, e)) = Ids(s) \cup {e}
    BY <2>1, AppendDistinct
  <2> QED BY <2>2 DEF s, e
<1> QED BY <1>1, <1>3 DEF TurnOrder

-----------------------------------------------------------------------------
(***************************************************************************)
(* The inductive invariant.  CallersMatchPins is what makes the capacity   *)
(* inductive: a turn that is admitted does not own a slot already, because *)
(* every way back to "idle" goes through Release.                          *)
(***************************************************************************)
CallersMatchPins ==
    \A r \in Requests :
        caller[r] \in {"idle", "failed", "detached"} => pins[r] = "none"

SchedulerInv ==
    /\ SchedulerTypeOK
    /\ RoundRobinMatchesQueues
    /\ PinsMatchQueues
    /\ NoIdleSlotWhileQueued
    /\ CallersMatchPins

\* The initial state satisfies the invariant: nothing is pinned or queued.
LEMMA InitSchedulerInv == SchedulerInit => SchedulerInv
<1> SUFFICES ASSUME SchedulerInit PROVE SchedulerInv
  OBVIOUS
<1>1. DOMAIN queues = {} /\ queues = [k \in {} |-> <<>>] /\ roundRobin = <<>>
  BY DEF SchedulerInit
<1>2. SchedulerTypeOK
  <2>1. queues \in [DOMAIN queues -> Seq(Requests)]
    BY <1>1
  <2>2. roundRobin \in Seq(Keys)
    BY <1>1
  <2> QED BY <1>1, <2>1, <2>2 DEF SchedulerInit, SchedulerTypeOK, LeaseStates, CallerStates
<1>3. RoundRobinMatchesQueues
  <2>1. DOMAIN roundRobin = {}
    BY <1>1
  <2> QED BY <1>1, <2>1 DEF RoundRobinMatchesQueues, Ids, Distinct
<1>4. PinsMatchQueues
  BY <1>1 DEF PinsMatchQueues, SchedulerInit
<1>5. NoIdleSlotWhileQueued
  BY <1>1, FS_EmptySet, LimitAssumption DEF NoIdleSlotWhileQueued, SchedulerInit
<1>6. CallersMatchPins
  BY DEF CallersMatchPins, SchedulerInit
<1> QED BY <1>2, <1>3, <1>4, <1>5, <1>6 DEF SchedulerInv

-----------------------------------------------------------------------------
PinTypes ==
    /\ owners \subseteq Requests
    /\ DOMAIN queues \subseteq Keys
    /\ queues \in [DOMAIN queues -> Seq(Requests)]
    /\ roundRobin \in Seq(Keys)
    /\ pins \in [Requests -> LeaseStates]

PinsInv ==
    /\ PinTypes
    /\ RoundRobinMatchesQueues
    /\ PinsMatchQueues
    /\ NoIdleSlotWhileQueued

\* What a turn does to the pins of the others: it never unpins one, and pins
\* none that was not pinned.
KeepsOthers(r) ==
    \A q \in Requests \ {r} : (pins'[q] = "none") <=> (pins[q] = "none")

\* The slots in use are countable: _owners is a finite set of requests.
LEMMA OwnersFinite ==
    ASSUME PinTypes
    PROVE  IsFiniteSet(owners) /\ Cardinality(owners) \in Nat
BY KeyAssumption, FS_Subset, FS_CardinalityType DEF PinTypes

\* A queue that is not empty gives up its oldest entry.
LEMMA PromoteKeeps ==
    ASSUME PinsInv, NEW r \in Requests, r \in owners, roundRobin # <<>>,
           Promote(r)
    PROVE  /\ PinsInv'
           /\ pins'[r] = "none" /\ KeepsOthers(r)
<1> DEFINE turns == TurnOrder(KeyOf[r])
           k     == Head(turns)
           next  == Head(queues[k])
<1>1. /\ turns \in Seq(Keys) /\ Distinct(turns) /\ turns # <<>>
      /\ Ids(turns) = DOMAIN queues
  BY TurnOrderFacts DEF PinsInv, PinTypes, RoundRobinMatchesQueues
<1>2. /\ k \in Keys /\ k \in DOMAIN queues
      /\ Tail(turns) \in Seq(Keys) /\ Distinct(Tail(turns))
      /\ Ids(Tail(turns)) = DOMAIN queues \ {k}
  <2> HIDE DEF turns
  <2> QED BY <1>1, TailDistinct
<1>3. /\ queues[k] \in Seq(Requests) /\ Distinct(queues[k]) /\ queues[k] # <<>>
  BY <1>2 DEF PinsInv, PinTypes, PinsMatchQueues, RoundRobinMatchesQueues
<1>4. /\ next \in Requests /\ next \in Ids(queues[k])
      /\ Tail(queues[k]) \in Seq(Requests) /\ Distinct(Tail(queues[k]))
      /\ Ids(Tail(queues[k])) = Ids(queues[k]) \ {next}
      /\ Len(Tail(queues[k])) = Len(queues[k]) - 1
  <2> HIDE DEF k
  <2> QED BY <1>3, TailDistinct
<1>5. pins[next] = "queued" /\ KeyOf[next] = k /\ next \notin owners /\ next # r
      /\ pins[r] = "acquired"
  BY <1>2, <1>4 DEF PinsInv, PinsMatchQueues
<1>6. /\ owners' = (owners \ {r}) \cup {next}
      /\ pins' = [pins EXCEPT ![r] = "none", ![next] = "acquired"]
      /\ IF Len(queues[k]) > 1
           THEN /\ queues' = [queues EXCEPT ![k] = Tail(@)]
                /\ roundRobin' = Append(Tail(turns), k)
           ELSE /\ queues' = Restrict(queues, DOMAIN queues \ {k})
                /\ roundRobin' = Tail(turns)
  BY DEF Promote
<1> HIDE DEF turns, k, next
<1>7. /\ pins' \in [Requests -> LeaseStates]
      /\ \A q \in Requests :
           pins'[q] = IF q = next THEN "acquired" ELSE IF q = r THEN "none" ELSE pins[q]
  BY <1>4, <1>5, <1>6 DEF PinsInv, PinTypes, LeaseStates
<1>8. owners' \subseteq Requests
  BY <1>4, <1>6 DEF PinsInv, PinTypes
<1>9. Cardinality(owners') = Cardinality(owners)
  <2>1. IsFiniteSet(owners) /\ Cardinality(owners) \in Nat
    BY OwnersFinite DEF PinsInv
  <2>2. IsFiniteSet(owners \ {r}) /\ Cardinality(owners \ {r}) = Cardinality(owners) - 1
    BY <2>1, FS_RemoveElement
  <2>3. next \notin owners \ {r}
    BY <1>5
  <2>4. Cardinality((owners \ {r}) \cup {next}) = Cardinality(owners \ {r}) + 1
    BY <2>2, <2>3, FS_AddElement
  <2> QED BY <1>6, <2>1, <2>2, <2>4
<1>10. \* The two shapes of the queues afterwards.
      /\ DOMAIN queues' \subseteq DOMAIN queues
      /\ queues' \in [DOMAIN queues' -> Seq(Requests)]
      /\ roundRobin' \in Seq(Keys) /\ Distinct(roundRobin')
      /\ Ids(roundRobin') = DOMAIN queues'
      /\ \A x \in DOMAIN queues' :
           /\ queues'[x] # <<>> /\ Distinct(queues'[x])
           /\ Ids(queues'[x]) = Ids(queues[x]) \ {next}
      /\ k \notin DOMAIN queues' => Ids(queues[k]) = {next}
      /\ \A x \in DOMAIN queues : x # k => x \in DOMAIN queues'
  <2>0. \A x \in DOMAIN queues : x # k => next \notin Ids(queues[x])
    BY <1>5 DEF PinsInv, PinsMatchQueues
  <2>a. \A x \in DOMAIN queues : queues[x] \in Seq(Requests) /\ queues[x] # <<>>
                                  /\ Distinct(queues[x])
    BY DEF PinsInv, PinTypes, PinsMatchQueues, RoundRobinMatchesQueues
  <2>1. CASE Len(queues[k]) > 1
    <3>1. /\ queues' = [queues EXCEPT ![k] = Tail(queues[k])]
          /\ roundRobin' = Append(Tail(turns), k)
      BY <1>6, <2>1
    <3>2. /\ roundRobin' \in Seq(Keys) /\ Distinct(roundRobin')
          /\ Ids(roundRobin') = DOMAIN queues
      <4> DEFINE t == Tail(turns)
      <4>1. t \in Seq(Keys) /\ Distinct(t) /\ k \notin Ids(t) /\ k \in Keys
            /\ Ids(t) = DOMAIN queues \ {k} /\ roundRobin' = Append(t, k)
        BY <1>2, <3>1
      <4> HIDE DEF t
      <4>2. Append(t, k) \in Seq(Keys) /\ Distinct(Append(t, k))
            /\ Ids(Append(t, k)) = Ids(t) \cup {k}
        BY <4>1, AppendDistinct
      <4> QED BY <1>2, <4>1, <4>2
    <3>3. /\ DOMAIN queues' = DOMAIN queues
          /\ queues'[k] = Tail(queues[k])
          /\ \A x \in DOMAIN queues : x # k => queues'[x] = queues[x]
          /\ queues' = [x \in DOMAIN queues |-> queues'[x]]
      BY <1>2, <3>1 DEF PinsInv, PinTypes
    <3>4. Tail(queues[k]) # <<>>
      <4>1. Len(queues[k]) \in Nat
        BY <1>3, LenPositive
      <4>2. Len(Tail(queues[k])) > 0
        BY <1>4, <2>1, <4>1
      <4> QED BY <1>4, <4>2, LenPositive
    <3>5. \A x \in DOMAIN queues : queues'[x] \in Seq(Requests) /\ queues'[x] # <<>>
                                    /\ Distinct(queues'[x])
      BY <1>4, <2>a, <3>3, <3>4
    <3>6. \A x \in DOMAIN queues : Ids(queues'[x]) = Ids(queues[x]) \ {next}
      BY <1>4, <2>0, <3>3
    <3>7. queues' \in [DOMAIN queues' -> Seq(Requests)]
      BY <3>3, <3>5
    <3> QED BY <1>2, <3>2, <3>3, <3>5, <3>6, <3>7
  <2>2. CASE ~(Len(queues[k]) > 1)
    <3>1. /\ queues' = Restrict(queues, DOMAIN queues \ {k})
          /\ roundRobin' = Tail(turns)
      BY <1>6, <2>2
    <3>2. /\ DOMAIN queues' = DOMAIN queues \ {k}
          /\ \A x \in DOMAIN queues' : queues'[x] = queues[x]
          /\ queues' = [x \in DOMAIN queues \ {k} |-> queues[x]]
      BY <3>1 DEF Restrict
    <3>3. Ids(queues[k]) = {next}
      <4>1. Len(queues[k]) = 1
        <5>1. Len(queues[k]) \in Nat /\ Len(queues[k]) > 0
          BY <1>3, LenPositive
        <5> DEFINE n == Len(queues[k])
        <5>2. n \in Nat /\ n > 0 /\ ~(n > 1)
          BY <2>2, <5>1
        <5> HIDE DEF n
        <5>3. n = 1
          BY <5>2
        <5> QED BY <5>3 DEF n
      <4>2. DOMAIN queues[k] = {1} /\ next = queues[k][1]
        BY <1>3, <4>1 DEF next
      <4> QED BY <4>2 DEF Ids
    <3>4. queues' \in [DOMAIN queues' -> Seq(Requests)]
      BY <2>a, <3>2
    <3>5. \A x \in DOMAIN queues' : Ids(queues'[x]) = Ids(queues[x]) \ {next}
      BY <2>0, <3>2
    <3> QED BY <1>2, <2>a, <3>1, <3>2, <3>3, <3>4, <3>5
  <2> QED BY <2>1, <2>2
<1>11. PinTypes'
  BY <1>7, <1>8, <1>10 DEF PinsInv, PinTypes, LeaseStates
<1>12. RoundRobinMatchesQueues'
  BY <1>10 DEF RoundRobinMatchesQueues
<1>13. PinsMatchQueues'
  <2>1. \A q \in Requests : q \in owners' <=> pins'[q] = "acquired"
    BY <1>5, <1>6, <1>7 DEF PinsInv, PinsMatchQueues
  <2>2. ASSUME NEW q \in Requests, pins'[q] = "queued"
        PROVE  KeyOf[q] \in DOMAIN queues' /\ q \in Ids(queues'[KeyOf[q]])
    <3>1. q # next /\ q # r /\ pins[q] = "queued"
      BY <1>7, <2>2
    <3>2. KeyOf[q] \in DOMAIN queues /\ q \in Ids(queues[KeyOf[q]])
      BY <3>1 DEF PinsInv, PinsMatchQueues
    <3>3. KeyOf[q] \in DOMAIN queues'
      BY <1>10, <3>1, <3>2
    <3> QED BY <1>10, <3>1, <3>2, <3>3
  <2>3. ASSUME NEW x \in DOMAIN queues', NEW q \in Ids(queues'[x])
        PROVE  pins'[q] = "queued" /\ KeyOf[q] = x
    <3>1. x \in DOMAIN queues /\ q \in Ids(queues[x]) /\ q # next
      BY <1>10, <2>3
    <3>2. pins[q] = "queued" /\ KeyOf[q] = x /\ q # r
      BY <1>5, <3>1 DEF PinsInv, PinsMatchQueues
    <3>3. q \in Requests
      <4>1. queues[x] \in Seq(Requests)
        BY <3>1 DEF PinsInv, PinTypes
      <4> QED BY <3>1, <4>1 DEF Ids
    <3> QED BY <1>7, <3>1, <3>2, <3>3
  <2> QED BY <1>10, <2>1, <2>2, <2>3 DEF PinsMatchQueues
<1>14. NoIdleSlotWhileQueued'
  BY <1>2, <1>9 DEF PinsInv, NoIdleSlotWhileQueued
<1>15. pins'[r] = "none" /\ KeepsOthers(r)
  BY <1>5, <1>7 DEF KeepsOthers
<1> QED BY <1>11, <1>12, <1>13, <1>14, <1>15 DEF PinsInv

\* Releasing a queued request removes its one entry.
LEMMA ReleaseQueuedKeeps ==
    ASSUME PinsInv, NEW r \in Requests, pins[r] = "queued", ReleaseQueued(r)
    PROVE  /\ PinsInv'
           /\ pins'[r] = "none" /\ KeepsOthers(r)
<1> DEFINE k == KeyOf[r]
           q == queues[k]
<1>1. /\ k \in DOMAIN queues /\ q \in Seq(Requests) /\ Distinct(q) /\ q # <<>>
      /\ r \notin owners
  BY DEF PinsInv, PinTypes, PinsMatchQueues, RoundRobinMatchesQueues
<1>2. PICK i \in DOMAIN q :
         /\ q[i] = r
         /\ IF RemoveAt(q, i) # <<>>
              THEN /\ queues' = [queues EXCEPT ![k] = RemoveAt(q, i)]
                   /\ UNCHANGED roundRobin
              ELSE /\ queues' = Restrict(queues, DOMAIN queues \ {k})
                   /\ \E j \in DOMAIN roundRobin :
                        /\ roundRobin[j] = k
                        /\ roundRobin' = RemoveAt(roundRobin, j)
  BY DEF ReleaseQueued
<1> DEFINE rest == RemoveAt(q, i)
<1>3. /\ pins' = [pins EXCEPT ![r] = "none"] /\ owners' = owners
  BY DEF ReleaseQueued
<1>4. /\ rest \in Seq(Requests) /\ Distinct(rest) /\ Ids(rest) = Ids(q) \ {r}
  <2> HIDE DEF q
  <2> QED BY <1>1, <1>2, RemoveDistinct
<1>5. /\ pins' \in [Requests -> LeaseStates]
      /\ \A x \in Requests : pins'[x] = IF x = r THEN "none" ELSE pins[x]
  BY <1>3 DEF PinsInv, PinTypes, LeaseStates
<1>a. \A x \in DOMAIN queues :
        /\ queues[x] \in Seq(Requests) /\ queues[x] # <<>> /\ Distinct(queues[x])
        /\ x # k => r \notin Ids(queues[x])
  BY DEF PinsInv, PinTypes, PinsMatchQueues, RoundRobinMatchesQueues
<1>b. /\ roundRobin \in Seq(Keys) /\ Distinct(roundRobin)
      /\ Ids(roundRobin) = DOMAIN queues /\ DOMAIN queues \subseteq Keys
  BY DEF PinsInv, PinTypes, RoundRobinMatchesQueues
<1>6. /\ DOMAIN queues' \subseteq DOMAIN queues
      /\ queues' \in [DOMAIN queues' -> Seq(Requests)]
      /\ roundRobin' \in Seq(Keys) /\ Distinct(roundRobin')
      /\ Ids(roundRobin') = DOMAIN queues'
      /\ \A x \in DOMAIN queues' :
           /\ queues'[x] # <<>> /\ Distinct(queues'[x])
           /\ Ids(queues'[x]) = Ids(queues[x]) \ {r}
      /\ k \notin DOMAIN queues' => Ids(q) \subseteq {r}
      /\ \A x \in DOMAIN queues : x # k => x \in DOMAIN queues'
  <2>1. CASE rest # <<>>
    <3>1. queues' = [queues EXCEPT ![k] = rest] /\ roundRobin' = roundRobin
      BY <1>2, <2>1
    <3> HIDE DEF rest, q
    <3>2. /\ DOMAIN queues' = DOMAIN queues
          /\ queues'[k] = rest
          /\ \A x \in DOMAIN queues : x # k => queues'[x] = queues[x]
          /\ queues' = [x \in DOMAIN queues |-> queues'[x]]
      BY <1>1, <3>1 DEF PinsInv, PinTypes
    <3>3. \A x \in DOMAIN queues : queues'[x] \in Seq(Requests) /\ queues'[x] # <<>>
                                    /\ Distinct(queues'[x])
      BY <1>4, <1>a, <2>1, <3>2
    <3>4. \A x \in DOMAIN queues : Ids(queues'[x]) = Ids(queues[x]) \ {r}
      BY <1>4, <1>a, <3>2 DEF q
    <3>5. queues' \in [DOMAIN queues' -> Seq(Requests)]
      BY <3>2, <3>3
    <3> QED BY <1>1, <1>b, <3>1, <3>2, <3>3, <3>4, <3>5
  <2>2. CASE rest = <<>>
    <3>1. queues' = Restrict(queues, DOMAIN queues \ {k})
      BY <1>2, <2>2
    <3>2. PICK j \in DOMAIN roundRobin :
             roundRobin[j] = k /\ roundRobin' = RemoveAt(roundRobin, j)
      BY <1>2, <2>2
    <3>3. /\ roundRobin' \in Seq(Keys) /\ Distinct(roundRobin')
          /\ Ids(roundRobin') = DOMAIN queues \ {k}
      BY <1>b, <3>2, RemoveDistinct
    <3>4. /\ DOMAIN queues' = DOMAIN queues \ {k}
          /\ \A x \in DOMAIN queues' : queues'[x] = queues[x]
          /\ queues' = [x \in DOMAIN queues \ {k} |-> queues[x]]
      BY <3>1 DEF Restrict
    <3>5. Ids(q) \subseteq {r}
      <4>1. Ids(rest) = {}
        BY <2>2 DEF Ids
      <4> HIDE DEF rest, q
      <4> QED BY <1>4, <4>1
    <3>6. queues' \in [DOMAIN queues' -> Seq(Requests)]
      BY <1>a, <3>4
    <3>7. \A x \in DOMAIN queues' : Ids(queues'[x]) = Ids(queues[x]) \ {r}
      BY <1>a, <3>4
    <3> HIDE DEF rest, q
    <3> QED BY <1>a, <3>3, <3>4, <3>5, <3>6, <3>7
  <2> QED BY <2>1, <2>2
<1>7. PinTypes'
  BY <1>3, <1>5, <1>6 DEF PinsInv, PinTypes
<1>8. RoundRobinMatchesQueues'
  BY <1>6 DEF RoundRobinMatchesQueues
<1>9. PinsMatchQueues'
  <2>1. \A x \in Requests : x \in owners' <=> pins'[x] = "acquired"
    BY <1>1, <1>3, <1>5 DEF PinsInv, PinsMatchQueues
  <2>2. ASSUME NEW x \in Requests, pins'[x] = "queued"
        PROVE  KeyOf[x] \in DOMAIN queues' /\ x \in Ids(queues'[KeyOf[x]])
    <3>1. x # r /\ pins[x] = "queued"
      BY <1>5, <2>2
    <3>2. KeyOf[x] \in DOMAIN queues /\ x \in Ids(queues[KeyOf[x]])
      BY <3>1 DEF PinsInv, PinsMatchQueues
    <3>3. KeyOf[x] \in DOMAIN queues'
      BY <1>6, <3>1, <3>2
    <3> QED BY <1>6, <3>1, <3>2, <3>3
  <2>3. ASSUME NEW x \in DOMAIN queues', NEW y \in Ids(queues'[x])
        PROVE  pins'[y] = "queued" /\ KeyOf[y] = x
    <3>1. x \in DOMAIN queues /\ y \in Ids(queues[x]) /\ y # r
      BY <1>6, <2>3
    <3>2. pins[y] = "queued" /\ KeyOf[y] = x
      BY <3>1 DEF PinsInv, PinsMatchQueues
    <3>3. y \in Requests
      BY <1>a, <3>1 DEF Ids
    <3> QED BY <1>5, <3>1, <3>2, <3>3
  <2> QED BY <1>6, <2>1, <2>2, <2>3 DEF PinsMatchQueues
<1>10. NoIdleSlotWhileQueued'
  BY <1>1, <1>3 DEF PinsInv, NoIdleSlotWhileQueued
<1>11. pins'[r] = "none" /\ KeepsOthers(r)
  BY <1>5 DEF KeepsOthers
<1> QED BY <1>7, <1>8, <1>9, <1>10, <1>11 DEF PinsInv

\* Whatever the request holds, release gives it back and keeps the scheduler
\* consistent.
LEMMA ReleaseKeeps ==
    ASSUME PinsInv, NEW r \in Requests, Release(r)
    PROVE  /\ PinsInv'
           /\ pins'[r] = "none" /\ KeepsOthers(r)
<1>1. CASE pins[r] = "none" /\ UNCHANGED pinVars
  <2>1. PinsInv'
    BY <1>1 DEF PinsInv, PinTypes, RoundRobinMatchesQueues, PinsMatchQueues,
                NoIdleSlotWhileQueued, pinVars
  <2> QED BY <1>1, <2>1 DEF KeepsOthers, pinVars
<1>2. CASE r \in owners /\ ReleaseOwner(r)
  <2>1. CASE roundRobin # <<>>
    BY <1>2, <2>1, PromoteKeeps DEF ReleaseOwner
  <2>2. CASE roundRobin = <<>>
    <3>1. /\ owners' = owners \ {r}
          /\ pins' = [pins EXCEPT ![r] = "none"]
          /\ queues' = queues /\ roundRobin' = roundRobin
      BY <1>2, <2>2 DEF ReleaseOwner
    <3>2. /\ pins' \in [Requests -> LeaseStates]
          /\ \A x \in Requests : pins'[x] = IF x = r THEN "none" ELSE pins[x]
      BY <3>1 DEF PinsInv, PinTypes, LeaseStates
    <3>3. DOMAIN queues = {}
      <4>1. DOMAIN roundRobin = {}
        BY <2>2
      <4>2. DOMAIN queues = {roundRobin[i] : i \in DOMAIN roundRobin}
        BY DEF PinsInv, RoundRobinMatchesQueues, Ids
      <4> QED BY <4>1, <4>2
    <3>4. Cardinality(owners') <= MaxLocal
      <4>1. IsFiniteSet(owners) /\ Cardinality(owners) \in Nat
        BY OwnersFinite DEF PinsInv
      <4>2. Cardinality(owners \ {r}) = Cardinality(owners) - 1
        BY <1>2, <4>1, FS_RemoveElement
      <4> QED BY <3>1, <4>1, <4>2, LimitAssumption DEF PinsInv, NoIdleSlotWhileQueued
    <3>5. PinTypes'
      BY <3>1, <3>2 DEF PinsInv, PinTypes
    <3>6. RoundRobinMatchesQueues'
      BY <3>1 DEF PinsInv, RoundRobinMatchesQueues
    <3>7. PinsMatchQueues'
      BY <3>1, <3>2, <3>3, <1>2 DEF PinsInv, PinsMatchQueues
    <3>8. NoIdleSlotWhileQueued'
      BY <3>1, <3>3, <3>4 DEF NoIdleSlotWhileQueued
    <3> QED BY <3>2, <3>5, <3>6, <3>7, <3>8 DEF PinsInv, KeepsOthers
  <2> QED BY <2>1, <2>2
<1>3. CASE pins[r] = "queued" /\ r \notin owners /\ ReleaseQueued(r)
  BY <1>3, ReleaseQueuedKeeps
<1>4. CASE pins[r] = "overflow" /\ r \notin owners /\ ReleaseRemote(r)
  <2>1. /\ owners' = owners /\ queues' = queues /\ roundRobin' = roundRobin
        /\ pins' = [pins EXCEPT ![r] = "none"]
    BY <1>4 DEF ReleaseRemote
  <2>2. /\ pins' \in [Requests -> LeaseStates]
        /\ \A x \in Requests : pins'[x] = IF x = r THEN "none" ELSE pins[x]
    BY <2>1 DEF PinsInv, PinTypes, LeaseStates
  <2>3. PinTypes'
    BY <2>1, <2>2 DEF PinsInv, PinTypes
  <2>4. \A k \in DOMAIN queues : \A x \in Ids(queues[k]) : x \in Requests /\ x # r
    <3>1. ASSUME NEW k \in DOMAIN queues, NEW x \in Ids(queues[k])
          PROVE  x \in Requests /\ x # r
      <4>1. queues[k] \in Seq(Requests)
        BY DEF PinsInv, PinTypes
      <4>2. pins[x] = "queued"
        BY DEF PinsInv, PinsMatchQueues
      <4> QED BY <1>4, <4>1, <4>2 DEF Ids
    <3> QED BY <3>1
  <2>5. PinsMatchQueues'
    BY <1>4, <2>1, <2>2, <2>4 DEF PinsInv, PinsMatchQueues
  <2> QED BY <2>1, <2>2, <2>3, <2>5
          DEF PinsInv, RoundRobinMatchesQueues, NoIdleSlotWhileQueued, KeepsOthers
<1> QED BY <1>1, <1>2, <1>3, <1>4 DEF Release

\* A request that is queued joins the end of its key's queue, and its key the
\* end of the round robin if it had no queue.
LEMMA EnqueueKeeps ==
    ASSUME PinsInv, NEW r \in Requests, pins[r] = "none", ~HasIdleSlot, Enqueue(r)
    PROVE  /\ PinsInv'
           /\ pins'[r] # "none" /\ KeepsOthers(r)
<1> DEFINE k == KeyOf[r]
<1>1. /\ k \in Keys /\ r \notin owners
      /\ \A x \in DOMAIN queues :
           /\ queues[x] \in Seq(Requests) /\ queues[x] # <<>> /\ Distinct(queues[x])
           /\ r \notin Ids(queues[x])
  BY KeyAssumption
     DEF PinsInv, PinTypes, PinsMatchQueues, RoundRobinMatchesQueues
<1>2. /\ pins' = [pins EXCEPT ![r] = "queued"] /\ owners' = owners
  BY DEF Enqueue
<1>3. /\ pins' \in [Requests -> LeaseStates]
      /\ \A x \in Requests : pins'[x] = IF x = r THEN "queued" ELSE pins[x]
  BY <1>2 DEF PinsInv, PinTypes, LeaseStates
<1>4. /\ DOMAIN queues' = DOMAIN queues \cup {k}
      /\ queues' \in [DOMAIN queues' -> Seq(Requests)]
      /\ roundRobin' \in Seq(Keys) /\ Distinct(roundRobin')
      /\ Ids(roundRobin') = DOMAIN queues'
      /\ \A x \in DOMAIN queues' :
           /\ queues'[x] # <<>> /\ Distinct(queues'[x])
           /\ Ids(queues'[x]) =
                (IF x \in DOMAIN queues THEN Ids(queues[x]) ELSE {})
                   \cup (IF x = k THEN {r} ELSE {})
  <2>1. CASE k \in DOMAIN queues
    <3>1. queues' = [queues EXCEPT ![k] = Append(queues[k], r)] /\ roundRobin' = roundRobin
      BY <2>1 DEF Enqueue
    <3>2. /\ Append(queues[k], r) \in Seq(Requests) /\ Append(queues[k], r) # <<>>
          /\ Distinct(Append(queues[k], r))
          /\ Ids(Append(queues[k], r)) = Ids(queues[k]) \cup {r}
      <4> DEFINE q == queues[k]
      <4>1. q \in Seq(Requests) /\ Distinct(q) /\ r \notin Ids(q)
        BY <1>1, <2>1
      <4> HIDE DEF q
      <4>2. /\ Append(q, r) \in Seq(Requests) /\ Append(q, r) # <<>>
            /\ Distinct(Append(q, r)) /\ Ids(Append(q, r)) = Ids(q) \cup {r}
        BY <4>1, AppendDistinct
      <4> QED BY <4>2 DEF q
    <3>3. /\ DOMAIN queues' = DOMAIN queues
          /\ queues'[k] = Append(queues[k], r)
          /\ \A x \in DOMAIN queues : x # k => queues'[x] = queues[x]
          /\ queues' = [x \in DOMAIN queues |-> queues'[x]]
      BY <2>1, <3>1 DEF PinsInv, PinTypes
    <3> HIDE DEF k
    <3>4. \A x \in DOMAIN queues : queues'[x] \in Seq(Requests) /\ queues'[x] # <<>>
                                    /\ Distinct(queues'[x])
      BY <1>1, <3>2, <3>3
    <3>5. queues' \in [DOMAIN queues' -> Seq(Requests)]
      BY <3>3, <3>4
    <3>6. roundRobin' \in Seq(Keys) /\ Distinct(roundRobin')
          /\ Ids(roundRobin') = DOMAIN queues
      BY <3>1 DEF PinsInv, PinTypes, RoundRobinMatchesQueues
    <3>7. DOMAIN queues' = DOMAIN queues \cup {k}
      BY <2>1, <3>3
    <3>8. \A x \in DOMAIN queues' :
             Ids(queues'[x]) = (IF x \in DOMAIN queues THEN Ids(queues[x]) ELSE {})
                                 \cup (IF x = k THEN {r} ELSE {})
      BY <2>1, <3>2, <3>3
    <3> QED BY <3>3, <3>4, <3>5, <3>6, <3>7, <3>8
  <2>2. CASE k \notin DOMAIN queues
    <3>1. /\ queues' = [x \in DOMAIN queues \cup {k} |->
                          IF x = k THEN <<r>> ELSE queues[x]]
          /\ roundRobin' = Append(roundRobin, k)
      BY <2>2 DEF Enqueue
    <3>2. /\ roundRobin' \in Seq(Keys) /\ Distinct(roundRobin')
          /\ Ids(roundRobin') = DOMAIN queues \cup {k}
      <4>1. /\ roundRobin \in Seq(Keys) /\ Distinct(roundRobin)
            /\ Ids(roundRobin) = DOMAIN queues
        BY DEF PinsInv, PinTypes, RoundRobinMatchesQueues
      <4> QED BY <1>1, <2>2, <3>1, <4>1, AppendDistinct
    <3>3. /\ <<r>> \in Seq(Requests) /\ <<r>> # <<>> /\ Distinct(<<r>>)
          /\ Ids(<<r>>) = {r}
      BY DEF Distinct, Ids
    <3> HIDE DEF k
    <3>4. /\ DOMAIN queues' = DOMAIN queues \cup {k}
          /\ queues'[k] = <<r>>
          /\ \A x \in DOMAIN queues : queues'[x] = queues[x]
          /\ queues' = [x \in DOMAIN queues \cup {k} |-> queues'[x]]
      BY <2>2, <3>1
    <3>5. \A x \in DOMAIN queues' : queues'[x] \in Seq(Requests) /\ queues'[x] # <<>>
                                     /\ Distinct(queues'[x])
      BY <1>1, <3>3, <3>4
    <3>6. queues' \in [DOMAIN queues' -> Seq(Requests)]
      BY <3>4, <3>5
    <3>7. \A x \in DOMAIN queues' :
             Ids(queues'[x]) = (IF x \in DOMAIN queues THEN Ids(queues[x]) ELSE {})
                                 \cup (IF x = k THEN {r} ELSE {})
      BY <2>2, <3>3, <3>4
    <3> QED BY <3>2, <3>4, <3>5, <3>6, <3>7
  <2> QED BY <2>1, <2>2
<1> HIDE DEF k
<1>5. PinTypes'
  BY <1>1, <1>2, <1>3, <1>4 DEF PinsInv, PinTypes
<1>6. RoundRobinMatchesQueues'
  BY <1>4 DEF RoundRobinMatchesQueues
<1>7. PinsMatchQueues'
  <2>1. \A x \in Requests : x \in owners' <=> pins'[x] = "acquired"
    BY <1>1, <1>2, <1>3 DEF PinsInv, PinsMatchQueues
  <2>2. ASSUME NEW x \in Requests, pins'[x] = "queued"
        PROVE  KeyOf[x] \in DOMAIN queues' /\ x \in Ids(queues'[KeyOf[x]])
    <3>1. CASE x = r
      BY <1>4, <3>1 DEF k
    <3>2. CASE x # r
      <4>1. KeyOf[x] \in DOMAIN queues /\ x \in Ids(queues[KeyOf[x]])
        BY <1>3, <2>2, <3>2 DEF PinsInv, PinsMatchQueues
      <4> QED BY <1>4, <4>1
    <3> QED BY <3>1, <3>2
  <2>3. ASSUME NEW x \in DOMAIN queues', NEW y \in Ids(queues'[x])
        PROVE  pins'[y] = "queued" /\ KeyOf[y] = x
    <3>1. CASE y = r
      <4>1. x = k
        BY <1>1, <1>4, <2>3, <3>1
      <4> QED BY <1>3, <3>1, <4>1 DEF k
    <3>2. CASE y # r
      <4>1. x \in DOMAIN queues /\ y \in Ids(queues[x])
        BY <1>4, <2>3, <3>2
      <4>2. pins[y] = "queued" /\ KeyOf[y] = x
        BY <4>1 DEF PinsInv, PinsMatchQueues
      <4>3. y \in Requests
        BY <1>1, <4>1 DEF Ids
      <4> QED BY <1>3, <3>2, <4>2, <4>3
    <3> QED BY <3>1, <3>2
  <2> QED BY <1>4, <2>1, <2>2, <2>3 DEF PinsMatchQueues
<1>8. NoIdleSlotWhileQueued'
  <2>1. Cardinality(owners) \in Nat
    BY OwnersFinite DEF PinsInv
  <2>2. Cardinality(owners) = MaxLocal
    <3> DEFINE n == Cardinality(owners)
    <3>1. n \in Nat /\ MaxLocal \in Nat /\ n <= MaxLocal
      BY <2>1, LimitAssumption DEF PinsInv, NoIdleSlotWhileQueued
    <3>2. DOMAIN queues # {} => n = MaxLocal
      BY DEF PinsInv, NoIdleSlotWhileQueued
    <3>3. ~(n < MaxLocal) \/ DOMAIN queues # {}
      BY DEF HasIdleSlot
    <3> HIDE DEF n
    <3>4. n = MaxLocal
      BY <3>1, <3>2, <3>3
    <3> QED BY <3>4 DEF n
  <2>3. MaxLocal <= MaxLocal
    BY LimitAssumption
  <2> QED BY <1>2, <2>2, <2>3 DEF NoIdleSlotWhileQueued
<1>9. pins'[r] # "none" /\ KeepsOthers(r)
  BY <1>3 DEF KeepsOthers
<1> QED BY <1>5, <1>6, <1>7, <1>8, <1>9 DEF PinsInv

-----------------------------------------------------------------------------
\* acquire keeps the scheduler consistent on every one of its branches.
LEMMA AcquireKeeps ==
    ASSUME SchedulerInv, NEW r \in Requests, NEW high \in BOOLEAN, NEW flash \in BOOLEAN,
           NEW available \in BOOLEAN, Acquire(r, high, flash, available)
    PROVE  SchedulerInv'
<1>1. PinsInv /\ pins[r] = "none" /\ caller[r] = "idle"
      /\ caller \in [Requests -> CallerStates] /\ localEnabled \in BOOLEAN
  BY DEF SchedulerInv, SchedulerTypeOK, PinsInv, PinTypes, CallersMatchPins, Acquire
<1>2. localEnabled' = localEnabled
  BY DEF Acquire
<1>3. ASSUME NEW c \in CallerStates, caller' = [caller EXCEPT ![r] = c],
             PinsInv', KeepsOthers(r),
             c \in {"idle", "failed", "detached"} => pins'[r] = "none"
      PROVE  SchedulerInv'
  <2>1. /\ caller' \in [Requests -> CallerStates]
        /\ \A x \in Requests : caller'[x] = IF x = r THEN c ELSE caller[x]
    BY <1>1, <1>3
  <2>2. CallersMatchPins'
    BY <1>3, <2>1 DEF SchedulerInv, CallersMatchPins, KeepsOthers
  <2> QED BY <1>1, <1>2, <1>3, <2>1, <2>2 DEF SchedulerInv, PinsInv, PinTypes, SchedulerTypeOK
<1>4. CASE Overflow(r)
  <2>1. /\ owners' = owners /\ queues' = queues /\ roundRobin' = roundRobin
        /\ pins' = [pins EXCEPT ![r] = "overflow"]
        /\ caller' = [caller EXCEPT ![r] = "remote"]
    BY <1>4 DEF Overflow
  <2>2. /\ pins' \in [Requests -> LeaseStates]
        /\ \A x \in Requests : pins'[x] = IF x = r THEN "overflow" ELSE pins[x]
    BY <1>1, <2>1 DEF PinsInv, PinTypes, LeaseStates
  <2>3. \A k \in DOMAIN queues : \A x \in Ids(queues[k]) : x \in Requests /\ x # r
    <3>1. ASSUME NEW k \in DOMAIN queues, NEW x \in Ids(queues[k])
          PROVE  x \in Requests /\ x # r
      <4>1. queues[k] \in Seq(Requests)
        BY <1>1 DEF PinsInv, PinTypes
      <4>2. pins[x] = "queued"
        BY <1>1 DEF PinsInv, PinsMatchQueues
      <4> QED BY <1>1, <4>1, <4>2 DEF Ids
    <3> QED BY <3>1
  <2>4. PinsMatchQueues'
    BY <1>1, <2>1, <2>2, <2>3 DEF PinsInv, PinsMatchQueues
  <2>5. PinTypes' /\ RoundRobinMatchesQueues' /\ NoIdleSlotWhileQueued'
    BY <1>1, <2>1, <2>2
       DEF PinsInv, PinTypes, RoundRobinMatchesQueues, NoIdleSlotWhileQueued
  <2>6. PinsInv' /\ KeepsOthers(r)
    BY <2>2, <2>4, <2>5 DEF PinsInv, KeepsOthers
  <2> QED BY <1>3, <2>1, <2>6 DEF CallerStates
<1>5. CASE Refuse(r)
  <2>1. /\ owners' = owners /\ queues' = queues /\ roundRobin' = roundRobin
        /\ pins' = pins /\ caller' = [caller EXCEPT ![r] = "failed"]
    BY <1>5 DEF Refuse, pinVars
  <2>2. PinsInv' /\ KeepsOthers(r)
    BY <1>1, <2>1 DEF PinsInv, PinTypes, RoundRobinMatchesQueues, PinsMatchQueues,
                      NoIdleSlotWhileQueued, KeepsOthers
  <2> QED BY <1>1, <1>3, <2>1, <2>2 DEF CallerStates
<1>6. CASE HasIdleSlot /\ AdmitLocally(r)
  <2>1. /\ owners' = owners \cup {r} /\ queues' = queues /\ roundRobin' = roundRobin
        /\ pins' = [pins EXCEPT ![r] = "acquired"]
        /\ caller' = [caller EXCEPT ![r] = "local"]
    BY <1>6 DEF AdmitLocally
  <2>2. /\ pins' \in [Requests -> LeaseStates]
        /\ \A x \in Requests : pins'[x] = IF x = r THEN "acquired" ELSE pins[x]
    BY <1>1, <2>1 DEF PinsInv, PinTypes, LeaseStates
  <2>3. DOMAIN queues = {} /\ Cardinality(owners) < MaxLocal
    BY <1>6 DEF HasIdleSlot
  <2>4. Cardinality(owners') <= MaxLocal
    <3>1. IsFiniteSet(owners) /\ Cardinality(owners) \in Nat
      BY <1>1, OwnersFinite DEF PinsInv
    <3>2. r \notin owners
      BY <1>1 DEF PinsInv, PinsMatchQueues
    <3>3. Cardinality(owners \cup {r}) = Cardinality(owners) + 1
      BY <3>1, <3>2, FS_AddElement
    <3> QED BY <2>1, <2>3, <3>1, <3>3, LimitAssumption
  <2>5. PinsMatchQueues'
    BY <1>1, <2>1, <2>2, <2>3 DEF PinsInv, PinsMatchQueues
  <2>6. PinTypes' /\ RoundRobinMatchesQueues' /\ NoIdleSlotWhileQueued'
    BY <1>1, <2>1, <2>2, <2>3, <2>4
       DEF PinsInv, PinTypes, RoundRobinMatchesQueues, NoIdleSlotWhileQueued
  <2>7. PinsInv' /\ KeepsOthers(r)
    BY <2>2, <2>5, <2>6 DEF PinsInv, KeepsOthers
  <2> QED BY <1>3, <2>1, <2>7 DEF CallerStates
<1>7. CASE ~HasIdleSlot /\ Enqueue(r)
  <2>1. PinsInv' /\ KeepsOthers(r)
    BY <1>1, <1>7, EnqueueKeeps
  <2>2. caller' = [caller EXCEPT ![r] = "notifying"]
    BY <1>7 DEF Enqueue
  <2> QED BY <1>3, <2>1, <2>2 DEF CallerStates
<1> QED BY <1>4, <1>5, <1>6, <1>7 DEF Acquire

\* A turn that calls release: GiveUp, Detach and Finalize differ in where the
\* caller goes next.
LEMMA ReleasingStepKeeps ==
    ASSUME SchedulerInv, NEW r \in Requests, NEW c \in CallerStates, Release(r),
           caller' = [caller EXCEPT ![r] = c], localEnabled' = localEnabled
    PROVE  SchedulerInv'
<1>1. PinsInv /\ caller \in [Requests -> CallerStates] /\ localEnabled \in BOOLEAN
  BY DEF SchedulerInv, SchedulerTypeOK, PinsInv, PinTypes
<1>2. PinsInv' /\ pins'[r] = "none" /\ KeepsOthers(r)
  BY <1>1, ReleaseKeeps
<1>3. /\ caller' \in [Requests -> CallerStates]
      /\ \A x \in Requests : caller'[x] = IF x = r THEN c ELSE caller[x]
  BY <1>1
<1>4. CallersMatchPins'
  BY <1>2, <1>3 DEF SchedulerInv, CallersMatchPins, KeepsOthers
<1> QED BY <1>1, <1>2, <1>3, <1>4 DEF SchedulerInv, PinsInv, PinTypes, SchedulerTypeOK

\* A step of a caller that leaves the scheduler alone.
LEMMA CallerStepKeeps ==
    ASSUME SchedulerInv, NEW r \in Requests, NEW c \in CallerStates, UNCHANGED pinVars,
           caller' = [caller EXCEPT ![r] = c], localEnabled' = localEnabled,
           c \in {"idle", "failed", "detached"} => pins[r] = "none"
    PROVE  SchedulerInv'
<1>1. caller \in [Requests -> CallerStates]
  BY DEF SchedulerInv, SchedulerTypeOK
<1>2. /\ caller' \in [Requests -> CallerStates]
      /\ \A x \in Requests : caller'[x] = IF x = r THEN c ELSE caller[x]
  BY <1>1
<1>3. CallersMatchPins'
  BY <1>2 DEF SchedulerInv, CallersMatchPins, pinVars
<1> QED BY <1>2, <1>3 DEF SchedulerInv, SchedulerTypeOK, RoundRobinMatchesQueues, PinsMatchQueues,
                          NoIdleSlotWhileQueued, pinVars

\* The invariant is inductive: one step per action of the specification.
LEMMA NextSchedulerInv == SchedulerInv /\ [SchedulerNext]_schedulerVars => SchedulerInv'
<1> SUFFICES ASSUME SchedulerInv, [SchedulerNext]_schedulerVars PROVE SchedulerInv'
  OBVIOUS
<1>1. ASSUME NEW r \in Requests, NEW high \in BOOLEAN, NEW flash \in BOOLEAN,
             NEW available \in BOOLEAN, Acquire(r, high, flash, available)
      PROVE  SchedulerInv'
  BY <1>1, AcquireKeeps
<1>2. ASSUME NEW r \in Requests, NotifyQueued(r) PROVE SchedulerInv'
  BY <1>2, CallerStepKeeps DEF NotifyQueued, CallerStates, pinVars
<1>3. ASSUME NEW r \in Requests, NotifyFails(r) PROVE SchedulerInv'
  BY <1>3, CallerStepKeeps DEF NotifyFails, CallerStates, pinVars
<1>4. ASSUME NEW r \in Requests, Resume(r) PROVE SchedulerInv'
  BY <1>4, CallerStepKeeps DEF Resume, CallerStates, pinVars
<1>5. ASSUME NEW r \in Requests, GiveUp(r) PROVE SchedulerInv'
  BY <1>5, ReleasingStepKeeps DEF GiveUp, CallerStates
<1>6. ASSUME NEW r \in Requests, Detach(r) PROVE SchedulerInv'
  BY <1>6, ReleasingStepKeeps DEF Detach, CallerStates
<1>7. ASSUME NEW r \in Requests, Finalize(r) PROVE SchedulerInv'
  BY <1>7, ReleasingStepKeeps DEF Finalize, CallerStates
<1>8. ASSUME NEW r \in Requests, NextTurn(r) PROVE SchedulerInv'
  <2>1. pins[r] = "none"
    BY <1>8 DEF NextTurn, SchedulerInv, CallersMatchPins
  <2> QED BY <1>8, <2>1, CallerStepKeeps DEF NextTurn, CallerStates, pinVars
<1>9. ASSUME NEW enabled \in BOOLEAN, SetLocalEnabled(enabled) PROVE SchedulerInv'
  BY <1>9 DEF SetLocalEnabled, SchedulerInv, SchedulerTypeOK, RoundRobinMatchesQueues, PinsMatchQueues,
              NoIdleSlotWhileQueued, CallersMatchPins, pinVars
<1>10. CASE UNCHANGED schedulerVars
  BY <1>10 DEF schedulerVars, SchedulerInv, SchedulerTypeOK, RoundRobinMatchesQueues, PinsMatchQueues,
               NoIdleSlotWhileQueued, CallersMatchPins
<1> QED BY <1>1, <1>2, <1>3, <1>4, <1>5, <1>6, <1>7, <1>8, <1>9, <1>10
        DEF SchedulerNext, AdmissionStep

\* The inductive invariant holds in every reachable state.
THEOREM SchedulerInvariance == SchedulerSpec => []SchedulerInv
<1> QED BY InitSchedulerInv, NextSchedulerInv, PTL DEF SchedulerSpec

\* Every variable keeps its type (SchedulerTypeOK).
THEOREM TypeCorrect == SchedulerSpec => []SchedulerTypeOK
<1>1. SchedulerInv => SchedulerTypeOK
  BY DEF SchedulerInv
<1> QED BY <1>1, SchedulerInvariance, PTL

\* The local slots are never overcommitted and never idle while a turn waits
\* (acquire, release and _promote together).
THEOREM SlotsNeverIdleWhileQueued == SchedulerSpec => []NoIdleSlotWhileQueued
<1>1. SchedulerInv => NoIdleSlotWhileQueued
  BY DEF SchedulerInv
<1> QED BY <1>1, SchedulerInvariance, PTL

\* The four collections acquire and release keep of the same requests agree:
\* _pins, _owners and _queues, and the round robin, which lists exactly the keys
\* with a queue and leaves no empty queue behind.
THEOREM CollectionsAgree == SchedulerSpec => []ViewsAgree
<1>1. SchedulerInv => ViewsAgree
  BY DEF SchedulerInv, ViewsAgree
<1> QED BY <1>1, SchedulerInvariance, PTL

\* A turn that is over, or that acquire refused, timed out or cancelled, keeps
\* no pin, also when the time-out came after its promotion.
THEOREM NoPinOutlivesItsTurn == SchedulerSpec => []NoOrphanPin
<1>1. SchedulerInv => NoOrphanPin
  BY DEF SchedulerInv, CallersMatchPins, NoOrphanPin
<1> QED BY <1>1, SchedulerInvariance, PTL

-----------------------------------------------------------------------------
(***************************************************************************)
(* First come, first served within a key.                                  *)
(***************************************************************************)
\* No queued request of a key is passed over by a later one of the same key.
Fifo == \A k \in DOMAIN queues : \A i, j \in DOMAIN queues[k] :
            (i < j /\ pins'[queues[k][j]] = "acquired")
              => pins'[queues[k][i]] # "queued"

\* A step that promotes nobody passes nobody over.
LEMMA NoGrantFifo ==
    ASSUME SchedulerInv,
           \A q \in Requests : pins[q] = "queued" => pins'[q] # "acquired"
    PROVE  Fifo
<1> SUFFICES ASSUME NEW k \in DOMAIN queues, NEW i \in DOMAIN queues[k],
                    NEW j \in DOMAIN queues[k]
             PROVE  pins'[queues[k][j]] # "acquired"
  BY DEF Fifo
<1>1. queues[k] \in Seq(Requests)
  BY DEF SchedulerInv, SchedulerTypeOK
<1>2. queues[k][j] \in Requests /\ queues[k][j] \in Ids(queues[k])
  BY <1>1 DEF Ids
<1>3. pins[queues[k][j]] = "queued"
  BY <1>2 DEF SchedulerInv, PinsMatchQueues
<1> QED BY <1>2, <1>3

\* _promote grants the slot to the head of one queue, and to nobody else: who
\* it is, and what becomes of the pins.
LEMMA PromoteGrantsHead ==
    ASSUME SchedulerInv, NEW r \in Requests, r \in owners, roundRobin # <<>>, Promote(r)
    PROVE  \E k \in DOMAIN queues :
             /\ queues[k] \in Seq(Requests) /\ queues[k] # <<>>
             /\ Head(queues[k]) \in Requests /\ pins[Head(queues[k])] = "queued"
             /\ pins' = [pins EXCEPT ![r] = "none", ![Head(queues[k])] = "acquired"]
<1> DEFINE turns == TurnOrder(KeyOf[r])
           k     == Head(turns)
<1>1. /\ turns \in Seq(Keys) /\ Distinct(turns) /\ turns # <<>>
      /\ Ids(turns) = DOMAIN queues
  BY TurnOrderFacts DEF SchedulerInv, SchedulerTypeOK, RoundRobinMatchesQueues
<1>2. k \in DOMAIN queues
  <2> HIDE DEF turns
  <2> QED BY <1>1, TailDistinct
<1>3. pins' = [pins EXCEPT ![r] = "none", ![Head(queues[k])] = "acquired"]
  BY DEF Promote
<1> HIDE DEF k
<1>4. queues[k] \in Seq(Requests) /\ queues[k] # <<>> /\ Distinct(queues[k])
  BY <1>2 DEF SchedulerInv, SchedulerTypeOK, RoundRobinMatchesQueues, PinsMatchQueues
<1>5. Head(queues[k]) \in Requests /\ Head(queues[k]) \in Ids(queues[k])
  BY <1>4, TailDistinct
<1>6. pins[Head(queues[k])] = "queued"
  BY <1>2, <1>5 DEF SchedulerInv, PinsMatchQueues
<1> QED BY <1>2, <1>3, <1>4, <1>5, <1>6

\* Releasing a pin passes nobody over.
LEMMA ReleaseFifo ==
    ASSUME SchedulerInv, NEW r \in Requests, Release(r)
    PROVE  Fifo
<1>0. pins \in [Requests -> LeaseStates]
  BY DEF SchedulerInv, SchedulerTypeOK
<1>1. CASE pins' = pins \/ pins' = [pins EXCEPT ![r] = "none"]
  BY <1>0, <1>1, NoGrantFifo
<1>2. CASE r \in owners /\ roundRobin # <<>> /\ Promote(r)
  <2>1. PICK k \in DOMAIN queues :
          /\ queues[k] \in Seq(Requests) /\ queues[k] # <<>>
          /\ Head(queues[k]) \in Requests /\ pins[Head(queues[k])] = "queued"
          /\ pins' = [pins EXCEPT ![r] = "none", ![Head(queues[k])] = "acquired"]
    BY <1>2, PromoteGrantsHead
  <2> SUFFICES ASSUME NEW x \in DOMAIN queues, NEW i \in DOMAIN queues[x],
                      NEW j \in DOMAIN queues[x], i < j,
                      pins'[queues[x][j]] = "acquired"
               PROVE  FALSE
    BY DEF Fifo
  <2>2. queues[x] \in Seq(Requests) /\ Distinct(queues[x])
    BY DEF SchedulerInv, SchedulerTypeOK, PinsMatchQueues
  <2>3. queues[x][j] \in Requests /\ queues[x][j] \in Ids(queues[x])
    BY <2>2 DEF Ids
  <2>4. pins[queues[x][j]] = "queued" /\ KeyOf[queues[x][j]] = x
    BY <2>3 DEF SchedulerInv, PinsMatchQueues
  <2>5. queues[x][j] = Head(queues[k])
    BY <1>0, <2>1, <2>3, <2>4
  <2>6. Head(queues[k]) \in Ids(queues[k])
    BY <2>1 DEF Ids
  <2>7. x = k
    BY <2>4, <2>5, <2>6 DEF SchedulerInv, PinsMatchQueues
  <2>8. Head(queues[x]) = queues[x][1] /\ 1 \in DOMAIN queues[x] /\ i >= 1 /\ j # 1
    BY <2>1, <2>2, <2>7
  <2> QED BY <2>2, <2>5, <2>7, <2>8 DEF Distinct
<1> QED BY <1>1, <1>2 DEF Release, ReleaseOwner, ReleaseQueued, ReleaseRemote, pinVars

\* acquire grants a slot only to the turn that asks, which is not queued.
LEMMA AcquireFifo ==
    ASSUME SchedulerInv, NEW r \in Requests, NEW high \in BOOLEAN, NEW flash \in BOOLEAN,
           NEW available \in BOOLEAN, Acquire(r, high, flash, available)
    PROVE  Fifo
<1>1. pins[r] = "none" /\ pins \in [Requests -> LeaseStates]
  BY DEF Acquire, SchedulerInv, CallersMatchPins, SchedulerTypeOK
<1>2. pins' = pins \/ \E p \in LeaseStates : pins' = [pins EXCEPT ![r] = p]
  BY DEF Acquire, Overflow, Refuse, AdmitLocally, Enqueue, pinVars, LeaseStates
<1> QED BY <1>1, <1>2, NoGrantFifo

\* Within an API key the slot goes to the request that was queued first
\* (_promote pops the left end of the key's deque).
THEOREM KeysAreServedInOrder == SchedulerSpec => PerKeyFifo
<1>1. SchedulerInv /\ [SchedulerNext]_schedulerVars => [Fifo]_schedulerVars
  <2> SUFFICES ASSUME SchedulerInv, SchedulerNext PROVE Fifo
    OBVIOUS
  <2>1. ASSUME NEW r \in Requests, NEW high \in BOOLEAN, NEW flash \in BOOLEAN,
               NEW available \in BOOLEAN, Acquire(r, high, flash, available)
        PROVE  Fifo
    BY <2>1, AcquireFifo
  <2>2. ASSUME NEW r \in Requests, GiveUp(r) \/ Detach(r) \/ Finalize(r) PROVE Fifo
    BY <2>2, ReleaseFifo DEF GiveUp, Detach, Finalize
  <2>3. CASE UNCHANGED pinVars
    BY <2>3, NoGrantFifo DEF pinVars
  <2> QED BY <2>1, <2>2, <2>3
          DEF SchedulerNext, AdmissionStep, NotifyQueued, NotifyFails, Resume, NextTurn, SetLocalEnabled
<1>2. PerKeyFifo <=> [][Fifo]_schedulerVars
  BY DEF PerKeyFifo, Fifo
<1> QED BY <1>1, <1>2, SchedulerInvariance, PTL DEF SchedulerSpec

-----------------------------------------------------------------------------
(***************************************************************************)
(* The scheduler implements LeasePool.                                     *)
(***************************************************************************)
Phase == [r \in Requests |-> PhaseOf[pins[r]]]

\* A pin tells the phase and a phase the pin; the holders are _owners, and a
\* turn waits exactly when some key has a queue.
LEMMA PhaseFacts ==
    ASSUME SchedulerInv
    PROVE  /\ Phase \in [Requests -> {"idle", "waiting", "holding", "remote"}]
           /\ \A r \in Requests :
                /\ Phase[r] = "idle" <=> pins[r] = "none"
                /\ Phase[r] = "waiting" <=> pins[r] = "queued"
                /\ Phase[r] = "holding" <=> pins[r] = "acquired"
                /\ Phase[r] = "remote" <=> pins[r] = "overflow"
           /\ {r \in Requests : Phase[r] = "holding"} = owners
           /\ {r \in Requests : Phase[r] = "waiting"} = {} <=> DOMAIN queues = {}
<1>1. \A p \in LeaseStates :
        /\ PhaseOf[p] \in {"idle", "waiting", "holding", "remote"}
        /\ PhaseOf[p] = "idle" <=> p = "none"
        /\ PhaseOf[p] = "waiting" <=> p = "queued"
        /\ PhaseOf[p] = "holding" <=> p = "acquired"
        /\ PhaseOf[p] = "remote" <=> p = "overflow"
  BY DEF LeaseStates, PhaseOf
<1>2. pins \in [Requests -> LeaseStates] /\ owners \subseteq Requests
  BY DEF SchedulerInv, SchedulerTypeOK
<1>3. /\ Phase \in [Requests -> {"idle", "waiting", "holding", "remote"}]
      /\ \A r \in Requests :
           /\ Phase[r] = "idle" <=> pins[r] = "none"
           /\ Phase[r] = "waiting" <=> pins[r] = "queued"
           /\ Phase[r] = "holding" <=> pins[r] = "acquired"
           /\ Phase[r] = "remote" <=> pins[r] = "overflow"
  BY <1>1, <1>2 DEF Phase
<1>4. {r \in Requests : Phase[r] = "holding"} = owners
  BY <1>2, <1>3 DEF SchedulerInv, PinsMatchQueues
<1>5. ASSUME NEW k \in DOMAIN queues PROVE \E r \in Requests : Phase[r] = "waiting"
  <2>1. queues[k] \in Seq(Requests) /\ queues[k] # <<>>
    BY DEF SchedulerInv, SchedulerTypeOK, RoundRobinMatchesQueues
  <2>2. Head(queues[k]) \in Requests /\ Head(queues[k]) \in Ids(queues[k])
    BY <2>1 DEF Ids
  <2> QED BY <1>3, <2>2 DEF SchedulerInv, PinsMatchQueues
<1>6. ASSUME NEW r \in Requests, Phase[r] = "waiting" PROVE DOMAIN queues # {}
  BY <1>3, <1>6 DEF SchedulerInv, PinsMatchQueues
<1> QED BY <1>3, <1>4, <1>5, <1>6

\* The pool counts its holders as the scheduler counts its owners.
LEMMA PoolCounts == \A S : Pool!Cardinality(S) = Cardinality(S)
BY DEF Pool!Cardinality, Cardinality

\* The image of a step on the pins is a step of the pool or leaves it alone.
PoolStep == [Pool!PoolNext]_Phase

\* The pins of a step that changes at most the pin of r, and the phases of it.
LEMMA PhaseAfter ==
    ASSUME SchedulerInv, NEW r \in Requests, NEW p \in LeaseStates,
           pins' = [pins EXCEPT ![r] = p]
    PROVE  Phase' = [Phase EXCEPT ![r] = PhaseOf[p]]
<1>1. pins \in [Requests -> LeaseStates]
  BY DEF SchedulerInv, SchedulerTypeOK
<1> QED BY <1>1 DEF Phase

\* acquire grants a free slot, queues behind a full pool or sends away.
LEMMA AcquirePool ==
    ASSUME SchedulerInv, NEW r \in Requests, NEW high \in BOOLEAN, NEW flash \in BOOLEAN,
           NEW available \in BOOLEAN, Acquire(r, high, flash, available)
    PROVE  PoolStep
<1>1. pins[r] = "none"
  BY DEF Acquire, SchedulerInv, CallersMatchPins
<1>2. Phase[r] = "idle"
  BY <1>1, PhaseFacts
<1>3. CASE Overflow(r)
  <2>1. Phase' = [Phase EXCEPT ![r] = "remote"]
    BY <1>3, PhaseAfter DEF Overflow, LeaseStates, PhaseOf
  <2> QED BY <1>2, <2>1 DEF PoolStep, Pool!PoolNext, Pool!SendRemote, Phase
<1>4. CASE Refuse(r)
  BY <1>4 DEF Refuse, pinVars, PoolStep, Phase
<1>5. CASE HasIdleSlot /\ AdmitLocally(r)
  <2>1. Phase' = [Phase EXCEPT ![r] = "holding"]
    BY <1>5, PhaseAfter DEF AdmitLocally, LeaseStates, PhaseOf
  <2>2. /\ Cardinality({q \in Requests : Phase[q] = "holding"}) < MaxLocal
        /\ {q \in Requests : Phase[q] = "waiting"} = {}
    BY <1>5, PhaseFacts DEF HasIdleSlot
  <2> QED BY <1>2, <2>1, <2>2, PoolCounts
          DEF PoolStep, Pool!PoolNext, Pool!Grant, Pool!Holders, Pool!Waiters, Phase
<1>6. CASE ~HasIdleSlot /\ Enqueue(r)
  <2>1. Phase' = [Phase EXCEPT ![r] = "waiting"]
    BY <1>6, PhaseAfter DEF Enqueue, LeaseStates, PhaseOf
  <2>2. IsFiniteSet(owners) /\ Cardinality(owners) \in Nat
    BY OwnersFinite DEF SchedulerInv, SchedulerTypeOK, PinTypes
  <2>3. Cardinality(owners) = MaxLocal
    <3> DEFINE n == Cardinality(owners)
    <3>1. n \in Nat /\ MaxLocal \in Nat /\ n <= MaxLocal
      BY <2>2, LimitAssumption DEF SchedulerInv, NoIdleSlotWhileQueued
    <3>2. DOMAIN queues # {} => n = MaxLocal
      BY DEF SchedulerInv, NoIdleSlotWhileQueued
    <3>3. ~(n < MaxLocal) \/ DOMAIN queues # {}
      BY <1>6 DEF HasIdleSlot
    <3> HIDE DEF n
    <3>4. n = MaxLocal
      BY <3>1, <3>2, <3>3
    <3> QED BY <3>4 DEF n
  <2>4. Cardinality({q \in Requests : Phase[q] = "holding"}) = MaxLocal
    BY <2>3, PhaseFacts
  <2> QED BY <1>2, <2>1, <2>4, PoolCounts
          DEF PoolStep, Pool!PoolNext, Pool!Enqueue, Pool!Holders, Phase
<1> QED BY <1>3, <1>4, <1>5, <1>6 DEF Acquire

\* release gives a lease to a waiter if there is one, and otherwise frees it.
LEMMA ReleasePool ==
    ASSUME SchedulerInv, NEW r \in Requests, Release(r)
    PROVE  PoolStep
<1>0. pins \in [Requests -> LeaseStates] /\ "none" \in LeaseStates
      /\ PhaseOf["none"] = "idle"
  BY DEF SchedulerInv, SchedulerTypeOK, LeaseStates, PhaseOf
<1>1. CASE UNCHANGED pinVars
  BY <1>1 DEF pinVars, PoolStep, Phase
<1>2. CASE r \in owners /\ roundRobin = <<>> /\ pins' = [pins EXCEPT ![r] = "none"]
  <2>1. Phase' = [Phase EXCEPT ![r] = "idle"]
    BY <1>0, <1>2, PhaseAfter
  <2>2. DOMAIN queues = {}
    <3>1. DOMAIN roundRobin = {}
      BY <1>2
    <3> QED BY <3>1 DEF SchedulerInv, RoundRobinMatchesQueues, Ids
  <2>3. Phase[r] = "holding" /\ {q \in Requests : Phase[q] = "waiting"} = {}
    BY <1>2, <2>2, PhaseFacts DEF SchedulerInv, PinsMatchQueues
  <2> QED BY <2>1, <2>3 DEF PoolStep, Pool!PoolNext, Pool!Return, Pool!Waiters, Phase
<1>3. CASE r \in owners /\ roundRobin # <<>> /\ Promote(r)
  <2>1. PICK k \in DOMAIN queues :
          /\ queues[k] \in Seq(Requests) /\ queues[k] # <<>>
          /\ Head(queues[k]) \in Requests /\ pins[Head(queues[k])] = "queued"
          /\ pins' = [pins EXCEPT ![r] = "none", ![Head(queues[k])] = "acquired"]
    BY <1>3, PromoteGrantsHead
  <2> DEFINE w == Head(queues[k])
  <2>2. w \in Requests /\ Phase[w] = "waiting" /\ Phase[r] = "holding"
    BY <1>3, <2>1, PhaseFacts DEF SchedulerInv, PinsMatchQueues
  <2>3. Phase' = [Phase EXCEPT ![r] = "idle", ![w] = "holding"]
    <3> HIDE DEF w
    <3>1. pins' = [pins EXCEPT ![r] = "none", ![w] = "acquired"]
      BY <2>1 DEF w
    <3> QED BY <1>0, <2>2, <3>1 DEF Phase, PhaseOf
  <2> HIDE DEF w
  <2>4. w \in {q \in Requests : Phase[q] = "waiting"}
    BY <2>2
  <2> QED BY <2>2, <2>3, <2>4 DEF PoolStep, Pool!PoolNext, Pool!Return, Pool!Waiters, Phase
<1>4. CASE pins[r] \in {"queued", "overflow"} /\ pins' = [pins EXCEPT ![r] = "none"]
  <2>1. Phase' = [Phase EXCEPT ![r] = "idle"]
    BY <1>0, <1>4, PhaseAfter
  <2>2. Phase[r] \in {"waiting", "remote"}
    BY <1>4, PhaseFacts
  <2> QED BY <2>1, <2>2 DEF PoolStep, Pool!PoolNext, Pool!Leave, Phase
<1> QED BY <1>1, <1>2, <1>3, <1>4
        DEF Release, ReleaseOwner, ReleaseQueued, ReleaseRemote

\* The scheduler implements the pool: every behaviour of acquire, release and
\* the waiting turns, seen through the pins, is one of LeasePool.
THEOREM SchedulerImplementsPool == SchedulerSpec => ImplementsPool
<1>1. SchedulerInit => Pool!PoolInit
  BY DEF SchedulerInit, Pool!PoolInit, PhaseOf
<1>2. SchedulerInv /\ [SchedulerNext]_schedulerVars => [Pool!PoolNext]_Phase
  <2> SUFFICES ASSUME SchedulerInv, [SchedulerNext]_schedulerVars PROVE PoolStep
    BY DEF PoolStep
  <2>1. ASSUME NEW r \in Requests, NEW high \in BOOLEAN, NEW flash \in BOOLEAN,
               NEW available \in BOOLEAN, Acquire(r, high, flash, available)
        PROVE  PoolStep
    BY <2>1, AcquirePool
  <2>2. ASSUME NEW r \in Requests, GiveUp(r) \/ Detach(r) \/ Finalize(r) PROVE PoolStep
    BY <2>2, ReleasePool DEF GiveUp, Detach, Finalize
  <2>3. CASE UNCHANGED pinVars
    BY <2>3 DEF pinVars, PoolStep, Phase
  <2> QED BY <2>1, <2>2, <2>3
          DEF SchedulerNext, AdmissionStep, NotifyQueued, NotifyFails, Resume, NextTurn, SetLocalEnabled,
              schedulerVars, pinVars
<1>3. ImplementsPool <=> Pool!PoolInit /\ [][Pool!PoolNext]_Phase
  BY DEF ImplementsPool, Pool!PoolSpec, Phase
<1> QED BY <1>1, <1>2, <1>3, SchedulerInvariance, PTL DEF SchedulerSpec

-----------------------------------------------------------------------------
Serving == {"ready", "unload_queued"}      \* the states leases are held in
Aborting == {"cancelling", "off_stopping"} \* an OFF that stops without the lock
Runs == unit \in {"active", "activating"}
Reconciled == gateway \notin {"down", "recovered"}

ControlTyped ==
    /\ manualDrain \in {"none", "polling", "disabling"}
    /\ joining \in BOOLEAN /\ strayStop \in BOOLEAN

(***************************************************************************)
(* The record and who works on it.                                         *)
(***************************************************************************)
\* A load has the record for itself.
LoadApart == load # "none" => state \notin Serving \cup {"unloading"}

\* While an admitted unload is at work the record says so.
StopsRecorded == \A a \in Workers : pc[a] \in Stopping => state = "unloading"

\* Start-up finds nobody at work, and the automation takes no operator's steps.
WorkersFit ==
    /\ gateway \in {"down", "recovered", "reconciled"} => \A a \in Workers : pc[a] = "idle"
    /\ pc["sched"] \in {"idle", "wait_unload"} \cup Holding
    /\ pc["drain"] \in {"idle", "polling", "wait_unload"} \cup Holding

\* Whoever was let through by the latch cannot find it closed: the only failure
\* that could close it meanwhile is his own.
LatchFits ==
    /\ \A a \in Workers :
         /\ pc[a] = "admitted" => ~Latched
         /\ pc[a] = "sampling" /\ a \in fresh /\ state \in Serving => ~Latched
    /\ load # "none" /\ ~registered => cancelled

RecordFits == LoadApart /\ StopsRecorded /\ WorkersFit /\ LatchFits

(***************************************************************************)
(* The turns: a lease is work in progress, and so is a pin.                *)
(***************************************************************************)
LeasesFit ==
    /\ gateway # "down" => \A r \in leases : req[r] \in {"running", "streaming"}
    /\ gateway \in {"recovered", "reconciled", "disabling"} => leases = {}

CallersFit ==
    \A r \in Requests :
        /\ req[r] \in {"running", "streaming"} => caller[r] = "local"
        /\ req[r] = "refused" => caller[r] = "idle"
        /\ caller[r] = "local" => r \in owners

(***************************************************************************)
(* The operator: the console, which serves one call at a time, and the     *)
(* drain that an OFF with pins leaves behind.                              *)
(***************************************************************************)
AtOff(o) == pc[o] \notin {"idle", "wait_on", "wait_ensure"}

\* An OFF is at work on a role without leases, and an ON, which has joined the
\* drain, alone.
ConsoleFits ==
    /\ AtOff(Console) => leases = {} /\ ~desired
    /\ joining => pc[Console] = "idle"
    /\ pc[Console] \in {"wait_on", "wait_ensure"} =>
         pc[PinDrain] = "idle" /\ manualDrain = "none" /\ desired

\* The drain switches off a role without pins, where none is taken any more, or
\* an ON has cancelled it and waits for its end.
PinDrainFits ==
    pc[PinDrain] # "idle" =>
        /\ leases = {} /\ AtOff(PinDrain)
        /\ manualDrain = "disabling"
        /\ joining \/ (~localEnabled /\ NoPins)

\* What is left of an OFF goes with the switch, but for a drain that owns the
\* stop when an ON comes; that ON then reopens the role.
SwitchFits ==
    /\ manualDrain # "none" => ~desired
    /\ manualDrain = "polling" => ~localEnabled
    /\ pc["boot"] # "idle" => ~desired
    /\ pc["drain"] # "idle" =>
         ~desired \/ (pc[Console] = "wait_on" /\ pc["drain"] \in Stopping)
    /\ Up /\ desired /\ state = "disabled" => pc[Console] = "wait_on"
    /\ gateway = "reconciled" => state \in {"cold", "ready", "failed"}
    /\ gateway = "disabling" => ~desired

OperatorFits == ConsoleFits /\ PinDrainFits /\ SwitchFits

(***************************************************************************)
(* The stop in a thread nobody waits for, and the OFFs it comes from.      *)
(***************************************************************************)
StrayFits ==
    /\ strayStop \/ pc[PinDrain] \in Aborting => state \notin Serving
    /\ strayStop => Up /\ leases = {} /\ load \in {"none", "created", "cursor", "starting"}
    /\ \A a \in Callers : pc[a] = "off_stopping" /\ load # "none" => ~registered
    /\ \A a \in Callers : pc[a] = "cancelling" => ~registered \/ load = "none"

(***************************************************************************)
(* Without failures of the driver, the probes or the unit the record of a  *)
(* role that is off or cold is right, or somebody is about to make it so.  *)
(***************************************************************************)
AbortInProgress == \E o \in Operators : pc[o] = "cancelling"

UnitFits ==
    /\ \A a \in Workers : pc[a] = "sampling_after" => unit = "inactive"
    /\ load \in {"created", "cursor"} => ~Latched
    /\ Reconciled /\ state = "cold" => load = "none"
    /\ Reconciled /\ state = "disabled" /\ load # "none" => AbortInProgress
    /\ \A a \in Callers :
         pc[a] \in {"off_stopping", "wait_off"} /\ load # "none" => AbortInProgress
    /\ Runs /\ Reconciled
         /\ (state \in {"cold", "disabled"} \/ \E a \in Callers : pc[a] = "wait_off")
       => strayStop \/ \E a \in Callers : pc[a] \in Aborting

ServiceFits == ~Faults => UnitFits /\ LeasedRoleServes

RoleFits == RecordFits /\ OperatorFits /\ StrayFits /\ ServiceFits

ControlFits == ControlTyped /\ LeasesFit /\ RoleFits

ControlInv == IInv /\ Owned /\ SchedulerInv /\ CallersFit /\ ControlFits
-----------------------------------------------------------------------------
(***************************************************************************)
(* The scheduler under the handlers.                                       *)
(***************************************************************************)
\* A lease is taken by a turn that owns a slot.
LEMMA LeasesArePinned ==
    ASSUME IInv, LeasesFit, CallersFit, gateway # "down"
    PROVE  leases \subseteq owners
BY DEF IInv, Typed, HoldersTyped, LeasesFit, CallersFit

\* release takes a slot from nobody else, and pins nobody where nobody waits.
LEMMA ReleaseSparesOthers ==
    ASSUME NEW r \in Requests, SchedulerInv, Release(r)
    PROVE  owners \ {r} \subseteq owners' /\ (NoPins => NoPins')
<1>1. owners \ {r} \subseteq owners'
  BY DEF Release, ReleaseOwner, Promote, ReleaseQueued, ReleaseRemote, pinVars
<1>2. ASSUME NoPins PROVE NoPins'
  <2>1. r \notin owners /\ pins[r] # "queued"
    BY <1>2 DEF NoPins, SchedulerInv, PinsMatchQueues
  <2> QED BY <1>2, <2>1 DEF Release, ReleaseRemote, pinVars, NoPins
<1> QED BY <1>1, <1>2

\* acquire takes no slot away, and pins nobody where the local Executor is off.
LEMMA AcquireSparesOthers ==
    ASSUME NEW r \in Requests, NEW high, NEW flash, NEW available,
           Acquire(r, high, flash, available)
    PROVE  owners \subseteq owners' /\ (NoPins /\ ~localEnabled => NoPins')
BY DEF Acquire, Overflow, Refuse, AdmitLocally, Enqueue, pinVars, NoPins

\* The pin of a turn follows its caller.
LEMMA AcquireFits ==
    ASSUME NEW r \in Requests, NEW high, NEW flash, NEW available, SchedulerInv,
           Acquire(r, high, flash, available)
    PROVE  /\ caller[r] = "idle" /\ UNCHANGED localEnabled
           /\ \E where \in CallerStates :
                 caller' = [caller EXCEPT ![r] = where] /\ (where = "local" => r \in owners')
BY DEF Acquire, Overflow, Refuse, AdmitLocally, Enqueue, CallerStates

\* A turn's coroutine goes from one place to another; its own pin apart, it
\* takes none away and, where the local Executor is off, adds none.
CallerMoves(r, from, to) ==
    /\ caller[r] \in from
    /\ \E where \in to : /\ caller' = [caller EXCEPT ![r] = where]
                         /\ where = "local" => r \in owners'
    /\ owners \ {r} \subseteq owners' /\ (NoPins /\ ~localEnabled => NoPins')
    /\ UNCHANGED localEnabled

LEMMA AdmissionMoves ==
    ASSUME NEW r \in Requests, SchedulerInv, Admit(r) \/ AdmissionGoesOn(r)
    PROVE  /\ CallerMoves(r, {"idle", "notifying", "waiting"}, CallerStates)
           /\ UNCHANGED <<vars, controlVars>>
<1>1. CASE Admit(r)
  <2>1. PICK high \in BOOLEAN, flash \in BOOLEAN : Acquire(r, high, flash, desired \/ ~flash)
    BY <1>1 DEF Admit
  <2> QED BY <1>1, <2>1, AcquireSparesOthers, AcquireFits DEF Admit, CallerMoves
<1>2. CASE AdmissionGoesOn(r)
  <2>1. CASE NotifyQueued(r)
    BY <1>2, <2>1 DEF AdmissionGoesOn, NotifyQueued, CallerMoves, CallerStates, pinVars, NoPins
  <2>2. CASE Resume(r)
    <3>1. r \in owners
      BY <2>2 DEF Resume, SchedulerInv, PinsMatchQueues
    <3> QED BY <1>2, <2>2, <3>1 DEF AdmissionGoesOn, Resume, CallerMoves, CallerStates,
               pinVars, NoPins
  <2>3. CASE GiveUp(r)
    BY <1>2, <2>3, ReleaseSparesOthers DEF AdmissionGoesOn, GiveUp, CallerMoves, CallerStates
  <2> QED BY <1>2, <2>1, <2>2, <2>3 DEF AdmissionGoesOn
<1> QED BY <1>1, <1>2

LEMMA FinalizeMoves ==
    ASSUME NEW r \in Requests, SchedulerInv, Finalize(r) \/ NextTurn(r)
    PROVE  CallerMoves(r, {"local", "remote", "detached", "failed"}, {"idle"})
<1>1. CASE Finalize(r)
  BY <1>1, ReleaseSparesOthers DEF Finalize, CallerMoves
<1>2. CASE NextTurn(r)
  BY <1>2 DEF NextTurn, CallerMoves, pinVars, NoPins
<1> QED BY <1>1, <1>2

LEMMA DetachMoves ==
    ASSUME NEW r \in Requests, SchedulerInv, Detach(r)
    PROVE  CallerMoves(r, {"local"}, {"detached"})
BY ReleaseSparesOthers DEF Detach, CallerMoves

-----------------------------------------------------------------------------
(***************************************************************************)
(* The turns.                                                              *)
(***************************************************************************)
\* What a turn does with its own step and its own coroutine.
TurnAt(r, q, c) ==
    /\ req' = [req EXCEPT ![r] = q] /\ caller' = [caller EXCEPT ![r] = c]
    /\ owners \ {r} \subseteq owners'
    /\ q \in {"running", "streaming"} => c = "local"
    /\ q = "refused" => c = "idle"
    /\ c = "local" => r \in owners'

LEMMA TurnAtFits ==
    ASSUME NEW r \in Requests, NEW q, NEW c, Typed, SchedulerInv, CallersFit, TurnAt(r, q, c)
    PROVE  CallersFit'
BY DEF TurnAt, CallersFit, Typed, RequestsTyped, SchedulerInv, SchedulerTypeOK

\* What a turn may do to the role, besides asking for it: its lease is taken
\* between the operator's calls, of a ready role.
TurnTouches(r) ==
    /\ UNCHANGED <<gateway, desired, failures, unit, workers, retry, guards, localEnabled,
                   controlVars>>
    /\ \/ UNCHANGED <<state, fresh, loader>>
       \/ Up /\ EnsureReady /\ UNCHANGED leases
    /\ \/ leases' \subseteq leases
       \/ /\ Up /\ LockFree /\ state = "ready" /\ AdmissionFree /\ r \in owners
          /\ UNCHANGED <<state, fresh, loader>> /\ leases' = leases \cup {r}
    /\ NoPins /\ ~localEnabled => NoPins'

\* The three views of a turn's step: the Lifecycle's, the scheduler's, the rest.
TurnMoves(r) ==
    /\ RequestStep(r) \/ UNCHANGED vars
    /\ [AdmissionStep(r)]_schedulerVars \/ Disconnected(r)
    /\ TurnTouches(r) /\ CallersFit'

\* A turn asks for the role, and overflows at once when it cannot have it.
LEMMA CheckMoves ==
    ASSUME NEW r \in Requests, ControlInv, CheckExecutor(r)
    PROVE  TurnMoves(r)
<1>1. /\ caller[r] = "idle" /\ req[r] = "idle" /\ Up /\ EnsureReady
      /\ UNCHANGED <<desired, pc, controlVars>>
      /\ \/ CheckRole(r) /\ UNCHANGED schedulerVars
         \/ state' # "ready" /\ Acquire(r, FALSE, TRUE, FALSE) /\ UNCHANGED req
  BY DEF CheckExecutor, CheckRole
<1>2. CheckRole(r)
  <2>1. CASE UNCHANGED req /\ state' # "ready"
    <3>1. req = [req EXCEPT ![r] = "idle"]
      BY <1>1 DEF ControlInv, IInv, Typed, RequestsTyped
    <3> QED BY <1>1, <2>1, <3>1, ControlAssumption DEF CheckRole, To
  <2> QED BY <1>1, <2>1
<1>3. AdmissionStep(r) \/ UNCHANGED schedulerVars
  BY <1>1 DEF AdmissionStep
<1>4. owners \subseteq owners' /\ (NoPins /\ ~localEnabled => NoPins') /\ UNCHANGED localEnabled
  BY <1>1, AcquireSparesOthers DEF schedulerVars, NoPins, Acquire
<1>5. TurnTouches(r)
  BY <1>1, <1>4 DEF EnsureReady, TurnTouches, workers, holders
<1>6. CallersFit'
  <2>1. PICK c : caller' = [caller EXCEPT ![r] = c] /\ (c = "local" => r \in owners')
    <3>1. CASE UNCHANGED schedulerVars
      <4>1. caller' = [caller EXCEPT ![r] = "idle"]
        BY <1>1, <3>1 DEF schedulerVars, ControlInv, SchedulerInv, SchedulerTypeOK
      <4> WITNESS "idle"
      <4> QED BY <4>1
    <3>2. CASE Acquire(r, FALSE, TRUE, FALSE)
      BY <3>2, AcquireFits DEF ControlInv
    <3> QED BY <1>1, <3>1, <3>2
  <2>2. PICK q \in {"checked", "idle"} : req' = [req EXCEPT ![r] = q]
    BY <1>2 DEF CheckRole, To
  <2> QED BY <1>4, <2>1, <2>2, TurnAtFits DEF TurnAt, ControlInv, IInv
<1> QED BY <1>2, <1>3, <1>5, <1>6 DEF TurnMoves, RequestStep

\* A turn takes its first lease, or is refused and finalized.
LEMMA LeaseMoves ==
    ASSUME NEW r \in Requests, ControlInv, TakeLease(r)
    PROVE  TurnMoves(r)
<1>1. /\ caller[r] = "local" /\ AdmissionFree /\ Up /\ LockFree /\ r \in owners
      /\ UNCHANGED <<controlVars, state, fresh>> /\ RequestFrame
      /\ \/ state = "ready" /\ leases' = leases \cup {r} /\ To(r, "running")
               /\ UNCHANGED schedulerVars
         \/ UNCHANGED leases /\ To(r, "idle") /\ Finalize(r)
  <2>1. /\ caller[r] = "local" /\ AdmissionFree /\ Up /\ LockFree /\ r \in owners
        /\ UNCHANGED <<controlVars, state, fresh>> /\ RequestFrame
    BY DEF TakeLease, AcquireLease, ControlInv, CallersFit
  <2>2. CASE state = "ready"
    BY <2>1, <2>2 DEF TakeLease, AcquireLease, To, ControlInv, IInv, Typed, RequestsTyped
  <2>3. CASE state # "ready"
    BY <2>1, <2>3, ControlAssumption
    DEF TakeLease, AcquireLease, To, ControlInv, IInv, Typed, RequestsTyped
  <2> QED BY <2>1, <2>2, <2>3
<1>2. RequestStep(r)
  BY DEF TakeLease, RequestStep
<1>3. AdmissionStep(r) \/ UNCHANGED schedulerVars
  BY <1>1 DEF AdmissionStep
<1>4. /\ owners \ {r} \subseteq owners' /\ (NoPins /\ ~localEnabled => NoPins')
      /\ UNCHANGED localEnabled
  BY <1>1, FinalizeMoves DEF ControlInv, CallerMoves, schedulerVars, NoPins
<1>5. TurnTouches(r)
  BY <1>1, <1>4 DEF RequestFrame, TurnTouches
<1>6. CallersFit'
  <2>1. CASE To(r, "running") /\ UNCHANGED schedulerVars
    <3>1. caller' = [caller EXCEPT ![r] = "local"]
      BY <1>1, <2>1 DEF schedulerVars, ControlInv, SchedulerInv, SchedulerTypeOK
    <3>2. TurnAt(r, "running", "local")
      BY <1>1, <2>1, <3>1 DEF TurnAt, To, schedulerVars
    <3> QED BY <3>2, TurnAtFits DEF ControlInv, IInv
  <2>2. CASE To(r, "idle") /\ Finalize(r)
    <3>1. TurnAt(r, "idle", "idle")
      BY <1>4, <2>2 DEF TurnAt, To, Finalize
    <3> QED BY <3>1, TurnAtFits DEF ControlInv, IInv
  <2> QED BY <1>1, <2>1, <2>2
<1> QED BY <1>2, <1>3, <1>5, <1>6 DEF TurnMoves

\* The lease of the stream, or the end of the turn that is refused one.
LEMMA StreamMoves ==
    ASSUME NEW r \in Requests, ControlInv, TakeStreamLease(r)
    PROVE  TurnMoves(r)
<1>1. /\ caller[r] = "local" /\ r \in owners
      /\ UNCHANGED <<controlVars, state, fresh>> /\ RequestFrame /\ leases' \subseteq leases
      /\ \/ To(r, "streaming") /\ UNCHANGED schedulerVars
         \/ To(r, "refused") /\ Finalize(r)
  <2>1. /\ caller[r] = "local" /\ r \in owners
        /\ UNCHANGED <<controlVars, state, fresh>> /\ RequestFrame /\ leases' \subseteq leases
    BY DEF TakeStreamLease, OpenStream, ReleaseLease, ControlInv, CallersFit
  <2>2. To(r, "streaming") => req'[r] = "streaming"
    BY DEF To, ControlInv, IInv, Typed, RequestsTyped
  <2>3. To(r, "refused") => req'[r] = "refused"
    BY DEF To, ControlInv, IInv, Typed, RequestsTyped
  <2> QED BY <2>1, <2>2, <2>3 DEF TakeStreamLease, OpenStream
<1>2. RequestStep(r)
  BY DEF TakeStreamLease, RequestStep
<1>3. AdmissionStep(r) \/ UNCHANGED schedulerVars
  BY <1>1 DEF AdmissionStep
<1>4. /\ owners \ {r} \subseteq owners' /\ (NoPins /\ ~localEnabled => NoPins')
      /\ UNCHANGED localEnabled
  BY <1>1, FinalizeMoves DEF ControlInv, CallerMoves, schedulerVars, NoPins
<1>5. TurnTouches(r)
  BY <1>1, <1>4 DEF RequestFrame, TurnTouches
<1>6. CallersFit'
  <2>1. CASE To(r, "streaming") /\ UNCHANGED schedulerVars
    <3>1. caller' = [caller EXCEPT ![r] = "local"]
      BY <1>1, <2>1 DEF schedulerVars, ControlInv, SchedulerInv, SchedulerTypeOK
    <3>2. TurnAt(r, "streaming", "local")
      BY <1>1, <2>1, <3>1 DEF TurnAt, To, schedulerVars
    <3> QED BY <3>2, TurnAtFits DEF ControlInv, IInv
  <2>2. CASE To(r, "refused") /\ Finalize(r)
    <3>1. TurnAt(r, "refused", "idle")
      BY <1>4, <2>2 DEF TurnAt, To, Finalize
    <3> QED BY <3>1, TurnAtFits DEF ControlInv, IInv
  <2> QED BY <1>1, <2>1, <2>2
<1> QED BY <1>2, <1>3, <1>5, <1>6 DEF TurnMoves

\* The end of the local work, of a turn or of a part of it that goes on remotely.
LEMMA EndMoves ==
    ASSUME NEW r \in Requests, ControlInv, FinishLocal(r) \/ FallBack(r)
    PROVE  TurnMoves(r)
<1>1. /\ Finish(r) /\ UNCHANGED <<controlVars, state, fresh>> /\ RequestFrame
      /\ leases' \subseteq leases /\ To(r, "idle")
      /\ Finalize(r) \/ Detach(r)
  BY DEF FinishLocal, FallBack, Finish, ReleaseLease
<1>2. /\ owners \ {r} \subseteq owners' /\ (NoPins /\ ~localEnabled => NoPins')
      /\ UNCHANGED localEnabled
  BY <1>1, FinalizeMoves, DetachMoves DEF ControlInv, CallerMoves
<1>3. TurnTouches(r)
  BY <1>1, <1>2 DEF RequestFrame, TurnTouches
<1>4. CASE Finalize(r)
  <2>1. TurnAt(r, "idle", "idle")
    BY <1>1, <1>2, <1>4 DEF TurnAt, To, Finalize
  <2> QED BY <1>1, <1>3, <1>4, <2>1, TurnAtFits
          DEF ControlInv, IInv, TurnMoves, RequestStep, AdmissionStep
<1>5. CASE Detach(r)
  <2>1. TurnAt(r, "idle", "detached")
    BY <1>1, <1>2, <1>5 DEF TurnAt, To, Detach
  <2> QED BY <1>1, <1>3, <1>5, <2>1, TurnAtFits
          DEF ControlInv, IInv, TurnMoves, RequestStep, AdmissionStep
<1> QED BY <1>1, <1>4, <1>5

\* The end of a turn that did not get so far, or that nobody waits for any more.
LEMMA QuitMoves ==
    ASSUME NEW r \in Requests, ControlInv,
           EndElsewhere(r) \/ GoAway(r) \/ Disconnected(r)
    PROVE  TurnMoves(r)
<1>0. /\ req \in [Requests -> RequestSteps] /\ caller \in [Requests -> CallerStates]
      /\ req[r] \in RequestSteps
  BY DEF ControlInv, IInv, Typed, RequestsTyped, SchedulerInv, SchedulerTypeOK
<1>1. /\ UNCHANGED <<controlVars, state, fresh, sameUse, leases, continuations>> /\ RequestFrame
      /\ To(r, "idle")
      /\ req[r] \in {"idle", "checked", "refused"}
  BY <1>0 DEF EndElsewhere, GoAway, Disconnected, Renew, record, holders, RequestFrame,
     ControlInv, CallersFit, RequestSteps
<1>2. RequestStep(r) \/ UNCHANGED vars
  <2>1. CASE req[r] = "idle"
    <3>1. UNCHANGED req
      BY <1>0, <1>1, <2>1 DEF To
    <3> QED BY <1>1, <3>1 DEF RequestFrame, vars, record, holders
  <2>2. CASE req[r] # "idle"
    BY <1>1, <2>2 DEF Renew, RequestStep
  <2> QED BY <2>1, <2>2
<1>3. [AdmissionStep(r)]_schedulerVars \/ Disconnected(r)
  BY DEF EndElsewhere, GoAway, AdmissionStep
<1>4. /\ owners \ {r} \subseteq owners' /\ (NoPins /\ ~localEnabled => NoPins')
      /\ UNCHANGED localEnabled
      /\ caller' = [caller EXCEPT ![r] = "idle"] \/ caller' = [caller EXCEPT ![r] = "lost"]
  <2>1. CASE EndElsewhere(r)
    BY <2>1, FinalizeMoves DEF EndElsewhere, ControlInv, CallerMoves, Finalize, NextTurn
  <2>2. CASE GoAway(r)
    BY <1>0, <2>2 DEF GoAway, schedulerVars, NoPins
  <2>3. CASE Disconnected(r)
    BY <2>3 DEF Disconnected, NoPins
  <2> QED BY <2>1, <2>2, <2>3
<1>5. TurnTouches(r)
  BY <1>1, <1>4 DEF RequestFrame, TurnTouches
<1>6. TurnAt(r, "idle", "idle") \/ TurnAt(r, "idle", "lost")
  BY <1>1, <1>4 DEF TurnAt, To
<1> QED BY <1>2, <1>3, <1>5, <1>6, TurnAtFits DEF TurnMoves, ControlInv, IInv

\* The steps of a turn, as the role, the scheduler and the operator see them.
LEMMA TurnStepMoves ==
    ASSUME NEW r \in Requests, ControlInv, TurnStep(r)
    PROVE  TurnMoves(r)
<1>1. CASE Admit(r) \/ AdmissionGoesOn(r)
  <2>0. PICK c \in CallerStates :
           /\ caller' = [caller EXCEPT ![r] = c] /\ (c = "local" => r \in owners')
           /\ caller[r] \in {"idle", "notifying", "waiting"}
           /\ owners \ {r} \subseteq owners' /\ (NoPins /\ ~localEnabled => NoPins')
           /\ UNCHANGED <<localEnabled, vars, controlVars>>
    BY <1>1, AdmissionMoves DEF ControlInv, CallerMoves
  <2>1. AdmissionStep(r)
    <3>1. ASSUME NEW flash \in BOOLEAN PROVE (desired \/ ~flash) \in BOOLEAN
      BY DEF ControlInv, IInv, Typed, SwitchesTyped
    <3> QED BY <1>1, <3>1 DEF Admit, AdmissionGoesOn, AdmissionStep
  <2>2. TurnTouches(r)
    BY <2>0 DEF vars, record, holders, TurnTouches
  <2>3. CallersFit'
    <3>1. req[r] \in {"idle", "checked"}
      BY <1>1, <2>0 DEF Admit, AdmissionGoesOn, NotifyQueued, Resume, GiveUp, ControlInv, IInv,
         Typed, RequestsTyped, RequestSteps, CallersFit
    <3>2. req' = [req EXCEPT ![r] = req[r]]
      BY <2>0 DEF vars, ControlInv, IInv, Typed, RequestsTyped
    <3> QED BY <2>0, <3>1, <3>2, TurnAtFits DEF TurnAt, ControlInv, IInv
  <2> QED BY <2>0, <2>1, <2>2, <2>3 DEF TurnMoves
<1>2. CASE KeepExecutor(r)
  <2>1. /\ RequestStep(r) /\ UNCHANGED <<schedulerVars, controlVars>>
        /\ UNCHANGED <<state, fresh, sameUse, leases, req>> /\ RequestFrame
    BY <1>2 DEF KeepExecutor, RequestStep, RefreshContinuation
  <2>2. TurnTouches(r)
    BY <2>1 DEF RequestFrame, TurnTouches, schedulerVars, NoPins
  <2>3. CallersFit'
    BY <2>1 DEF schedulerVars, ControlInv, CallersFit
  <2> QED BY <2>1, <2>2, <2>3 DEF TurnMoves
<1> QED BY <1>1, <1>2, CheckMoves, LeaseMoves, StreamMoves, EndMoves, QuitMoves DEF TurnStep

-----------------------------------------------------------------------------
(***************************************************************************)
(* The role and the operator's calls.                                      *)
(***************************************************************************)
\* What the invariant says of the role, where all who act on it are named.
RoleInv ==
    /\ Typed /\ Safe /\ Owned
    /\ ControlTyped /\ LeasesFit /\ RoleFits
    /\ gateway # "down" => leases \subseteq owners

LEMMA ControlInvRole == ControlInv => RoleInv
BY LeasesArePinned DEF ControlInv, IInv, ControlFits, RoleInv

\* queue_unload, once the lock is free.
LEMMA GetsLockMoves ==
    ASSUME NEW a \in Workers, Typed, GetsLock(a)
    PROVE  /\ pc[a] = "wait_unload" /\ LockFree /\ OnlyMove({a})
           /\ UNCHANGED <<leases, failures, unit, desired, gateway, loader>>
           /\ \/ /\ pc'[a] = "sampling" /\ ~Latched
                 /\ UNCHANGED state \/ (state = "ready" /\ state' = "unload_queued")
              \/ pc'[a] = "idle" /\ UNCHANGED state
<1>1. /\ pc[a] = "wait_unload" /\ LockFree
      /\ UNCHANGED <<leases, failures, unit, desired, gateway, loader>>
  BY DEF GetsLock, UnloadFrame, holders
<1>2. /\ OnlyMove({a})
      /\ \/ /\ pc'[a] = "sampling" /\ ~Latched
            /\ UNCHANGED state \/ (state = "ready" /\ state' = "unload_queued")
         \/ pc'[a] = "idle" /\ UNCHANGED state
  BY DEF GetsLock, QueueUnload, OnlyMove, Goto, Typed, WorkersTyped, Becomes, Forgets
<1> QED BY <1>1, <1>2

\* The wait of an OFF for the lock is over.
LEMMA OffWaitsMoves ==
    ASSUME NEW a \in Callers, Typed, OffWaits(a)
    PROVE  /\ LockFree /\ OnlyMove({a, "drain"}) /\ pc'[a] = "idle"
           /\ UNCHANGED <<leases, failures, unit, desired, gateway, lock, loader>>
           /\ \/ /\ pc[a] = "wait_cold" /\ UNCHANGED pc["drain"]
                 /\ UNCHANGED state \/ (state = "cold" /\ state' = "disabled")
              \/ /\ pc[a] = "wait_queue"
                 /\ pc'["drain"] = IF pc["drain"] = "idle" THEN "polling" ELSE pc["drain"]
                 /\ UNCHANGED state \/ (state = "ready" /\ state' = "unload_queued")
<1>0. a \in Workers /\ a # "drain" /\ "drain" \in Workers
  BY Actors
<1>1. LockFree /\ UNCHANGED <<leases, failures, unit, desired, gateway, loader>>
  BY DEF OffWaits, OffFrame, holders
<1>2. CASE DisableCold(a) /\ pc[a] = "wait_cold"
  BY <1>0, <1>1, <1>2 DEF DisableCold, OnlyMove, Goto, Typed, WorkersTyped, Becomes, Stays
<1>3. CASE QueueForDrain(a) /\ pc[a] = "wait_queue"
  BY <1>0, <1>1, <1>3 DEF QueueForDrain, StartDrain, OnlyMove, Typed, WorkersTyped, Becomes, Stays
<1> QED BY <1>2, <1>3 DEF OffWaits

\* Turns leave the role to those who act on it: no lease is taken while an OFF
\* is at work on it.
LEMMA TurnKeeps ==
    ASSUME NEW r \in Requests, ControlInv, TurnTouches(r)
    PROVE  RoleFits'
<1> USE ControlInvRole, ControlAssumption, Actors
    DEF RoleInv, RoleFits, RecordFits, LoadApart, StopsRecorded, WorkersFit, LatchFits,
        OperatorFits, ConsoleFits, PinDrainFits, SwitchFits, AtOff, StrayFits, ServiceFits,
        UnitFits, AbortInProgress, LeasedRoleServes, Serving, Aborting, Runs, Reconciled, Safe,
        LockIsKept, Holding, Stopping, Owned, LoadIsOwned, StartUpIsAlone, RecordIsWorkedOn,
        Starting, Latched, Up, NoPins, LoadingStates, Begun, Typed, LoaderTyped, Workers,
        Callers, ControlTyped
<1>1. CASE UNCHANGED <<state, fresh, loader>>
  BY <1>1 DEF TurnTouches, workers, loader, controlVars, AdmissionFree, LockFree
<1>2. CASE Up /\ EnsureReady /\ UNCHANGED leases
  BY <1>2 DEF TurnTouches, workers, loader, controlVars, EnsureReady, StartsLoad, LockFree,
              LoadTask, Becomes, Stays
<1> QED BY <1>1, <1>2 DEF TurnTouches

\* The load.
LEMMA LoadKeeps ==
    ASSUME ControlInv, InLifecycle(LoadStep)
    PROVE  RoleFits'
<1> USE ControlInvRole, ControlAssumption, Actors
    DEF RoleInv, ControlTyped, RoleFits, RecordFits, LoadApart, StopsRecorded, WorkersFit,
        LatchFits, OperatorFits, ConsoleFits, PinDrainFits, SwitchFits, AtOff, StrayFits,
        ServiceFits, UnitFits, AbortInProgress, LeasedRoleServes, Serving, Aborting, Runs,
        Reconciled, Safe, LockIsKept, Holding, Stopping, Owned, LoadIsOwned, StartUpIsAlone,
        RecordIsWorkedOn, Starting, Begun, Loading, Latched, Up, InLifecycle, LoadFrame,
        LoadEnds, FailLoad, RecordFailure, MayFail, States, LoadingStates, Becomes, Stays,
        workers, holders, loader, schedulerVars, NoPins, Typed, LoaderTyped, SwitchesTyped
<1>1. CASE LoadNeverRuns
  BY <1>1 DEF LoadNeverRuns
<1>2. CASE LoadBegins
  BY <1>2 DEF LoadBegins
<1>3. CASE LoadCursor
  BY <1>3 DEF LoadCursor, Recover
<1>4. CASE LoadStarted
  BY <1>4 DEF LoadStarted
<1>5. CASE LoadAdvances
  BY <1>5 DEF LoadAdvances, LaterPhases
<1>6. CASE LoadBreaks
  BY <1>6 DEF LoadBreaks
<1> QED BY <1>1, <1>2, <1>3, <1>4, <1>5, <1>6 DEF LoadStep

\* An unload, from the lock on.
LEMMA UnloadKeeps ==
    ASSUME ControlInv, NEW a \in Workers, InLifecycle(UnloadStep(a))
    PROVE  RoleFits'
<1> USE ControlInvRole, ControlAssumption, Actors
    DEF RoleInv, ControlTyped, RoleFits, RecordFits, LoadApart, StopsRecorded, WorkersFit,
        LatchFits, OperatorFits, ConsoleFits, PinDrainFits, SwitchFits, AtOff, StrayFits,
        ServiceFits, UnitFits, AbortInProgress, LeasedRoleServes, Serving, Aborting, Runs,
        Reconciled, Safe, LockIsKept, Holding, Stopping, Owned, StartUpIsAlone, LockHasHolder,
        Starting, Up, InLifecycle, schedulerVars, NoPins
<1>1. CASE GetsLock(a)
  <2>1. RecordFits'
    BY <1>1, GetsLockMoves DEF OnlyMove, loader, LockFree, Latched
  <2>2. OperatorFits'
    BY <1>1, GetsLockMoves DEF OnlyMove, loader, LockFree
  <2>3. StrayFits' /\ ServiceFits'
    BY <1>1, GetsLockMoves DEF OnlyMove, loader, LockFree, Latched
  <2> QED BY <2>1, <2>2, <2>3
<1> USE DEF UnloadFrame, UnloadReturns, FailUnload, RecordFailure, MayFail, States, LoadingStates,
        Latched, Goto, Becomes, Stays, holders, loader, Typed, WorkersTyped, SwitchesTyped
<1>2. CASE AdmitUnload(a)
  BY <1>2 DEF AdmitUnload, Admissible, Blocked
<1>3. CASE SampleFails(a)
  BY <1>3 DEF SampleFails
<1>4. CASE BeginStop(a)
  BY <1>4 DEF BeginStop, Recover
<1>5. CASE Stopped(a)
  BY <1>5 DEF Stopped
<1>6. CASE CompleteUnload(a)
  BY <1>6, Names DEF CompleteUnload, Workers, Callers
<1> QED BY <1>1, <1>2, <1>3, <1>4, <1>5, <1>6 DEF UnloadStep

\* An OFF, after the step in which it was called.
LEMMA OffKeeps ==
    ASSUME ControlInv, NEW a \in Callers, InLifecycle(OffStep(a))
    PROVE  RoleFits'
<1> USE ControlInvRole, ControlAssumption, Actors
    DEF RoleInv, ControlTyped, RoleFits, RecordFits, LoadApart, StopsRecorded, WorkersFit,
        LatchFits, OperatorFits, ConsoleFits, PinDrainFits, SwitchFits, AtOff, StrayFits,
        ServiceFits, UnitFits, AbortInProgress, LeasedRoleServes, Serving, Aborting, Runs,
        Reconciled, Safe, LockIsKept, Holding, Stopping, Owned, LoadIsOwned, StartUpIsAlone,
        LockHasHolder, Starting, Up, InLifecycle, schedulerVars, NoPins, Callers, Workers,
        Latched
<1>1. CASE OffWaits(a)
  <2>1. RecordFits'
    BY <1>1, OffWaitsMoves DEF OnlyMove, loader, LockFree
  <2>2. ConsoleFits' /\ PinDrainFits'
    BY <1>1, OffWaitsMoves DEF OnlyMove, loader, LockFree
  <2>3. SwitchFits'
    BY <1>1, OffWaitsMoves DEF OnlyMove, loader, LockFree
  <2>4. StrayFits'
    BY <1>1, OffWaitsMoves DEF OnlyMove, loader, LockFree
  <2>5. ServiceFits'
    BY <1>1, OffWaitsMoves DEF OnlyMove, loader, LockFree
  <2> QED BY <2>1, <2>2, <2>3, <2>4, <2>5
<1> USE DEF OffFrame, Goto, Becomes, Stays, record, holders, loader, Typed, WorkersTyped,
        LockFree, MayDisable, States, LoadingStates
<1>2. CASE OffLoadCancelled(a)
  BY <1>2 DEF OffLoadCancelled
<1>3. CASE OffStopped(a)
  BY <1>3 DEF OffStopped
<1>4. CASE OffDisables(a)
  BY <1>4 DEF OffDisables
<1> QED BY <1>1, <1>2, <1>3, <1>4 DEF OffStep

\* The rest of an ON.
LEMMA OnKeeps ==
    ASSUME ControlInv, InLifecycle(OnReopens(Console) \/ OnEnsures(Console))
    PROVE  RoleFits'
<1> USE ControlInvRole, ControlAssumption, Actors
    DEF RoleInv, ControlTyped, RoleFits, RecordFits, LoadApart, StopsRecorded, WorkersFit,
        LatchFits, OperatorFits, ConsoleFits, PinDrainFits, SwitchFits, AtOff, StrayFits,
        ServiceFits, UnitFits, AbortInProgress, LeasedRoleServes, Serving, Aborting, Runs,
        Reconciled, Safe, LockIsKept, Holding, Stopping, Owned, LoadIsOwned, StartUpIsAlone,
        RecordIsWorkedOn, LockHasHolder, Starting, Up, InLifecycle, schedulerVars, NoPins,
        Callers, Workers, Latched, Goto, Becomes, Stays, LockFree, OffFrame, record, holders,
        loader, Typed, WorkersTyped, LoaderTyped, LoadingStates
<1>1. CASE OnReopens(Console)
  BY <1>1 DEF OnReopens
<1>2. CASE OnEnsures(Console)
  BY <1>2 DEF OnEnsures, EnsureReady, StartsLoad, LoadTask
<1> QED BY <1>1, <1>2 DEF InLifecycle

\* The idle scheduler and the drain call for an unload.
LEMMA AutomaticKeeps ==
    ASSUME ControlInv, InLifecycle(SchedulerUnloads) \/ InLifecycle(DrainPolls)
    PROVE  RoleFits'
<1> USE ControlInvRole, ControlAssumption, Actors
    DEF RoleInv, ControlTyped, RoleFits, RecordFits, LoadApart, StopsRecorded, WorkersFit,
        LatchFits, OperatorFits, ConsoleFits, PinDrainFits, SwitchFits, AtOff, StrayFits,
        ServiceFits, UnitFits, AbortInProgress, LeasedRoleServes, Serving, Aborting, Runs,
        Reconciled, Safe, LockIsKept, Holding, Stopping, Owned, StartUpIsAlone, LockHasHolder,
        Starting, Up, InLifecycle, schedulerVars, NoPins, Callers, Workers, Latched, Goto,
        Becomes, Stays, LockFree, UnloadFrame, UnloadRole, QueueUnload, Forgets, Blocked,
        record, holders, loader, Typed, WorkersTyped
<1>1. CASE SchedulerUnloads
  BY <1>1 DEF SchedulerUnloads
<1>2. CASE DrainPolls
  BY <1>2 DEF DrainPolls
<1> QED BY <1>1, <1>2 DEF InLifecycle

\* The unit, the rollback command, sessions that end, and a stop that was left
\* behind: none of them asks the record.
LEMMA OutsideKeeps ==
    ASSUME ControlInv,
           \/ InLifecycle(UnitStarts \/ UnitFails \/ ResetAutomation)
           \/ \E r \in Requests : InLifecycle(ContinuationEnds(r))
           \/ StrayStop
    PROVE  RoleFits'
<1> USE ControlInvRole, ControlAssumption, Actors
    DEF RoleInv, ControlTyped, RoleFits, RecordFits, LoadApart, StopsRecorded, WorkersFit,
        LatchFits, OperatorFits, ConsoleFits, PinDrainFits, SwitchFits, AtOff, StrayFits,
        ServiceFits, UnitFits, AbortInProgress, LeasedRoleServes, Serving, Aborting, Runs,
        Reconciled, Up, schedulerVars, NoPins, Latched, record, holders, workers, loader, Typed,
        SwitchesTyped, Callers, Workers
<1>1. CASE InLifecycle(UnitStarts \/ UnitFails \/ ResetAutomation)
  BY <1>1, LifecycleAssumption DEF InLifecycle, UnitStarts, UnitFails, ResetAutomation,
     Surroundings
<1>2. CASE \E r \in Requests : InLifecycle(ContinuationEnds(r))
  BY <1>2 DEF InLifecycle, ContinuationEnds, RequestFrame
<1>3. CASE StrayStop
  <2>1. RecordFits' /\ OperatorFits'
    BY <1>3 DEF StrayStop, Surroundings
  <2>2. StrayFits' /\ ServiceFits'
    BY <1>3 DEF StrayStop, Surroundings
  <2> QED BY <2>1, <2>2
<1> QED BY <1>1, <1>2, <1>3

\* set_executor_enabled, on the way in, and the drain between its calls.
LEMMA OperatorKeeps ==
    ASSUME ControlInv, OperatorActs
    PROVE  RoleFits'
<1>0. ASSUME pc' = [pc EXCEPT ![PinDrain] = "idle"], pc[PinDrain] # "cancelling"
      PROVE  /\ pc'[PinDrain] = "idle" /\ OnlyMove({PinDrain})
             /\ \A a \in Callers : pc[a] \in Aborting =>
                  pc'[a] = pc[a] \/ (a = PinDrain /\ pc[a] = "off_stopping")
             /\ AbortInProgress => AbortInProgress'
  <2>1. pc \in [Workers -> WorkerSteps] /\ PinDrain \in Workers
    BY ControlInvRole, ControlAssumption, Actors DEF RoleInv, Typed, WorkersTyped
  <2>2. pc'[PinDrain] = "idle" /\ \A a \in Workers : a # PinDrain => pc'[a] = pc[a]
    BY <1>0, <2>1
  <2> QED BY <1>0, <2>1, <2>2, Actors DEF OnlyMove, Aborting, AbortInProgress
<1> USE ControlInvRole, ControlAssumption, Actors
    DEF RoleInv, ControlTyped, RoleFits, RecordFits, LoadApart, StopsRecorded, WorkersFit,
        LatchFits, OperatorFits, ConsoleFits, PinDrainFits, SwitchFits, AtOff, StrayFits,
        ServiceFits, UnitFits, AbortInProgress, LeasedRoleServes, Serving, Aborting, Runs,
        Reconciled, Safe, LockIsKept, Holding, Stopping, Owned, LoadIsOwned, StartUpIsAlone,
        RecordIsWorkedOn, LockHasHolder, Starting, Begun, Loading, LoadingStates, Up,
        schedulerVars, NoPins, Callers, Workers, Latched, Goto, Becomes, Stays, LockFree,
        record, holders, workers, loader, Typed, RecordTyped, SwitchesTyped, WorkersTyped,
        LoaderTyped, LeasesFit, UnloadsOnlyUnused, AdmissionFree, pinVars
<1>1. CASE ExecutorOff
  <2>1. CASE ~NoPins
    BY <1>1, <2>1 DEF ExecutorOff, QueueBehindPins, SetLocalEnabled
  <2> USE DEF SetDisabled, DisableCold, UnloadRole, QueueUnload, StartDrain, QueueForDrain,
             AbortAndStop, Forgets, Blocked, LoadTask
  <2>2. CASE NoPins
    BY <1>1, <2>2 DEF ExecutorOff, SetLocalEnabled
  <2> QED BY <2>1, <2>2
<1>2. CASE PinsDrained
  BY <1>2 DEF PinsDrained, SwitchOff, SetDisabled, DisableCold, UnloadRole, QueueUnload,
     StartDrain, QueueForDrain, AbortAndStop, Forgets, Blocked, LoadTask
<1>3. CASE PinDrainEnds
  BY <1>3 DEF PinDrainEnds, vars, workers
<1>4. CASE ExecutorOn
  <2>1. RecordFits' /\ OperatorFits' /\ StrayFits'
    BY <1>4 DEF ExecutorOn, CancelPinDrain, SetLocalEnabled, Forgets
  <2>2. ServiceFits'
    <3>1. CASE pc[PinDrain] \in Stopping \cup {"cancelling"}
      <4>1. /\ UNCHANGED <<state, pc, load, unit, failures, leases, gateway, registered>>
            /\ strayStop' = strayStop
        BY <1>4, <3>1 DEF ExecutorOn, CancelPinDrain
      <4> QED BY <4>1
    <3>2. CASE pc[PinDrain] \notin Stopping \cup {"cancelling"}
      <4>0. /\ UNCHANGED <<state, load, unit, failures, leases, gateway, registered>>
            /\ pc' = [pc EXCEPT ![PinDrain] = "idle"]
            /\ strayStop' = (strayStop \/ pc[PinDrain] = "off_stopping")
        BY <1>4, <3>2 DEF ExecutorOn, CancelPinDrain
      <4>1. /\ UNCHANGED <<state, load, unit, failures, leases, gateway, registered>>
            /\ pc'[PinDrain] = "idle" /\ OnlyMove({PinDrain})
            /\ strayStop' = (strayStop \/ pc[PinDrain] = "off_stopping")
        BY <1>0, <3>2, <4>0
      <4>2. \A a \in Callers : pc[a] \in Aborting => pc'[a] = pc[a] \/ strayStop'
        BY <1>0, <3>2, <4>0
      <4>3. AbortInProgress => AbortInProgress'
        BY <1>0, <3>2, <4>0
      <4>4. ASSUME ~Faults PROVE LeasedRoleServes'
        BY <4>1, <4>4
      <4>5. ASSUME ~Faults
            PROVE  Runs /\ Reconciled
                     /\ (state \in {"cold", "disabled"} \/ \E a \in Callers : pc'[a] = "wait_off")
                   => strayStop' \/ \E a \in Callers : pc'[a] \in Aborting
        BY <4>1, <4>2, <4>5 DEF OnlyMove
      <4>6. ASSUME ~Faults PROVE UnitFits'
        BY <4>1, <4>3, <4>5, <4>6 DEF OnlyMove
      <4> QED BY <4>4, <4>6
    <3> QED BY <3>1, <3>2
  <2> QED BY <2>1, <2>2
<1>5. CASE ExecutorOnJoined
  <2>1. RecordFits' /\ StrayFits'
    BY <1>5 DEF ExecutorOnJoined, SwitchOn, CancelDrain, Forgets
  <2>2. OperatorFits'
    BY <1>5 DEF ExecutorOnJoined, SwitchOn, CancelDrain, Forgets
  <2>3. ServiceFits'
    BY <1>5 DEF ExecutorOnJoined, SwitchOn, CancelDrain, Forgets
  <2> QED BY <2>1, <2>2, <2>3
<1> QED BY <1>1, <1>2, <1>3, <1>4, <1>5 DEF OperatorActs

\* Start-up and restart.
LEMMA StartKeeps ==
    ASSUME ControlInv, InLifecycle(StartUp) \/ Restart
    PROVE  RoleFits'
<1> USE ControlInvRole, ControlAssumption, Actors
    DEF RoleInv, ControlTyped, RoleFits, RecordFits, LoadApart, StopsRecorded, WorkersFit,
        LatchFits, OperatorFits, ConsoleFits, PinDrainFits, SwitchFits, AtOff, StrayFits,
        ServiceFits, UnitFits, AbortInProgress, LeasedRoleServes, Serving, Aborting, Runs,
        Reconciled, Safe, LockIsKept, Holding, Stopping, Owned, LoadIsOwned, StartUpIsAlone,
        RecordIsWorkedOn, LockHasHolder, Starting, Begun, Loading, LoadingStates, Up,
        schedulerVars, NoPins, Callers, Workers, Latched, Goto, Becomes, Stays, LockFree,
        record, holders, workers, loader, Typed, RecordTyped, SwitchesTyped, WorkersTyped,
        LoaderTyped, LeasesFit, UnloadsOnlyUnused
<1>1. CASE Restart
  <2>1. RecordFits' /\ OperatorFits'
    BY <1>1 DEF Restart, Crash, LoadEnds
  <2>2. StrayFits' /\ ServiceFits'
    BY <1>1 DEF Restart, Crash, LoadEnds
  <2> QED BY <2>1, <2>2
<1> USE DEF InLifecycle
<1>2. CASE InLifecycle(RecoverLeases)
  BY <1>2 DEF RecoverLeases
<1>3. CASE InLifecycle(ReconcileManaged)
  <2>1. RecordFits' /\ StrayFits'
    BY <1>3 DEF ReconcileManaged, Recover
  <2>2. OperatorFits' /\ ServiceFits'
    BY <1>3 DEF ReconcileManaged, Recover
  <2> QED BY <2>1, <2>2
<1>4. CASE InLifecycle(StartUpDisables)
  BY <1>4 DEF StartUpDisables, SetDisabled, DisableCold, UnloadRole, QueueUnload, StartDrain,
     QueueForDrain, AbortAndStop, Forgets, Blocked, LoadTask
<1>5. CASE InLifecycle(StartUpEnds)
  BY <1>5 DEF StartUpEnds
<1> QED BY <1>1, <1>2, <1>3, <1>4, <1>5 DEF StartUp

-----------------------------------------------------------------------------
(***************************************************************************)
(* The invariants of the components, under the handlers that call both.    *)
(***************************************************************************)
\* A restart forgets the scheduler's memory.
LEMMA FreshScheduler == SchedulerInit' => SchedulerInv'
BY InitSchedulerInv, PTL

\* The scheduler keeps its own invariant.
LEMMA SchedulerKept == ASSUME ControlInv, ControlNext PROVE SchedulerInv'
<1>0. SchedulerInv
  BY DEF ControlInv
<1>1. ASSUME NEW r \in Requests, TurnStep(r) PROVE SchedulerInv'
  <2>1. CASE [AdmissionStep(r)]_schedulerVars
    BY <1>0, <2>1, NextSchedulerInv DEF SchedulerNext
  <2>2. CASE Disconnected(r)
    <3>1. /\ UNCHANGED <<pinVars, localEnabled>> /\ caller' = [caller EXCEPT ![r] = "lost"]
          /\ "lost" \in CallerStates
      BY <2>2 DEF Disconnected, pinVars, CallerStates
    <3> QED BY <1>0, <3>1, CallerStepKeeps
  <2> QED BY <1>1, <2>1, <2>2, TurnStepMoves DEF TurnMoves
<1>2. CASE OperatorActs
  <2>1. SetLocalEnabled(TRUE) \/ SetLocalEnabled(FALSE) \/ UNCHANGED schedulerVars
    BY <1>2 DEF OperatorActs, ExecutorOff, PinsDrained, PinDrainEnds, ExecutorOn, ExecutorOnJoined
  <2> QED BY <1>0, <2>1, NextSchedulerInv DEF SchedulerNext
<1>3. CASE StrayStop \/ LifecycleStep
  <2>1. UNCHANGED schedulerVars
    BY <1>3 DEF StrayStop, LifecycleStep, InLifecycle
  <2> QED BY <1>0, <2>1, NextSchedulerInv
<1>4. CASE Restart
  BY <1>4, FreshScheduler DEF Restart, SchedulerInit
<1> QED BY <1>1, <1>2, <1>3, <1>4 DEF ControlNext

\* An OFF with pins queues the unload at once, without the lock.
LEMMA QueueBehindPinsKeeps ==
    ASSUME IInv, Owned, QueueBehindPins, desired' = FALSE, UNCHANGED gateway
    PROVE  IInv' /\ Owned'
<1>1. /\ UNCHANGED <<sameUse, retry, holders, failures, unit, workers, loader, req, gateway>>
      /\ \/ UNCHANGED <<state, fresh>>
         \/ state = "ready" /\ state' = "unload_queued" /\ fresh' = {}
  BY DEF QueueBehindPins, Becomes, Stays
<1>2. Typed'
  <2>1. RecordTyped'
    BY <1>1, Names DEF IInv, Typed, RecordTyped
  <2>2. HoldersTyped' /\ SwitchesTyped' /\ WorkersTyped' /\ LoaderTyped' /\ RequestsTyped'
    BY <1>1 DEF IInv, Typed, HoldersTyped, SwitchesTyped, WorkersTyped, LoaderTyped,
       RequestsTyped, holders, workers, loader
  <2> QED BY <1>1, <2>1, <2>2 DEF IInv, Typed, LoadsAreBounded, loader
<1>3. Safe'
  BY <1>1, Weaken DEF IInv, holders, workers
<1>4. Owned'
  BY <1>1 DEF Owned, LockHasHolder, LoadIsOwned, StartUpIsAlone, CloseIsOrdered,
     RecordIsWorkedOn, Begun, LoadingStates, workers, loader
<1> QED BY <1>2, <1>3, <1>4 DEF IInv

\* An ON cancels the drain; a stop that it owns, and the wait for a load that
\* it cancelled, go on.
LEMMA CancelPinDrainKeeps ==
    ASSUME IInv, Owned, CancelPinDrain,
           UNCHANGED <<state, retry, holders, desired, failures, unit, gateway, loader, req>>
    PROVE  IInv' /\ Owned'
<1>0. PinDrain \in Operators /\ PinDrain \in Workers
  BY ControlAssumption, Actors
<1>1. CASE pc[PinDrain] \in Stopping \cup {"cancelling"}
  <2>1. UNCHANGED <<pc, lock, fresh, sameUse, queued>>
    BY <1>1 DEF CancelPinDrain
  <2>2. Typed'
    BY <2>1 DEF IInv, Typed, RecordTyped, HoldersTyped, SwitchesTyped, WorkersTyped,
       LoaderTyped, RequestsTyped, LoadsAreBounded, holders, loader
  <2>3. Safe'
    BY <2>1, Weaken DEF IInv, holders
  <2> QED BY <2>1, <2>2, <2>3, OwnedStays DEF IInv, loader
<1>2. CASE pc[PinDrain] \notin Stopping \cup {"cancelling"}
  <2>1. /\ Goto(PinDrain, "idle") /\ Forgets({PinDrain})
        /\ lock' = IF lock = PinDrain THEN "none" ELSE lock
    BY <1>2 DEF CancelPinDrain
  <2>2. /\ pc'[PinDrain] = "idle" /\ OnlyMove({PinDrain})
        /\ pc' \in [Workers -> WorkerSteps]
    BY <1>0, <2>1, Steps DEF Goto, OnlyMove, IInv, Typed, WorkersTyped
  <2>3. Typed'
    BY <2>1, <2>2 DEF Forgets, IInv, Typed, RecordTyped, HoldersTyped, SwitchesTyped,
       WorkersTyped, LoaderTyped, RequestsTyped, LoadsAreBounded, holders, loader
  <2>4. Safe'
    <3>1. \A b \in Workers : pc'[b] \in Holding => pc'[b] = pc[b] /\ b # PinDrain
      BY <2>2 DEF OnlyMove, Holding, Stopping
    <3>2. \A b \in Workers : pc'[b] \in Holding => lock' = lock
      BY <2>1, <3>1 DEF IInv, Safe, LockIsKept
    <3> QED BY <3>1, <3>2, Weaken DEF IInv, holders
  <2>5. Owned'
    <3>1. LockHasHolder'
      BY <2>1, <2>2 DEF Owned, LockHasHolder, OnlyMove, IInv, Typed, WorkersTyped
    <3>2. LoadIsOwned'
      BY <1>0, <1>2, <2>2, Actors DEF Owned, LoadIsOwned, OnlyMove, loader
    <3>3. StartUpIsAlone' /\ CloseIsOrdered'
      BY <1>0, <2>2, Actors DEF Owned, StartUpIsAlone, CloseIsOrdered, OnlyMove, loader
    <3>4. RecordIsWorkedOn'
      BY <1>2, <2>2 DEF Owned, RecordIsWorkedOn, OnlyMove, loader
    <3> QED BY <3>1, <3>2, <3>3, <3>4 DEF Owned
  <2> QED BY <2>3, <2>4, <2>5 DEF IInv
<1> QED BY <1>1, <1>2

\* A restart keeps nobody at work.
LEMMA RestartKeeps ==
    ASSUME ControlInv, Restart
    PROVE  RoleFits'
<1>1. /\ gateway' = "down" /\ load' = "none" /\ ~registered' /\ ~strayStop'
      /\ manualDrain' = "none" /\ ~joining' /\ fresh' = {}
      /\ pc' = [a \in Workers |-> "idle"]
  BY DEF Restart, Crash, LoadEnds
<1>2. \A a \in Workers : pc'[a] = "idle"
  BY <1>1
<1> QED BY <1>1, <1>2, ControlAssumption, Actors
    DEF RoleFits, RecordFits, LoadApart, StopsRecorded, WorkersFit, LatchFits, OperatorFits,
        ConsoleFits, PinDrainFits, SwitchFits, AtOff, StrayFits, ServiceFits, UnitFits,
        AbortInProgress, LeasedRoleServes, Aborting, Reconciled, Stopping, Up

\* Whoever acts, what the control adds to the record stays true.
LEMMA RoleFitsKept == ASSUME ControlInv, ControlNext PROVE RoleFits'
<1>1. ASSUME NEW r \in Requests, TurnStep(r) PROVE RoleFits'
  BY <1>1, TurnStepMoves, TurnKeeps DEF TurnMoves
<1> QED BY <1>1, OperatorKeeps, LoadKeeps, UnloadKeeps, OffKeeps, OnKeeps, AutomaticKeeps,
           OutsideKeeps, StartKeeps, RestartKeeps
        DEF ControlNext, LifecycleStep, InLifecycle

\* The operator's calls come one after the other: an ON goes on when nobody
\* waits for a load to end any more.
LEMMA OperatorsTakeTurns ==
    ASSUME Typed, OperatorFits, OperatorFits'
    PROVE  OnIsAlone
<1>0. Console \in Workers /\ PinDrain \in Workers /\ "drain" \notin {Console, PinDrain}
  BY ControlAssumption, Actors
<1>1. ASSUME NEW o \in Operators, SwitchOn(o)
      PROVE  o = Console /\ pc[Console] = "idle" /\ pc[PinDrain] = "idle"
  <2>1. /\ pc[o] = "idle" /\ pc'[o] = "wait_on"
        /\ \A p \in Operators \ {o} : pc'[p] = pc[p]
    BY <1>0, <1>1, ControlAssumption, Actors DEF SwitchOn, CancelDrain, Goto, Typed, WorkersTyped
  <2> QED BY <2>1, ControlAssumption DEF OperatorFits, ConsoleFits, PinDrainFits, AtOff
<1>2. ASSUME NEW o \in Operators, OnReopens(o) \/ OnEnsures(o)
      PROVE  o = Console /\ pc[Console] # "cancelling" /\ pc[PinDrain] = "idle"
  BY <1>2, ControlAssumption
  DEF OnReopens, OnEnsures, OperatorFits, ConsoleFits, PinDrainFits, AtOff
<1> QED BY <1>1, <1>2, ControlAssumption DEF OnIsAlone

\* But for an OFF with pins, an ON that cancels the drain and a stop that was left
\* behind, what the control does to the role is a step of the Lifecycle.
LEMMA ControlIsLifecycle ==
    ASSUME ControlInv, ControlNext
    PROVE  \/ [Next]_vars
           \/ QueueBehindPins /\ desired' = FALSE /\ UNCHANGED gateway
           \/ /\ CancelPinDrain
              /\ UNCHANGED <<state, retry, holders, desired, failures, unit, gateway,
                             loader, req>>
           \/ StrayStop
<1>1. ASSUME NEW r \in Requests, TurnStep(r) PROVE [Next]_vars
  BY <1>1, TurnStepMoves DEF TurnMoves, Next
<1>2. CASE ExecutorOff
  <2>1. CASE NoPins
    <3>1. pc[Console] = "idle"
      BY <1>2 DEF ExecutorOff, AdmissionFree
    <3>2. SwitchOff(Console)
      BY <1>2, <2>1, <3>1, ControlAssumption DEF ExecutorOff, SwitchOff
    <3> QED BY <3>2, ControlAssumption DEF Next, OperatorStep
  <2>2. CASE ~NoPins
    BY <1>2, <2>2 DEF ExecutorOff
  <2> QED BY <2>1, <2>2
<1>3. CASE PinsDrained \/ PinDrainEnds \/ ExecutorOnJoined
  BY <1>3, ControlAssumption DEF PinsDrained, PinDrainEnds, ExecutorOnJoined, Next, OperatorStep
<1>4. CASE ExecutorOn
  BY <1>4 DEF ExecutorOn
<1>5. CASE LifecycleStep
  <2>1. ASSUME NEW r \in Requests, ContinuationEnds(r) PROVE Next
    BY <2>1 DEF Next, RequestStep
  <2>2. ASSUME OnReopens(Console) \/ OnEnsures(Console) PROVE Next
    BY <2>2, ControlAssumption DEF Next, OperatorStep
  <2> QED BY <1>5, <2>1, <2>2 DEF LifecycleStep, InLifecycle, Next
<1> QED BY <1>1, <1>2, <1>3, <1>4, <1>5 DEF ControlNext, OperatorActs, Restart, Next

\* So the Lifecycle's own invariants stand under the control.
LEMMA LifecycleKept == ASSUME ControlInv, ControlNext PROVE IInv' /\ Owned'
<1>0. OperatorFits /\ OperatorFits' /\ IInv /\ Owned
  BY RoleFitsKept DEF ControlInv, ControlFits, RoleFits
<1>1. CASE [Next]_vars
  BY <1>0, <1>1, NextIInv, OperatorsTakeTurns, NextOwned DEF IInv
<1>2. CASE StrayStop
  <2>1. /\ UNCHANGED <<record, holders, desired, gateway, workers, loader, req, failures>>
        /\ unit' \in Units
    BY <1>2 DEF StrayStop, Surroundings, Units
  <2>2. Typed'
    BY <1>0, <2>1 DEF IInv, Typed, RecordTyped, HoldersTyped, SwitchesTyped, WorkersTyped,
       LoaderTyped, RequestsTyped, LoadsAreBounded, record, holders, workers, loader
  <2>3. Safe' /\ Owned'
    BY <1>0, <2>1, Weaken, OwnedStays DEF IInv, record, holders, workers, loader
  <2> QED BY <2>2, <2>3 DEF IInv
<1> QED BY <1>0, <1>1, <1>2, ControlIsLifecycle, QueueBehindPinsKeeps, CancelPinDrainKeeps

\* Steps that are no turn's leave the turns alone, and the leases but for the start-up.
LEMMA TurnsAreLeft ==
    ASSUME OperatorActs \/ StrayStop \/ LifecycleStep
    PROVE  /\ UNCHANGED <<req, caller, owners>>
           /\ UNCHANGED <<leases, gateway>> \/ StartUp
<1>1. UNCHANGED <<caller, owners>>
  BY DEF OperatorActs, ExecutorOff, PinsDrained, PinDrainEnds, ExecutorOn, ExecutorOnJoined,
     SetLocalEnabled, pinVars, schedulerVars, StrayStop, LifecycleStep, InLifecycle
<1>2. CASE OperatorActs
  BY <1>1, <1>2 DEF OperatorActs, ExecutorOff, PinsDrained, PinDrainEnds, ExecutorOn,
     ExecutorOnJoined, QueueBehindPins, SwitchOff, SwitchOn, SetDisabled, vars, holders
<1>3. CASE StrayStop
  BY <1>1, <1>3 DEF StrayStop, Surroundings, holders
<1>4. CASE LifecycleStep
  BY <1>1, <1>4 DEF LifecycleStep, InLifecycle, UnloadStep, GetsLock, AdmitUnload, SampleFails,
     BeginStop, Stopped, CompleteUnload, UnloadFrame, OffStep, OffWaits, OffLoadCancelled,
     OffStopped, OffDisables, OffFrame, OnReopens, OnEnsures, EnsureReady, LoadStep,
     LoadNeverRuns, LoadBegins, LoadCursor, LoadStarted, LoadAdvances, LoadBreaks, LoadFrame,
     SchedulerUnloads, DrainPolls, ContinuationEnds, RequestFrame, StartUp, RecoverLeases,
     ReconcileManaged, StartUpDisables, StartUpEnds, SetDisabled, UnitStarts, UnitFails,
     ResetAutomation, Surroundings, holders
<1> QED BY <1>2, <1>3, <1>4

\* The turns and their leases agree, whoever acts.
LEMMA TurnsKept == ASSUME ControlInv, ControlNext PROVE CallersFit' /\ LeasesFit'
<1>0. /\ req \in [Requests -> RequestSteps] /\ leases \subseteq Requests
      /\ CallersFit /\ LeasesFit
  BY DEF ControlInv, ControlFits, IInv, Typed, RequestsTyped, HoldersTyped
<1>1. ASSUME NEW r \in Requests, TurnStep(r) PROVE CallersFit' /\ LeasesFit'
  <2>1. TurnMoves(r)
    BY <1>1, TurnStepMoves
  <2>2. CASE UNCHANGED vars
    BY <1>0, <2>1, <2>2 DEF TurnMoves, LeasesFit, vars, holders
  <2>3. CASE RequestStep(r)
    <3>1. LeasesFit'
      BY <1>0, <2>1, <2>3 DEF TurnMoves, TurnTouches, LeasesFit, RequestStep, CheckRole,
         AcquireLease, OpenStream, RefreshContinuation, Finish, Renew, ReleaseLease, To, Up,
         ContinuationEnds, RequestFrame, EnsureReady, holders
    <3> QED BY <2>1, <3>1 DEF TurnMoves
  <2> QED BY <2>1, <2>2, <2>3 DEF TurnMoves
<1>2. CASE OperatorActs \/ StrayStop \/ LifecycleStep
  <2>1. CallersFit'
    BY <1>0, <1>2, TurnsAreLeft DEF CallersFit
  <2>2. CASE UNCHANGED <<leases, gateway>>
    BY <1>0, <1>2, <2>1, <2>2, TurnsAreLeft DEF LeasesFit
  <2>3. CASE StartUp
    <3>1. \/ leases' = {}
          \/ UNCHANGED leases /\ gateway \in {"recovered", "reconciled", "disabling"}
      BY <2>3 DEF StartUp, RecoverLeases, ReconcileManaged, StartUpDisables, StartUpEnds,
         SetDisabled, holders
    <3> QED BY <1>0, <1>2, <2>1, <3>1, TurnsAreLeft DEF LeasesFit
  <2> QED BY <1>2, <2>2, <2>3, TurnsAreLeft
<1>3. CASE Restart
  BY <1>3 DEF Restart, Crash, CallersFit, LeasesFit
<1> QED BY <1>1, <1>2, <1>3 DEF ControlNext

\* The control's own variables keep their types.
LEMMA ControlTypedKept == ASSUME ControlInv, ControlNext PROVE ControlTyped'
<1>0. ControlTyped
  BY DEF ControlInv, ControlFits
<1>1. ASSUME NEW r \in Requests, TurnStep(r) PROVE ControlTyped'
  BY <1>0, <1>1, TurnStepMoves DEF TurnMoves, TurnTouches, ControlTyped, controlVars
<1>2. CASE OperatorActs
  BY <1>0, <1>2 DEF OperatorActs, ExecutorOff, PinsDrained, PinDrainEnds, ExecutorOn,
     ExecutorOnJoined, QueueBehindPins, CancelPinDrain, ControlTyped
<1>3. CASE StrayStop
  BY <1>0, <1>3 DEF StrayStop, ControlTyped
<1>4. CASE LifecycleStep
  BY <1>0, <1>4 DEF LifecycleStep, InLifecycle, ControlTyped
<1>5. CASE Restart
  BY <1>5 DEF Restart, ControlTyped
<1> QED BY <1>1, <1>2, <1>3, <1>4, <1>5 DEF ControlNext

-----------------------------------------------------------------------------
\* The invariant holds before the gateway's first start.
LEMMA InitControlInv == ControlInit => ControlInv
<1> SUFFICES ASSUME ControlInit PROVE ControlInv
  OBVIOUS
<1>1. /\ Init /\ SchedulerInit
      /\ manualDrain = "none" /\ joining = FALSE /\ strayStop = FALSE
  BY DEF ControlInit
<1>2. /\ gateway = "down" /\ load = "none" /\ registered = FALSE /\ fresh = {}
      /\ leases = {} /\ \A a \in Workers : pc[a] = "idle"
      /\ \A r \in Requests : req[r] = "idle"
  BY <1>1 DEF Init
<1>3. IInv /\ Owned /\ SchedulerInv
  BY <1>1, InitIInv, InitOwned, InitSchedulerInv
<1>4. \A r \in Requests : caller[r] = "idle"
  BY <1>1 DEF SchedulerInit
<1>5. CallersFit /\ ControlTyped /\ LeasesFit
  BY <1>1, <1>2, <1>4 DEF CallersFit, ControlTyped, LeasesFit
<1>6. RoleFits
  BY <1>1, <1>2, ControlAssumption, Actors
  DEF RoleFits, RecordFits, LoadApart, StopsRecorded, WorkersFit, LatchFits,
      OperatorFits, ConsoleFits, PinDrainFits, SwitchFits, AtOff, StrayFits, ServiceFits,
      UnitFits, AbortInProgress, LeasedRoleServes, Aborting, Reconciled, Stopping, Up
<1> QED BY <1>3, <1>5, <1>6 DEF ControlInv, ControlFits

\* Every step keeps it.
LEMMA NextControlInv == ControlInv /\ [ControlNext]_allVars => ControlInv'
<1>1. ASSUME ControlInv, ControlNext PROVE ControlInv'
  BY <1>1, LifecycleKept, SchedulerKept, TurnsKept, ControlTypedKept, RoleFitsKept
  DEF ControlInv, ControlFits
<1>2. ASSUME ControlInv, UNCHANGED allVars PROVE ControlInv'
  <2>1. UNCHANGED <<vars, schedulerVars, controlVars>>
    BY <1>2 DEF allVars
  <2>2. IInv' /\ SchedulerInv'
    BY <1>2, <2>1, NextIInv, NextSchedulerInv DEF ControlInv
  <2>3. Owned'
    BY <1>2, <2>1, OwnedStays DEF ControlInv, vars, record, workers, loader
  <2>4. CallersFit' /\ ControlTyped' /\ LeasesFit'
    BY <1>2, <2>1 DEF ControlInv, ControlFits, CallersFit, ControlTyped, LeasesFit, vars,
       schedulerVars, pinVars, controlVars, holders
  <2>5. RoleFits'
    BY <1>2, <2>1 DEF ControlInv, ControlFits, RoleFits, RecordFits, LoadApart, StopsRecorded,
       WorkersFit, LatchFits, OperatorFits, ConsoleFits, PinDrainFits, SwitchFits, AtOff,
       StrayFits, ServiceFits, UnitFits, AbortInProgress, LeasedRoleServes, Runs, Reconciled,
       Latched, Up, NoPins, vars, schedulerVars, pinVars, controlVars, record, holders, workers,
       loader
  <2> QED BY <2>2, <2>3, <2>4, <2>5 DEF ControlInv, ControlFits
<1> QED BY <1>1, <1>2

\* The role, the pins and the operator's calls always agree in this way.
THEOREM ControlInvariance == ControlSpec => []ControlInv
BY InitControlInv, NextControlInv, PTL DEF ControlSpec

\* OFF never stops the Executor under a turn that has its lease: not by its own
\* unload, not by the drain, the start-up or the stop that aborts a load, and not
\* in a thread that an aborted OFF left behind (api.py:6556, lifecycle.py:2206).
THEOREM OffSparesTurns == ControlSpec => []OffStopsOnlyUnused
<1>1. ASSUME ControlInv PROVE OffStopsOnlyUnused
  <2>0. /\ Typed /\ UnloadsOnlyUnused /\ StartUpIsAlone /\ WorkersFit /\ LeasesFit
        /\ ConsoleFits /\ PinDrainFits /\ StrayFits
    BY <1>1 DEF ControlInv, ControlFits, IInv, Safe, Owned, RoleFits, RecordFits, OperatorFits
  <2>1. ASSUME NEW a \in Workers, pc[a] = "off_stopping" PROVE leases = {}
    <3>1. CASE a = Console \/ a = PinDrain
      BY <2>0, <2>1, <3>1 DEF ConsoleFits, PinDrainFits, AtOff
    <3>2. CASE a = "boot"
      BY <2>0, <2>1, <3>2 DEF StartUpIsAlone, LeasesFit
    <3>3. a \notin {"sched", "drain"}
      BY <2>0, <2>1 DEF WorkersFit, Holding, Stopping
    <3> QED BY <3>1, <3>2, <3>3, ControlAssumption DEF Workers, Callers
  <2> QED BY <2>0, <2>1 DEF OffStopsOnlyUnused, StopsOnlyUnused, UnloadsOnlyUnused, StrayFits
<1> QED BY <1>1, ControlInvariance, PTL

\* Where the driver, the probes and the unit do not fail: local work is always the
\* work of a turn that owns a slot, a turn that is over owns none, and a turn is
\* served by a role that stays up, whatever ON, OFF, the drains, a client that
\* goes and a restart do in between (api.py:3795-3990, 6540-6600).
THEOREM LocalWorkHasItsPin == ASSUME ~Faults PROVE ControlSpec => []LocalWorkIsPinned
<1>1. ASSUME ControlInv PROVE LocalWorkIsPinned
  <2>1. gateway # "down" => leases \subseteq owners
    BY <1>1, LeasesArePinned DEF ControlInv, ControlFits
  <2>2. NoOrphanPin
    BY <1>1 DEF ControlInv, SchedulerInv, PinsMatchQueues, CallersMatchPins, NoOrphanPin
  <2>3. LeasedRoleServes
    BY <1>1 DEF ControlInv, ControlFits, RoleFits, ServiceFits
  <2> QED BY <2>1, <2>2, <2>3 DEF LocalWorkIsPinned
<1> QED BY <1>1, ControlInvariance, PTL

\* Failures or not, the leases on the local Executor are never more than the slots
\* of the pool: the bound is kept by a component that knows nothing of leases
\* (scheduler.py:88-140).
THEOREM LocalWorkIsBounded ==
    ControlSpec => [](gateway # "down" => Cardinality(leases) <= MaxLocal)
<1>1. ASSUME ControlInv, gateway # "down" PROVE Cardinality(leases) <= MaxLocal
  <2>1. leases \subseteq owners
    BY <1>1, LeasesArePinned DEF ControlInv, ControlFits
  <2>2. owners \subseteq Requests /\ Cardinality(owners) <= MaxLocal
    BY <1>1 DEF ControlInv, SchedulerInv, SchedulerTypeOK, NoIdleSlotWhileQueued
  <2>3. IsFiniteSet(owners) /\ IsFiniteSet(leases)
    BY <2>1, <2>2, KeyAssumption, FS_Subset
  <2>4. Cardinality(leases) <= Cardinality(owners)
    BY <2>1, <2>3, FS_Subset
  <2>5. Cardinality(leases) \in Nat /\ Cardinality(owners) \in Nat
    BY <2>3, FS_CardinalityType
  <2> QED BY <2>2, <2>4, <2>5, LimitAssumption
<1> QED BY <1>1, ControlInvariance, PTL

\* Where they do not fail, the record, the unit, the tasks and the switch agree as
\* well: an ON that has returned is final, a load that has begun has an owner,
\* and disabled means stopped (lifecycle.py:2161-2263, api.py:6540-6600).
THEOREM RecordsAlwaysAgree == ASSUME ~Faults PROVE ControlSpec => []RecordsAgree
<1>1. ASSUME ControlInv PROVE RecordsAgree
  <2>0. /\ Typed /\ Owned /\ ControlTyped /\ OperatorFits /\ RecordFits /\ StrayFits /\ UnitFits
    BY <1>1 DEF ControlInv, ControlFits, IInv, RoleFits, ServiceFits
  <2>1. ControlTypeOK
    BY <1>1, <2>0, TypedImpliesTypeOK DEF ControlInv, SchedulerInv, ControlTyped, ControlTypeOK
  <2>2. OnIsFinal
    BY <2>0, Actors, ControlAssumption
    DEF OperatorFits, ConsoleFits, PinDrainFits, SwitchFits, OnIsFinal, AdmissionFree, AtOff,
        ControlTyped, Typed, SwitchesTyped
  <2>3. LoadsAreOwned
    BY <2>0 DEF Owned, RecordIsWorkedOn, LoadsAreOwned, LoadingHasOwner, Begun, Loading, Up
  <2>4. ASSUME ~strayStop, \A a \in Callers : pc[a] = "idle" PROVE DisabledMeansStopped
    BY <2>0, <2>4, ControlAssumption, Actors
    DEF UnitFits, DisabledMeansStopped, Runs, Reconciled, AbortInProgress, Aborting
  <2> QED BY <2>1, <2>2, <2>3, <2>4 DEF RecordsAgree
<1> QED BY <1>1, ControlInvariance, PTL

=============================================================================
