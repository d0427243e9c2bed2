---------------------------- MODULE MutexProofs ----------------------------
(***************************************************************************)
(* The mutexes of Mutex restore priorities and lose no wakeup, for any     *)
(* number of tasks, mutexes and priorities, and every kind of wait; with a *)
(* single mutex, nobody waits for a task of a lower priority, and the task *)
(* that runs is the most urgent but for what an expired wait leaves behind.*)
(***************************************************************************)
EXTENDS Mutex, FiniteSetTheorems, SequenceTheorems, TLAPS

-----------------------------------------------------------------------------
(* The inductive invariant                                                 *)

Held(t) == {m \in Mutex : xMutexHolder[m] = t}

\* The kernel's count is that of the mutexes a task holds.
Counts == \A t \in Task : uxMutexesHeld[t] = Cardinality(Held(t))

\* A task in a list is blocked, in a take of that mutex, and there once.
Listed(u, m) == state[u] = "blocked" /\ pc[u] = "try" /\ want[u] = m

Lists == \A m \in Mutex : \A i \in 1 .. Len(xTasksWaitingToReceive[m]) :
  Listed(xTasksWaitingToReceive[m][i], m)

NoRepeat(q) == \A i, j \in 1 .. Len(q) : q[i] = q[j] => i = j
Once == \A m \in Mutex : NoRepeat(xTasksWaitingToReceive[m])

\* The task that runs is ready, and one inside of a take, or blocked in it, has a
\* mutex in mind.
Running == ~yield /\ current # None => state[current] = "ready"
Calling == \A t \in Task :
  pc[t] # "run" \/ state[t] = "blocked" => want[t] \in Mutex

IInv == TypeOK /\ Calling /\ Counts /\ BaseRestored /\ Lists /\ Once /\ Running /\ NoLostWakeup

-----------------------------------------------------------------------------
(* Lists of waiting tasks                                                  *)

LEMMA Inserted ==
  ASSUME NEW q \in Seq(Task), NEW t \in Task, NEW n \in 0 .. Len(q)
  PROVE  /\ InsertAfter(q, t, n) \in Seq(Task) /\ Len(InsertAfter(q, t, n)) = Len(q) + 1
         /\ \A i \in 1 .. Len(q) + 1 : \/ InsertAfter(q, t, n)[i] = t
                                       \/ \E j \in 1 .. Len(q) : InsertAfter(q, t, n)[i] = q[j]
         /\ NoRepeat(q) /\ (\A j \in 1 .. Len(q) : q[j] # t) => NoRepeat(InsertAfter(q, t, n))
<1> DEFINE r == InsertAfter(q, t, n)
<1>1. Len(q) \in Nat /\ (\A j \in 1 .. Len(q) : q[j] \in Task) BY ElementOfSeq, LenProperties
<1>2. r = [j \in 1 .. Len(q) + 1 |-> IF j <= n THEN q[j] ELSE IF j = n + 1 THEN t ELSE q[j - 1]]
  BY DEF InsertAfter
<1>3. \A i \in 1 .. Len(q) + 1 :
        /\ i <= n => i \in 1 .. Len(q) /\ r[i] = q[i]
        /\ i = n + 1 => r[i] = t
        /\ i > n + 1 => i - 1 \in 1 .. Len(q) /\ r[i] = q[i - 1]
  BY <1>1, <1>2, SMT
<1>4. \A i \in 1 .. Len(q) + 1 : i <= n \/ i = n + 1 \/ i > n + 1 BY <1>1, SMT
<1>5. \A i \in 1 .. Len(q) + 1 : r[i] \in Task BY <1>1, <1>3, <1>4
<1>6. r \in [1 .. Len(q) + 1 -> Task] BY <1>2, <1>5
<1>7. Len(q) + 1 \in Nat BY <1>1, SMT
<1>8. r \in Seq(Task) /\ Len(r) = Len(q) + 1 BY <1>6, <1>7, LenProperties, SMT
<1>9. \A i \in 1 .. Len(q) + 1 : r[i] = t \/ \E j \in 1 .. Len(q) : r[i] = q[j] BY <1>3, <1>4
<1>10. ASSUME NoRepeat(q), \A j \in 1 .. Len(q) : q[j] # t PROVE NoRepeat(r)
  <2>1. ASSUME NEW i \in 1 .. Len(q) + 1, NEW j \in 1 .. Len(q) + 1, r[i] = r[j] PROVE i = j
    BY <1>1, <1>3, <1>4, <1>10, <2>1, SMT DEF NoRepeat
  <2> QED BY <1>8, <2>1 DEF NoRepeat
<1> QED BY <1>8, <1>9, <1>10

LEMMA Removed ==
  ASSUME NEW q \in Seq(Task), NEW n \in 1 .. Len(q)
  PROVE  /\ RemoveAt(q, n) \in Seq(Task) /\ Len(RemoveAt(q, n)) = Len(q) - 1
         /\ \A i \in 1 .. Len(q) - 1 : \E j \in 1 .. Len(q) : j # n /\ RemoveAt(q, n)[i] = q[j]
         /\ NoRepeat(q) => NoRepeat(RemoveAt(q, n))
<1> DEFINE r == RemoveAt(q, n)
<1>1. Len(q) \in Nat /\ (\A j \in 1 .. Len(q) : q[j] \in Task) BY ElementOfSeq, LenProperties
<1>2. r = [j \in 1 .. Len(q) - 1 |-> IF j < n THEN q[j] ELSE q[j + 1]] BY DEF RemoveAt
<1>3. \A i \in 1 .. Len(q) - 1 :
        /\ i < n => i \in 1 .. Len(q) /\ i # n /\ r[i] = q[i]
        /\ ~(i < n) => i + 1 \in 1 .. Len(q) /\ i + 1 # n /\ r[i] = q[i + 1]
  BY <1>1, <1>2, SMT
<1>4. \A i \in 1 .. Len(q) - 1 : \E j \in 1 .. Len(q) : j # n /\ r[i] = q[j] BY <1>3
<1>5. \A i \in 1 .. Len(q) - 1 : r[i] \in Task BY <1>1, <1>4
<1>6. r \in [1 .. Len(q) - 1 -> Task] BY <1>2, <1>5
<1>7. Len(q) - 1 \in Nat BY <1>1, SMT
<1>8. r \in Seq(Task) /\ Len(r) = Len(q) - 1 BY <1>6, <1>7, LenProperties, SMT
<1>9. ASSUME NoRepeat(q) PROVE NoRepeat(r)
  <2>1. ASSUME NEW i \in 1 .. Len(q) - 1, NEW j \in 1 .. Len(q) - 1, r[i] = r[j] PROVE i = j
    BY <1>1, <1>3, <1>9, <2>1, SMT DEF NoRepeat
  <2> QED BY <1>8, <2>1 DEF NoRepeat
<1> QED BY <1>4, <1>8, <1>9

-----------------------------------------------------------------------------
(* What the steps have in common                                           *)

LEMMA Initially == Init => IInv
<1> SUFFICES ASSUME Init PROVE IInv OBVIOUS
<1>1. TypeOK
  <2>1. Base \in [Task -> Nat] BY BaseAssumption
  <2>2. \A m \in Mutex : <<>> \in Seq(Task) BY EmptySeq
  <2> QED BY <2>1, <2>2 DEF Init, TypeOK
<1>2. \A t \in Task : Held(t) = {} BY MutexAssumption DEF Init, Held
<1>3. Counts BY <1>2, FS_EmptySet DEF Init, Counts
<1>4. \A m \in Mutex : Len(xTasksWaitingToReceive[m]) = 0 BY EmptySeq DEF Init
<1>5. \A i \in 1 .. 0 : FALSE BY SMT
<1>6. Lists /\ Once BY <1>4, <1>5 DEF Lists, Once, NoRepeat
<1> QED BY <1>1, <1>3, <1>6 DEF Init, IInv, Calling, BaseRestored, Running, NoLostWakeup

\* A task that executes a step is ready, so it is in no list.
LEMMA Executing ==
  ASSUME IInv, NEW t \in Task, current = t, ~yield
  PROVE  /\ state[t] = "ready" /\ t \in Ready
         /\ \A m \in Mutex : \A i \in 1 .. Len(xTasksWaitingToReceive[m]) :
              xTasksWaitingToReceive[m][i] # t
<1>1. t # None BY MutexAssumption
<1>2. state[t] = "ready" BY <1>1 DEF IInv, Running
<1> QED BY <1>2 DEF IInv, Lists, Listed, Ready

LEMMA InList ==
  ASSUME IInv, NEW m \in Mutex, NEW i \in 1 .. Len(xTasksWaitingToReceive[m])
  PROVE  xTasksWaitingToReceive[m][i] \in Task /\ xTasksWaitingToReceive[m] \in Seq(Task)
BY ElementOfSeq DEF IInv, TypeOK

\* A step of the running task that does not touch lists and states.
LEMMA OwnStep ==
  ASSUME IInv, NEW t \in Task, current = t, ~yield,
         state' = state, xTasksWaitingToReceive' = xTasksWaitingToReceive, current' = current,
         \A u \in Task \ {t} : pc'[u] = pc[u] /\ want'[u] = want[u],
         pc'[t] # "run" => want'[t] \in Mutex
  PROVE  Lists' /\ Once' /\ Running' /\ Calling'
<1>1. state[t] = "ready" BY Executing
<1>2. Once' BY DEF IInv, Once
<1>3. Running' BY <1>1 DEF Running
<1>4. Calling' BY <1>1 DEF IInv, Calling
<1>5. Lists' BY Executing, InList DEF IInv, Lists, Listed
<1> QED BY <1>2, <1>3, <1>4, <1>5

\* Nobody's mutexes, and no priority, change.
LEMMA SamePriorities ==
  ASSUME IInv, uxMutexesHeld' = uxMutexesHeld, xMutexHolder' = xMutexHolder,
         uxPriority' = uxPriority
  PROVE  Counts' /\ BaseRestored'
BY DEF IInv, Counts, Held, BaseRestored

\* A task that is on its way to a mutex and stays so.
OnItsWay(t, m) == t \in Ready /\ want[t] = m /\ pc[t] \in {"try", "block", "expired"}

LEMMA SameWakeups ==
  ASSUME IInv,
         \A m \in Mutex : xMutexHolder'[m] = None => xMutexHolder[m] = None,
         \A m \in Mutex : xTasksWaitingToReceive'[m] # <<>> /\ xMutexHolder'[m] = None
            => xTasksWaitingToReceive[m] # <<>>,
         \A m \in Mutex, u \in Task :
            OnItsWay(u, m) /\ xMutexHolder'[m] = None => OnItsWay(u, m)'
  PROVE  NoLostWakeup'
<1> SUFFICES ASSUME NEW m \in Mutex, xMutexHolder'[m] = None, xTasksWaitingToReceive'[m] # <<>>
             PROVE  \E u \in Ready' : want'[u] = m /\ pc'[u] \in {"try", "block", "expired"}
  BY DEF NoLostWakeup
<1>1. PICK u \in Ready : want[u] = m /\ pc[u] \in {"try", "block", "expired"}
  BY DEF IInv, NoLostWakeup
<1>2. u \in Task /\ OnItsWay(u, m) BY <1>1 DEF OnItsWay, Ready
<1>3. OnItsWay(u, m)' BY <1>2
<1> QED BY <1>3 DEF OnItsWay

\* A task that is listed after the step.
StillListed(u, m) == state'[u] = "blocked" /\ pc'[u] = "try" /\ want'[u] = m

LEMMA StillInLists ==
  ASSUME \A m \in Mutex : \A i \in 1 .. Len(xTasksWaitingToReceive'[m]) :
           StillListed(xTasksWaitingToReceive'[m][i], m)
  PROVE  Lists'
BY DEF Lists, Listed, StillListed

-----------------------------------------------------------------------------
(* One lemma for each action                                               *)

LEMMA TakeKeeps ==
  ASSUME IInv, NEW t \in Task, NEW m \in Mutex, NEW w \in Waits, Take(t, m, w)
  PROVE  IInv'
<1>1. /\ current = t /\ ~yield /\ pc[t] = "run"
      /\ pc' = [pc EXCEPT ![t] = "try"] /\ want' = [want EXCEPT ![t] = m]
      /\ ticks' = [ticks EXCEPT ![t] = w]
      /\ sched' = sched /\ inherited' = inherited /\ prio' = prio /\ xMutexHolder' = xMutexHolder
      /\ xTasksWaitingToReceive' = xTasksWaitingToReceive
  BY DEF Take, At
<1>2. TypeOK'
  <2>1. w \in {"no", "some", "forever"} BY WaitsAssumption
  <2> QED BY <1>1, <2>1 DEF IInv, TypeOK, sched, prio
<1>3. Lists' /\ Once' /\ Running' /\ Calling'
  <2>1. \A u \in Task \ {t} : pc'[u] = pc[u] /\ want'[u] = want[u] BY <1>1 DEF IInv, TypeOK
  <2>2. want'[t] = m BY <1>1 DEF IInv, TypeOK
  <2> QED BY <1>1, <2>1, <2>2, OwnStep DEF sched
<1>4. Counts' /\ BaseRestored' BY <1>1, SamePriorities DEF prio
<1>5. NoLostWakeup'
  <2>1. ASSUME NEW n \in Mutex, NEW u \in Task, OnItsWay(u, n) PROVE OnItsWay(u, n)'
    BY <1>1, <2>1 DEF OnItsWay, Ready, sched, IInv, TypeOK
  <2> QED BY <1>1, <2>1, SameWakeups
<1> QED BY <1>2, <1>3, <1>4, <1>5 DEF IInv

LEMMA ExpireKeeps == ASSUME IInv, NEW t \in Task, Expire(t) PROVE IInv'
<1>1. /\ current = t /\ ~yield /\ pc[t] = "block"
      /\ pc' = [pc EXCEPT ![t] = "expired"] /\ want' = want /\ ticks' = ticks
      /\ sched' = sched /\ inherited' = inherited /\ prio' = prio /\ xMutexHolder' = xMutexHolder
      /\ xTasksWaitingToReceive' = xTasksWaitingToReceive
  BY DEF Expire, At, Goto
<1>2. TypeOK' BY <1>1 DEF IInv, TypeOK, sched, prio
<1>3. Lists' /\ Once' /\ Running' /\ Calling'
  <2>1. \A u \in Task \ {t} : pc'[u] = pc[u] /\ want'[u] = want[u] BY <1>1 DEF IInv, TypeOK
  <2>2. want'[t] \in Mutex BY <1>1 DEF IInv, Calling
  <2> QED BY <1>1, <2>1, <2>2, OwnStep DEF sched
<1>4. Counts' /\ BaseRestored' BY <1>1, SamePriorities DEF prio
<1>5. NoLostWakeup'
  <2>1. ASSUME NEW n \in Mutex, NEW u \in Task, OnItsWay(u, n) PROVE OnItsWay(u, n)'
    BY <1>1, <2>1 DEF OnItsWay, Ready, sched, IInv, TypeOK
  <2> QED BY <1>1, <2>1, SameWakeups
<1> QED BY <1>2, <1>3, <1>4, <1>5 DEF IInv

\* The end of a call: the task takes the mutex, or leaves it to a holder, or is
\* not on its way to it any more.
LEMMA ReturnKeeps ==
  ASSUME IInv, NEW t \in Task, current = t, ~yield, Return(t), sched' = sched,
         xTasksWaitingToReceive' = xTasksWaitingToReceive,
         \A m \in Mutex : xMutexHolder'[m] = None =>
           xMutexHolder[m] = None /\ (m # want[t] \/ pc[t] = "disinherit")
  PROVE  /\ Lists' /\ Once' /\ Running' /\ Calling' /\ NoLostWakeup'
         /\ pc' \in [Task -> {"run", "try", "block", "expired", "disinherit"}]
         /\ want' \in [Task -> Mutex \union {None}] /\ ticks' \in [Task -> {"no", "some", "forever"}]
         /\ inherited' \in [Task -> BOOLEAN]
<1>1. /\ pc' = [pc EXCEPT ![t] = "run"] /\ want' = [want EXCEPT ![t] = None]
      /\ ticks' = [ticks EXCEPT ![t] = "no"] /\ inherited' = [inherited EXCEPT ![t] = FALSE]
  BY DEF Return
<1>2. \A u \in Task \ {t} : pc'[u] = pc[u] /\ want'[u] = want[u] BY <1>1 DEF IInv, TypeOK
<1>3. pc'[t] = "run" BY <1>1 DEF IInv, TypeOK
<1>4. Lists' /\ Once' /\ Running' /\ Calling' BY <1>2, <1>3, OwnStep DEF sched
<1>5. NoLostWakeup'
  <2>1. ASSUME NEW n \in Mutex, NEW u \in Task, OnItsWay(u, n), xMutexHolder'[n] = None
        PROVE  OnItsWay(u, n)'
    <3>1. u # t BY <2>1 DEF OnItsWay
    <3> QED BY <1>2, <2>1, <3>1 DEF OnItsWay, Ready, sched
  <2> QED BY <2>1, SameWakeups
<1>6. /\ pc' \in [Task -> {"run", "try", "block", "expired", "disinherit"}]
      /\ want' \in [Task -> Mutex \union {None}] /\ ticks' \in [Task -> {"no", "some", "forever"}]
      /\ inherited' \in [Task -> BOOLEAN]
  BY <1>1 DEF IInv, TypeOK
<1> QED BY <1>4, <1>5, <1>6

LEMMA TryTakeKeeps == ASSUME IInv, NEW t \in Task, TryTake(t) PROVE IInv'
<1> DEFINE m == want[t]
<1>1. /\ current = t /\ ~yield /\ pc[t] = "try" /\ sched' = sched /\ uxPriority' = uxPriority
      /\ xTasksWaitingToReceive' = xTasksWaitingToReceive
  BY DEF TryTake, At
<1>2. m \in Mutex BY <1>1 DEF IInv, Calling
<1>3. t # None BY MutexAssumption
<1>4. CASE /\ xMutexHolder[m] = None
           /\ xMutexHolder' = [xMutexHolder EXCEPT ![m] = t]
           /\ uxMutexesHeld' = [uxMutexesHeld EXCEPT ![t] = @ + 1]
           /\ Return(t)
  <2>1. \A n \in Mutex : xMutexHolder'[n] = (IF n = m THEN t ELSE xMutexHolder[n])
    BY <1>2, <1>4 DEF IInv, TypeOK
  <2>2. /\ Lists' /\ Once' /\ Running' /\ Calling' /\ NoLostWakeup'
        /\ pc' \in [Task -> {"run", "try", "block", "expired", "disinherit"}]
        /\ want' \in [Task -> Mutex \union {None}] /\ ticks' \in [Task -> {"no", "some", "forever"}]
        /\ inherited' \in [Task -> BOOLEAN]
    BY <1>1, <1>3, <1>4, <2>1, ReturnKeeps
  <2>3. TypeOK'
    <3>1. uxMutexesHeld' \in [Task -> Nat] BY <1>4 DEF IInv, TypeOK
    <3>2. xMutexHolder' \in [Mutex -> Task \union {None}] BY <1>4 DEF IInv, TypeOK
    <3> QED BY <1>1, <2>2, <3>1, <3>2 DEF IInv, TypeOK, sched
  <2>4. \A u \in Task : Held(u)' = IF u = t THEN Held(u) \cup {m} ELSE Held(u)
    BY <1>2, <1>4, <2>1, MutexAssumption DEF Held
  <2>5. Counts'
    <3>1. ASSUME NEW u \in Task PROVE uxMutexesHeld'[u] = Cardinality(Held(u)')
      <4>1. IsFiniteSet(Held(u)) BY FiniteAssumption, FS_Subset DEF Held
      <4>2. CASE u = t
        <5>1. m \notin Held(t) BY <1>3, <1>4 DEF Held
        <5>2. Cardinality(Held(t) \cup {m}) = Cardinality(Held(t)) + 1
          BY <4>1, <4>2, <5>1, FS_AddElement
        <5>3. uxMutexesHeld'[t] = uxMutexesHeld[t] + 1 BY <1>4 DEF IInv, TypeOK
        <5> QED BY <2>4, <4>2, <5>2, <5>3 DEF IInv, Counts
      <4>3. CASE u # t
        <5>1. uxMutexesHeld'[u] = uxMutexesHeld[u] BY <1>4, <4>3 DEF IInv, TypeOK
        <5> QED BY <2>4, <4>3, <5>1 DEF IInv, Counts
      <4> QED BY <4>2, <4>3
    <3> QED BY <3>1 DEF Counts
  <2>6. BaseRestored'
    <3>1. ASSUME NEW u \in Task, \A n \in Mutex : xMutexHolder'[n] # u PROVE uxPriority'[u] = Base[u]
      <4>1. u # t BY <1>2, <2>1, <3>1
      <4>2. \A n \in Mutex : xMutexHolder[n] # u BY <1>4, <2>1, <3>1, MutexAssumption
      <4> QED BY <1>1, <4>2 DEF IInv, BaseRestored
    <3> QED BY <3>1 DEF BaseRestored
  <2> QED BY <2>2, <2>3, <2>5, <2>6 DEF IInv
<1>5. CASE xMutexHolder[m] # None /\ Return(t) /\ UNCHANGED <<xMutexHolder, uxMutexesHeld>>
  <2>1. /\ Lists' /\ Once' /\ Running' /\ Calling' /\ NoLostWakeup'
        /\ pc' \in [Task -> {"run", "try", "block", "expired", "disinherit"}]
        /\ want' \in [Task -> Mutex \union {None}] /\ ticks' \in [Task -> {"no", "some", "forever"}]
        /\ inherited' \in [Task -> BOOLEAN]
    BY <1>1, <1>5, ReturnKeeps
  <2>2. TypeOK' BY <1>1, <1>5, <2>1 DEF IInv, TypeOK, sched
  <2>3. Counts' /\ BaseRestored' BY <1>1, <1>5, SamePriorities
  <2> QED BY <2>1, <2>2, <2>3 DEF IInv
<1>6. CASE Goto(t, "block") /\ UNCHANGED <<inherited, xMutexHolder, uxMutexesHeld>>
  <2>1. pc' = [pc EXCEPT ![t] = "block"] /\ want' = want /\ ticks' = ticks BY <1>6 DEF Goto
  <2>2. TypeOK' BY <1>1, <1>6, <2>1 DEF IInv, TypeOK, sched
  <2>3. \A u \in Task \ {t} : pc'[u] = pc[u] /\ want'[u] = want[u] BY <2>1 DEF IInv, TypeOK
  <2>4. Lists' /\ Once' /\ Running' /\ Calling' BY <1>1, <1>2, <2>1, <2>3, OwnStep DEF sched
  <2>5. Counts' /\ BaseRestored' BY <1>1, <1>6, SamePriorities
  <2>6. ASSUME NEW n \in Mutex, NEW u \in Task, OnItsWay(u, n) PROVE OnItsWay(u, n)'
    BY <1>1, <2>1, <2>6 DEF OnItsWay, Ready, sched, IInv, TypeOK
  <2>7. NoLostWakeup' BY <1>1, <1>6, <2>6, SameWakeups
  <2> QED BY <2>2, <2>4, <2>5, <2>7 DEF IInv
<1> QED BY <1>4, <1>5, <1>6 DEF TryTake

LEMMA CheckEmptyKeeps == ASSUME IInv, NEW t \in Task, CheckEmpty(t) PROVE IInv'
<1> DEFINE m == want[t]
<1>1. /\ current = t /\ ~yield /\ pc[t] = "expired" /\ sched' = sched /\ prio' = prio
      /\ xMutexHolder' = xMutexHolder /\ xTasksWaitingToReceive' = xTasksWaitingToReceive
  BY DEF CheckEmpty, At
<1>2. m \in Mutex BY <1>1 DEF IInv, Calling
<1>3. Counts' /\ BaseRestored' BY <1>1, SamePriorities DEF prio
<1>4. ASSUME NEW p \in {"try", "disinherit"}, Goto(t, p), inherited' = inherited,
             p = "disinherit" => xMutexHolder[m] # None
      PROVE  IInv'
  <2>1. pc' = [pc EXCEPT ![t] = p] /\ want' = want /\ ticks' = ticks BY <1>4 DEF Goto
  <2>2. TypeOK' BY <1>1, <1>4, <2>1 DEF IInv, TypeOK, sched, prio
  <2>3. \A u \in Task \ {t} : pc'[u] = pc[u] /\ want'[u] = want[u] BY <2>1 DEF IInv, TypeOK
  <2>4. Lists' /\ Once' /\ Running' /\ Calling' BY <1>1, <1>2, <2>1, <2>3, OwnStep DEF sched
  <2>5. ASSUME NEW n \in Mutex, NEW u \in Task, OnItsWay(u, n), xMutexHolder'[n] = None
        PROVE  OnItsWay(u, n)'
    <3>1. pc'[t] = p /\ state' = state BY <1>1, <2>1 DEF IInv, TypeOK, sched
    <3>2. CASE u = t BY <1>1, <1>4, <2>1, <2>5, <3>1, <3>2 DEF OnItsWay, Ready
    <3>3. CASE u # t BY <2>1, <2>3, <2>5, <3>1, <3>3 DEF OnItsWay, Ready
    <3> QED BY <3>2, <3>3
  <2>6. NoLostWakeup' BY <1>1, <2>5, SameWakeups
  <2> QED BY <1>3, <2>2, <2>4, <2>6 DEF IInv
<1>5. CASE xMutexHolder[m] # None /\ Return(t)
  <2>1. /\ Lists' /\ Once' /\ Running' /\ Calling' /\ NoLostWakeup'
        /\ pc' \in [Task -> {"run", "try", "block", "expired", "disinherit"}]
        /\ want' \in [Task -> Mutex \union {None}] /\ ticks' \in [Task -> {"no", "some", "forever"}]
        /\ inherited' \in [Task -> BOOLEAN]
    BY <1>1, <1>5, ReturnKeeps
  <2>2. TypeOK' BY <1>1, <2>1 DEF IInv, TypeOK, sched, prio
  <2> QED BY <1>3, <2>1, <2>2 DEF IInv
<1> QED BY <1>4, <1>5 DEF CheckEmpty

\* Only a task that holds a mutex gets another priority.
LEMMA HolderRaised ==
  ASSUME IInv, NEW m \in Mutex, uxMutexesHeld' = uxMutexesHeld, xMutexHolder' = xMutexHolder,
         \A u \in Task : u # xMutexHolder[m] => uxPriority'[u] = uxPriority[u]
  PROVE  Counts' /\ BaseRestored'
<1>1. Counts' BY DEF IInv, Counts, Held
<1>2. BaseRestored' BY DEF IInv, BaseRestored
<1> QED BY <1>1, <1>2

LEMMA TimedOutKeeps == ASSUME IInv, NEW t \in Task, TimedOut(t) PROVE IInv'
<1> DEFINE m == want[t]
<1> DEFINE h == xMutexHolder[m]
<1>1. /\ current = t /\ ~yield /\ pc[t] = "disinherit" /\ sched' = sched
      /\ uxMutexesHeld' = uxMutexesHeld /\ xMutexHolder' = xMutexHolder
      /\ xTasksWaitingToReceive' = xTasksWaitingToReceive
      /\ vTaskPriorityDisinheritAfterTimeout(h, HighestWaiting(m)) /\ Return(t)
  BY DEF TimedOut, At
<1>2. m \in Mutex BY <1>1 DEF IInv, Calling
<1>3. HighestWaiting(m) \in Nat
  <2>1. CASE xTasksWaitingToReceive[m] = <<>> BY <2>1 DEF HighestWaiting
  <2>2. CASE xTasksWaitingToReceive[m] # <<>>
    <3>1. xTasksWaitingToReceive[m] \in Seq(Task) BY <1>2 DEF IInv, TypeOK
    <3>2. 1 \in 1 .. Len(xTasksWaitingToReceive[m]) BY <2>2, <3>1, EmptySeq, LenProperties, SMT
    <3>3. xTasksWaitingToReceive[m][1] \in Task BY <1>2, <3>2, InList
    <3> QED BY <2>2, <3>3 DEF HighestWaiting, IInv, TypeOK
  <2> QED BY <2>1, <2>2
<1>4. /\ uxPriority' \in [Task -> Nat]
      /\ \A u \in Task : u # h => uxPriority'[u] = uxPriority[u]
  <2>1. CASE h # None /\ uxMutexesHeld[h] = 1
    <3>1. h \in Task BY <1>2, <2>1 DEF IInv, TypeOK
    <3>2. Larger(Base[h], HighestWaiting(m)) \in Nat BY <1>3, <3>1, BaseAssumption DEF Larger
    <3>3. uxPriority' = [uxPriority EXCEPT ![h] = Larger(Base[h], HighestWaiting(m))]
      BY <1>1, <2>1 DEF vTaskPriorityDisinheritAfterTimeout
    <3> QED BY <3>1, <3>2, <3>3 DEF IInv, TypeOK
  <2>2. CASE ~(h # None /\ uxMutexesHeld[h] = 1)
    BY <1>1, <2>2 DEF vTaskPriorityDisinheritAfterTimeout, IInv, TypeOK
  <2> QED BY <2>1, <2>2
<1>5. Counts' /\ BaseRestored' BY <1>1, <1>2, <1>4, HolderRaised
<1>6. /\ Lists' /\ Once' /\ Running' /\ Calling' /\ NoLostWakeup'
      /\ pc' \in [Task -> {"run", "try", "block", "expired", "disinherit"}]
      /\ want' \in [Task -> Mutex \union {None}] /\ ticks' \in [Task -> {"no", "some", "forever"}]
      /\ inherited' \in [Task -> BOOLEAN]
  BY <1>1, ReturnKeeps
<1>7. TypeOK' BY <1>1, <1>4, <1>6 DEF IInv, TypeOK, sched
<1> QED BY <1>5, <1>6, <1>7 DEF IInv

LEMMA BlockKeeps == ASSUME IInv, NEW t \in Task, Block(t) PROVE IInv'
<1> DEFINE m == want[t]
<1> DEFINE h == xMutexHolder[m]
<1> DEFINE q == xTasksWaitingToReceive[m]
<1>1. /\ current = t /\ ~yield /\ pc[t] = "block" /\ pc' = [pc EXCEPT ![t] = "try"]
      /\ want' = want /\ ticks' = ticks
      /\ uxMutexesHeld' = uxMutexesHeld /\ xMutexHolder' = xMutexHolder
  BY DEF Block, At, Goto
<1>2. m \in Mutex BY <1>1 DEF IInv, Calling
<1>3. pc' \in [Task -> {"run", "try", "block", "expired", "disinherit"}] BY <1>1 DEF IInv, TypeOK
<1>4. \A u \in Task \ {t} : pc'[u] = pc[u] BY <1>1 DEF IInv, TypeOK
<1>5. pc'[t] = "try" BY <1>1 DEF IInv, TypeOK
<1>6. CASE h = None
  <2>1. UNCHANGED <<sched, inherited, uxPriority, xTasksWaitingToReceive>> BY <1>6 DEF Block
  <2>2. TypeOK' BY <1>1, <1>3, <2>1 DEF IInv, TypeOK, sched
  <2>3. Lists' /\ Once' /\ Running' /\ Calling' BY <1>1, <1>2, <1>4, <2>1, OwnStep DEF sched
  <2>4. Counts' /\ BaseRestored' BY <1>1, <2>1, SamePriorities
  <2>5. ASSUME NEW n \in Mutex, NEW u \in Task, OnItsWay(u, n) PROVE OnItsWay(u, n)'
    BY <1>1, <2>1, <2>5 DEF OnItsWay, Ready, sched, IInv, TypeOK
  <2>6. NoLostWakeup' BY <1>1, <2>1, <2>5, SameWakeups
  <2> QED BY <2>2, <2>3, <2>4, <2>6 DEF IInv
<1>7. CASE h # None
  <2>1. xTaskPriorityInherit(t, h) /\ vTaskPlaceOnEventList(t, m) BY <1>7 DEF Block
  <2>2. h \in Task BY <1>2, <1>7 DEF IInv, TypeOK
  <2>3. PICK n \in 0 .. Len(q) :
          xTasksWaitingToReceive' = [xTasksWaitingToReceive EXCEPT ![m] = InsertAfter(q, t, n)]
    BY <2>1 DEF vTaskPlaceOnEventList
  <2>4. state' = [state EXCEPT ![t] = "blocked"] /\ yield' = TRUE /\ current' = current
    BY <2>1 DEF vTaskPlaceOnEventList
  <2>5. q \in Seq(Task) BY <1>2 DEF IInv, TypeOK
  <2>6. \A j \in 1 .. Len(q) : q[j] # t BY <1>1, <1>2, Executing
  <2>7. \A u \in Task : u # h => uxPriority'[u] = uxPriority[u]
    BY <2>1, <2>2 DEF xTaskPriorityInherit, IInv, TypeOK
  <2>8. Counts' /\ BaseRestored' BY <1>1, <1>2, <2>7, HolderRaised
  <2>9. TypeOK'
    <3>1. uxPriority' \in [Task -> Nat] /\ inherited' \in [Task -> BOOLEAN]
      BY <2>1 DEF xTaskPriorityInherit, IInv, TypeOK
    <3>2. InsertAfter(q, t, n) \in Seq(Task) BY <2>5, Inserted
    <3>3. xTasksWaitingToReceive' \in [Mutex -> Seq(Task)] BY <2>3, <3>2 DEF IInv, TypeOK
    <3> QED BY <1>1, <1>3, <2>4, <3>1, <3>3 DEF IInv, TypeOK
  <2>10. \A k \in Mutex : xTasksWaitingToReceive'[k] =
           IF k = m THEN InsertAfter(q, t, n) ELSE xTasksWaitingToReceive[k]
    BY <2>3 DEF IInv, TypeOK
  <2>11. Once'
    <3>1. NoRepeat(InsertAfter(q, t, n)) BY <1>2, <2>5, <2>6, Inserted DEF IInv, Once
    <3> QED BY <2>10, <3>1 DEF IInv, Once
  <2>12. Lists'
    <3>1. \A k \in Mutex, u \in Task : Listed(u, k) /\ u # t => StillListed(u, k)
      BY <1>1, <1>4, <2>4 DEF Listed, StillListed, IInv, TypeOK
    <3>2. StillListed(t, m) BY <1>1, <1>5, <2>4 DEF StillListed, IInv, TypeOK
    <3>3. ASSUME NEW i \in 1 .. Len(q) + 1 PROVE StillListed(InsertAfter(q, t, n)[i], m)
      <4>1. InsertAfter(q, t, n)[i] = t \/ \E j \in 1 .. Len(q) : InsertAfter(q, t, n)[i] = q[j]
        BY <2>5, Inserted
      <4>2. \A j \in 1 .. Len(q) : StillListed(q[j], m)
        BY <1>2, <2>6, <3>1, InList DEF IInv, Lists
      <4> QED BY <3>2, <4>1, <4>2
    <3>4. Len(InsertAfter(q, t, n)) = Len(q) + 1 BY <2>5, Inserted
    <3>5. ASSUME NEW k \in Mutex, k # m, NEW i \in 1 .. Len(xTasksWaitingToReceive[k])
          PROVE  StillListed(xTasksWaitingToReceive[k][i], k)
      BY <1>1, <3>1, Executing, InList DEF IInv, Lists
    <3>6. ASSUME NEW k \in Mutex, NEW i \in 1 .. Len(xTasksWaitingToReceive'[k])
          PROVE  StillListed(xTasksWaitingToReceive'[k][i], k)
      <4>1. CASE k = m BY <2>10, <3>3, <3>4, <3>6, <4>1
      <4>2. CASE k # m BY <2>10, <3>5, <3>6, <4>2
      <4> QED BY <4>1, <4>2
    <3> QED BY <3>6, StillInLists
  <2>13. Running' BY <2>4 DEF Running
  <2>14. Calling'
    <3>1. \A u \in Task \ {t} : state'[u] = state[u] BY <2>4 DEF IInv, TypeOK
    <3> QED BY <1>1, <1>2, <1>4, <3>1 DEF IInv, Calling
  <2>15. NoLostWakeup'
    <3>1. ASSUME NEW k \in Mutex, NEW u \in Task, OnItsWay(u, k), xMutexHolder'[k] = None
          PROVE  OnItsWay(u, k)'
      <4>1. u # t BY <1>1, <1>7, <3>1 DEF OnItsWay
      <4> QED BY <1>1, <1>4, <2>4, <3>1, <4>1 DEF OnItsWay, Ready, IInv, TypeOK
    <3>2. \A k \in Mutex : xTasksWaitingToReceive'[k] # <<>> /\ xMutexHolder'[k] = None
            => xTasksWaitingToReceive[k] # <<>>
      BY <1>1, <1>7, <2>10
    <3> QED BY <1>1, <3>1, <3>2, SameWakeups
  <2> QED BY <2>8, <2>9, <2>11, <2>12, <2>13, <2>14, <2>15 DEF IInv
<1> QED BY <1>6, <1>7

\* A waiting task is taken out of its list and made ready.
LEMMA LeavesList ==
  ASSUME IInv, NEW m \in Mutex, NEW i \in 1 .. Len(xTasksWaitingToReceive[m]), NEW w \in Task,
         w = xTasksWaitingToReceive[m][i], state' = [state EXCEPT ![w] = "ready"],
         xTasksWaitingToReceive' =
           [xTasksWaitingToReceive EXCEPT ![m] = RemoveAt(xTasksWaitingToReceive[m], i)],
         pc' = pc, want' = want
  PROVE  /\ Lists' /\ Once' /\ xTasksWaitingToReceive' \in [Mutex -> Seq(Task)]
         /\ \A k \in Mutex : k # m => xTasksWaitingToReceive'[k] = xTasksWaitingToReceive[k]
<1> DEFINE q == xTasksWaitingToReceive[m]
<1> DEFINE r == RemoveAt(q, i)
<1>1. q \in Seq(Task) BY DEF IInv, TypeOK
<1>2. /\ r \in Seq(Task) /\ Len(r) = Len(q) - 1
      /\ \A j \in 1 .. Len(q) - 1 : \E k \in 1 .. Len(q) : k # i /\ r[j] = q[k]
      /\ NoRepeat(q) => NoRepeat(r)
  BY <1>1, Removed
<1> HIDE DEF r
<1>3. \A k \in Mutex : xTasksWaitingToReceive'[k] =
        IF k = m THEN r ELSE xTasksWaitingToReceive[k]
  BY DEF IInv, TypeOK, r
<1>4. xTasksWaitingToReceive' \in [Mutex -> Seq(Task)] BY <1>2 DEF IInv, TypeOK, r
<1>5. NoRepeat(q) BY DEF IInv, Once
<1>6. Once' BY <1>2, <1>3, <1>5 DEF IInv, Once
<1>7. \A k \in Mutex, u \in Task : Listed(u, k) /\ u # w => StillListed(u, k)
  BY DEF Listed, StillListed, IInv, TypeOK
<1>8. ASSUME NEW k \in Mutex, NEW j \in 1 .. Len(xTasksWaitingToReceive'[k])
      PROVE  StillListed(xTasksWaitingToReceive'[k][j], k)
  <2>1. CASE k = m
    <3>1. j \in 1 .. Len(q) - 1 BY <1>2, <1>3, <1>8, <2>1
    <3>2. PICK l \in 1 .. Len(q) : l # i /\ r[j] = q[l] BY <1>2, <3>1
    <3>3. q[l] # w BY <1>5, <3>2 DEF NoRepeat
    <3>4. q[l] \in Task /\ Listed(q[l], m) BY InList DEF IInv, Lists
    <3>5. StillListed(q[l], m) BY <1>7, <3>3, <3>4
    <3> QED BY <1>3, <2>1, <3>2, <3>5
  <2>2. CASE k # m
    <3>1. j \in 1 .. Len(xTasksWaitingToReceive[k]) BY <1>3, <1>8, <2>2
    <3> DEFINE u == xTasksWaitingToReceive[k][j]
    <3>2. u \in Task /\ Listed(u, k) BY <3>1, InList DEF IInv, Lists
    <3>3. Listed(w, m) BY DEF IInv, Lists
    <3>4. u # w BY <2>2, <3>2, <3>3 DEF Listed
    <3> QED BY <1>3, <1>7, <2>2, <3>2, <3>4
  <2> QED BY <2>1, <2>2
<1>9. Lists' BY <1>8, StillInLists
<1> QED BY <1>3, <1>4, <1>6, <1>9

LEMMA GiveKeeps == ASSUME IInv, NEW t \in Task, NEW m \in Mutex, Give(t, m) PROVE IInv'
<1> DEFINE q == xTasksWaitingToReceive[m]
<1>1. /\ current = t /\ ~yield /\ xMutexHolder[m] = t
      /\ xMutexHolder' = [xMutexHolder EXCEPT ![m] = None]
      /\ uxMutexesHeld' = [uxMutexesHeld EXCEPT ![t] = @ - 1]
      /\ uxPriority' = [uxPriority EXCEPT ![t] = IF uxMutexesHeld[t] = 1 THEN Base[t] ELSE @]
      /\ current' = current /\ pc' = pc /\ want' = want /\ ticks' = ticks /\ inherited' = inherited
  BY DEF Give, At, xTaskPriorityDisinherit, call
<1>2. t # None /\ state[t] = "ready" BY <1>1, MutexAssumption, Executing
<1>3. \A n \in Mutex : xMutexHolder'[n] = (IF n = m THEN None ELSE xMutexHolder[n])
  BY <1>1 DEF IInv, TypeOK
<1>4. \A u \in Task : IsFiniteSet(Held(u)) BY FiniteAssumption, FS_Subset DEF Held
<1>5. m \in Held(t) BY <1>1 DEF Held
<1>6. Cardinality(Held(t) \ {m}) = Cardinality(Held(t)) - 1 BY <1>4, <1>5, FS_RemoveElement
<1>7. Cardinality(Held(t)) \in Nat /\ Cardinality(Held(t) \ {m}) \in Nat
  BY <1>4, FS_CardinalityType, FS_RemoveElement
<1>8. uxMutexesHeld[t] = Cardinality(Held(t)) BY DEF IInv, Counts
<1>9. \A u \in Task : Held(u)' = IF u = t THEN Held(u) \ {m} ELSE Held(u)
  BY <1>1, <1>3, MutexAssumption DEF Held
<1>10. uxMutexesHeld'[t] = Cardinality(Held(t) \ {m}) BY <1>1, <1>6, <1>8 DEF IInv, TypeOK
<1>11. \A u \in Task \ {t} : uxMutexesHeld'[u] = uxMutexesHeld[u] /\ uxPriority'[u] = uxPriority[u]
  BY <1>1 DEF IInv, TypeOK
<1>12. Counts' BY <1>9, <1>10, <1>11 DEF IInv, Counts
<1>13. BaseRestored'
  <2>1. ASSUME NEW u \in Task, \A n \in Mutex : xMutexHolder'[n] # u PROVE uxPriority'[u] = Base[u]
    <3>1. CASE u = t
      <4>1. Held(t) \ {m} = {} BY <1>3, <2>1, <3>1 DEF Held
      <4>2. Cardinality(Held(t) \ {m}) = 0 BY <4>1, FS_EmptySet
      <4>3. Cardinality(Held(t)) - 1 = 0 BY <1>6, <4>2
      <4>4. uxMutexesHeld[t] = 1 BY <1>7, <1>8, <4>3
      <4> QED BY <1>1, <3>1, <4>4 DEF IInv, TypeOK
    <3>2. CASE u # t
      <4>1. \A n \in Mutex : xMutexHolder[n] # u BY <1>1, <1>3, <2>1, <3>2
      <4> QED BY <1>11, <3>2, <4>1 DEF IInv, BaseRestored
    <3> QED BY <3>1, <3>2
  <2> QED BY <2>1 DEF BaseRestored
<1>14. /\ uxMutexesHeld' \in [Task -> Nat] /\ uxPriority' \in [Task -> Nat]
       /\ xMutexHolder' \in [Mutex -> Task \union {None}]
  <2>1. uxMutexesHeld[t] - 1 \in Nat BY <1>6, <1>7, <1>8
  <2>2. Base[t] \in Nat BY BaseAssumption
  <2> QED BY <1>1, <2>1, <2>2 DEF IInv, TypeOK
<1>15. ASSUME \A u \in Task : state'[u] = "blocked" => state[u] = "blocked" PROVE Calling'
  BY <1>1, <1>15 DEF IInv, Calling
<1>16. CASE /\ q # <<>>
            /\ xTasksWaitingToReceive' = [xTasksWaitingToReceive EXCEPT ![m] = RemoveAt(q, 1)]
            /\ state' = [state EXCEPT ![q[1]] = "ready"]
            /\ yield' = (uxPriority[q[1]] > uxPriority'[t])
  <2>1. q \in Seq(Task) BY DEF IInv, TypeOK
  <2>2. 1 \in 1 .. Len(q) BY <1>16, <2>1, EmptySeq, LenProperties, SMT
  <2>3. q[1] \in Task /\ Listed(q[1], m) BY <2>2, InList DEF IInv, Lists
  <2>4. /\ Lists' /\ Once' /\ xTasksWaitingToReceive' \in [Mutex -> Seq(Task)]
        /\ \A k \in Mutex : k # m => xTasksWaitingToReceive'[k] = xTasksWaitingToReceive[k]
    BY <1>1, <1>16, <2>2, <2>3, LeavesList
  <2>5. TypeOK' BY <1>1, <1>14, <1>16, <2>4 DEF IInv, TypeOK
  <2>6. state'[q[1]] = "ready" /\ \A u \in Task : state[u] = "ready" => state'[u] = "ready"
    BY <1>16, <2>3 DEF IInv, TypeOK
  <2>7. Running' BY <1>1, <1>2, <2>6 DEF Running
  <2>8. Calling' BY <1>15, <1>16, <2>3 DEF IInv, TypeOK
  <2>9. NoLostWakeup'
    <3>1. ASSUME NEW k \in Mutex, xMutexHolder'[k] = None, xTasksWaitingToReceive'[k] # <<>>
          PROVE  \E u \in Ready' : want'[u] = k /\ pc'[u] \in {"try", "block", "expired"}
      <4>1. CASE k = m BY <1>1, <2>3, <2>6, <4>1 DEF Listed, Ready
      <4>2. CASE k # m
        <5>1. xMutexHolder[k] = None /\ xTasksWaitingToReceive[k] # <<>>
          BY <1>3, <2>4, <3>1, <4>2
        <5>2. PICK u \in Ready : want[u] = k /\ pc[u] \in {"try", "block", "expired"}
          BY <5>1 DEF IInv, NoLostWakeup
        <5> QED BY <1>1, <2>6, <5>2 DEF Ready
      <4> QED BY <4>1, <4>2
    <3> QED BY <3>1 DEF NoLostWakeup
  <2> QED BY <1>12, <1>13, <2>4, <2>5, <2>7, <2>8, <2>9 DEF IInv
<1>17. CASE q = <<>> /\ yield' \in BOOLEAN /\ UNCHANGED <<state, xTasksWaitingToReceive>>
  <2>1. TypeOK' BY <1>1, <1>14, <1>17 DEF IInv, TypeOK
  <2>2. Lists' BY <1>1, <1>17 DEF IInv, Lists, Listed
  <2>3. Once' BY <1>17 DEF IInv, Once
  <2>4. Running' BY <1>1, <1>2, <1>17 DEF Running
  <2>5. NoLostWakeup'
    <3>1. ASSUME NEW k \in Mutex, xMutexHolder'[k] = None, xTasksWaitingToReceive'[k] # <<>>
          PROVE  \E u \in Ready' : want'[u] = k /\ pc'[u] \in {"try", "block", "expired"}
      <4>1. xMutexHolder[k] = None /\ xTasksWaitingToReceive[k] # <<>> BY <1>3, <1>17, <3>1
      <4>2. PICK u \in Ready : want[u] = k /\ pc[u] \in {"try", "block", "expired"}
        BY <4>1 DEF IInv, NoLostWakeup
      <4> QED BY <1>1, <1>17, <4>2 DEF Ready
    <3> QED BY <3>1 DEF NoLostWakeup
  <2>6. Calling' BY <1>15, <1>17
  <2> QED BY <1>12, <1>13, <2>1, <2>2, <2>3, <2>4, <2>5, <2>6 DEF IInv
<1>18. (uxPriority'[t] # uxPriority[t]) \in BOOLEAN OBVIOUS
<1> QED BY <1>16, <1>17, <1>18 DEF Give

LEMMA DelayKeeps == ASSUME IInv, NEW t \in Task, Delay(t) PROVE IInv'
<1>1. /\ current = t /\ ~yield /\ pc[t] = "run" /\ state' = [state EXCEPT ![t] = "delayed"]
      /\ yield' = TRUE /\ current' = current /\ call' = call /\ prio' = prio
      /\ xMutexHolder' = xMutexHolder /\ xTasksWaitingToReceive' = xTasksWaitingToReceive
  BY DEF Delay, At
<1>2. TypeOK' BY <1>1 DEF IInv, TypeOK, call, prio
<1>3. Counts' /\ BaseRestored' BY <1>1, SamePriorities DEF prio
<1>4. Once' /\ Running' /\ Calling' BY <1>1 DEF IInv, Once, Running, Calling, call
<1>5. \A k \in Mutex, u \in Task : Listed(u, k) /\ u # t => StillListed(u, k)
  BY <1>1 DEF Listed, StillListed, IInv, TypeOK, call
<1>6. \A k \in Mutex : \A i \in 1 .. Len(xTasksWaitingToReceive[k]) :
        StillListed(xTasksWaitingToReceive[k][i], k)
  BY <1>1, <1>5, Executing, InList DEF IInv, Lists
<1>7. Lists' BY <1>1, <1>6, StillInLists
<1>8. ASSUME NEW k \in Mutex, NEW u \in Task, OnItsWay(u, k) PROVE OnItsWay(u, k)'
  <2>1. u # t BY <1>1, <1>8 DEF OnItsWay
  <2> QED BY <1>1, <1>8, <2>1 DEF OnItsWay, Ready, IInv, TypeOK, call
<1>9. NoLostWakeup' BY <1>1, <1>8, SameWakeups
<1> QED BY <1>2, <1>3, <1>4, <1>7, <1>9 DEF IInv

\* A step that only asks for a context switch, or makes one.
LEMMA SwitchKeeps ==
  ASSUME IInv, Slice \/ vTaskSwitchContext \/ UNCHANGED vars
  PROVE  IInv'
<1>1. /\ state' = state /\ call' = call /\ prio' = prio /\ xMutexHolder' = xMutexHolder
      /\ xTasksWaitingToReceive' = xTasksWaitingToReceive
  BY DEF Slice, vTaskSwitchContext, vars, sched
<1>2. /\ current' \in Task \union {None} /\ yield' \in BOOLEAN
      /\ ~yield' /\ current' # None => state[current'] = "ready"
  <2>1. CASE Slice BY <2>1 DEF Slice, IInv, TypeOK
  <2>2. CASE vTaskSwitchContext BY <2>2 DEF vTaskSwitchContext, Ready
  <2>3. CASE UNCHANGED vars BY <2>3 DEF vars, sched, IInv, TypeOK, Running
  <2> QED BY <2>1, <2>2, <2>3
<1>3. TypeOK' BY <1>1, <1>2 DEF IInv, TypeOK, call, prio
<1>4. Counts' /\ BaseRestored' BY <1>1, SamePriorities DEF prio
<1>5. Running' BY <1>1, <1>2 DEF Running
<1>6. Once' /\ Calling' /\ Lists' /\ NoLostWakeup'
  BY <1>1 DEF IInv, Once, Calling, Lists, Listed, NoLostWakeup, Ready, call
<1> QED BY <1>3, <1>4, <1>5, <1>6 DEF IInv

LEMMA TickKeeps == ASSUME IInv, NEW t \in Task, xTaskIncrementTick(t) PROVE IInv'
<1>1. /\ state' = [state EXCEPT ![t] = "ready"] /\ current' = current /\ call' = call
      /\ yield' = (yield \/ uxPriority[t] >= PriorityOf(current) \/ Shared)
      /\ prio' = prio /\ xMutexHolder' = xMutexHolder
  BY DEF xTaskIncrementTick
<1>2. Counts' /\ BaseRestored' BY <1>1, SamePriorities DEF prio
<1>3. Calling' BY <1>1 DEF IInv, Calling, call
<1>4. yield' \in BOOLEAN /\ (yield => yield') BY <1>1
<1>5. \A u \in Task : state[u] = "ready" => state'[u] = "ready" BY <1>1 DEF IInv, TypeOK
<1>6. Running'
  <2>1. ASSUME ~yield', current' # None PROVE state'[current'] = "ready"
    <3>1. state[current] = "ready" /\ current \in Task
      BY <1>1, <1>4, <2>1 DEF IInv, Running, TypeOK
    <3> QED BY <1>1, <1>5, <3>1
  <2> QED BY <2>1 DEF Running
<1>7. ASSUME NEW k \in Mutex, NEW u \in Task, OnItsWay(u, k) PROVE OnItsWay(u, k)'
  BY <1>1, <1>5, <1>7 DEF OnItsWay, Ready, call
<1>8. CASE state[t] = "delayed" /\ UNCHANGED xTasksWaitingToReceive
  <2>1. TypeOK' BY <1>1, <1>4, <1>8 DEF IInv, TypeOK, call, prio
  <2>2. Once' BY <1>8 DEF IInv, Once
  <2>3. \A k \in Mutex, u \in Task : Listed(u, k) => StillListed(u, k)
    BY <1>1, <1>8 DEF Listed, StillListed, IInv, TypeOK, call
  <2>4. \A k \in Mutex : \A i \in 1 .. Len(xTasksWaitingToReceive[k]) :
          StillListed(xTasksWaitingToReceive[k][i], k)
    BY <2>3, InList DEF IInv, Lists
  <2>5. Lists' BY <1>8, <2>4, StillInLists
  <2>6. NoLostWakeup' BY <1>1, <1>7, <1>8, SameWakeups
  <2> QED BY <1>2, <1>3, <1>6, <2>1, <2>2, <2>5, <2>6 DEF IInv
<1>9. CASE /\ state[t] = "blocked"
           /\ LET q == xTasksWaitingToReceive[want[t]] IN \E i \in 1 .. Len(q) :
                /\ q[i] = t
                /\ xTasksWaitingToReceive' = [xTasksWaitingToReceive EXCEPT ![want[t]] = RemoveAt(q, i)]
  <2> DEFINE m == want[t]
  <2> DEFINE q == xTasksWaitingToReceive[m]
  <2>1. m \in Mutex BY <1>9 DEF IInv, Calling
  <2>2. PICK i \in 1 .. Len(q) :
          /\ q[i] = t
          /\ xTasksWaitingToReceive' = [xTasksWaitingToReceive EXCEPT ![m] = RemoveAt(q, i)]
    BY <1>9
  <2>3. /\ Lists' /\ Once' /\ xTasksWaitingToReceive' \in [Mutex -> Seq(Task)]
        /\ \A k \in Mutex : k # m => xTasksWaitingToReceive'[k] = xTasksWaitingToReceive[k]
    BY <1>1, <2>1, <2>2, LeavesList DEF call
  <2>4. TypeOK' BY <1>1, <1>4, <2>3 DEF IInv, TypeOK, call, prio
  <2>5. q # <<>>
    <3>1. q = <<>> => Len(q) = 0 BY EmptySeq
    <3>2. Len(q) = 0 => 1 .. Len(q) = {} BY SMT
    <3> QED BY <2>2, <3>1, <3>2
  <2>6. \A k \in Mutex : xTasksWaitingToReceive'[k] # <<>> => xTasksWaitingToReceive[k] # <<>>
    BY <2>3, <2>5
  <2>7. NoLostWakeup' BY <1>1, <1>7, <2>6, SameWakeups
  <2> QED BY <1>2, <1>3, <1>6, <2>3, <2>4, <2>7 DEF IInv
<1> QED BY <1>8, <1>9 DEF xTaskIncrementTick

-----------------------------------------------------------------------------
(* The theorems                                                            *)

LEMMA Inductive == IInv /\ [Next]_vars => IInv'
<1> SUFFICES ASSUME IInv, [Next]_vars PROVE IInv' OBVIOUS
<1>1. ASSUME NEW t \in Task, NEW m \in Mutex, NEW w \in Waits, Take(t, m, w) PROVE IInv'
  BY <1>1, TakeKeeps
<1>2. ASSUME NEW t \in Task, Kernel(t) PROVE IInv'
  BY <1>2, TryTakeKeeps, BlockKeeps, ExpireKeeps, CheckEmptyKeeps, TimedOutKeeps DEF Kernel
<1>3. ASSUME NEW t \in Task, NEW m \in Mutex, Give(t, m) PROVE IInv' BY <1>3, GiveKeeps
<1>4. ASSUME NEW t \in Task, Delay(t) PROVE IInv' BY <1>4, DelayKeeps
<1>5. ASSUME NEW t \in Task, xTaskIncrementTick(t) PROVE IInv' BY <1>5, TickKeeps
<1>6. CASE Slice BY <1>6, SwitchKeeps
<1>7. CASE vTaskSwitchContext BY <1>7, SwitchKeeps
<1>8. CASE UNCHANGED vars BY <1>8, SwitchKeeps
<1> QED BY <1>1, <1>2, <1>3, <1>4, <1>5, <1>6, <1>7, <1>8 DEF Next

LEMMA AlwaysIInv == Spec => []IInv
<1>1. Init => IInv BY Initially
<1>2. IInv /\ [Next]_vars => IInv' BY Inductive
<1> QED BY <1>1, <1>2, PTL DEF Spec

\* The kernel's variables keep their types; with it, the count of a task's mutexes
\* never goes below zero.
THEOREM TypeCorrect == Spec => []TypeOK
<1>1. IInv => TypeOK BY DEF IInv
<1> QED BY <1>1, AlwaysIInv, PTL

\* A task that holds no mutex has its base priority, however many tasks have lent
\* it theirs, timed out, or given the mutexes back in another order.
THEOREM PriorityComesBack == Spec => []BaseRestored
<1>1. IInv => BaseRestored BY DEF IInv
<1> QED BY <1>1, AlwaysIInv, PTL

\* The wakeup that giving a mutex sends is never lost: as long as the mutex stays
\* free and tasks wait for it, a ready task is about to look at it, even when its
\* wait has expired between the two.
THEOREM NoWakeupLost == Spec => []NoLostWakeup
<1>1. IInv => NoLostWakeup BY DEF IInv
<1> QED BY <1>1, AlwaysIInv, PTL

-----------------------------------------------------------------------------
(* A single mutex: inheritance works.  (With two, a holder that waits for  *)
(* the other one lends nothing on.)                                        *)

\* A list is sorted by base priorities, which those of waiting tasks are.
Sorted(q) == \A i, j \in 1 .. Len(q) : i < j => Base[q[i]] >= Base[q[j]]

OutranksAll(t, q) == \A i \in 1 .. Len(q) : Base[t] >= Base[q[i]]

\* While the mutex is free, a task that outranks all waiting ones is on its way to
\* it, and no task below them runs.
Single(k) ==
  LET h == xMutexHolder[k]
      q == xTasksWaitingToReceive[k]
  IN  /\ \A t \in Task : pc[t] # "run" => h # t
      /\ Sorted(q)
      /\ h # None => \A i \in 1 .. Len(q) : uxPriority[h] >= Base[q[i]]
      /\ h = None /\ q # <<>> => \E u \in Task : OnItsWay(u, k) /\ OutranksAll(u, q)
      /\ h = None /\ ~yield /\ current # None => OutranksAll(current, q)

LEMMA BaseNat == \A t \in Task : Base[t] \in Nat
BY BaseAssumption

LEMMA InsertedSorted ==
  ASSUME NEW q \in Seq(Task), NEW t \in Task, NEW n \in 0 .. Len(q), Sorted(q),
         \A j \in 1 .. n : Base[q[j]] >= Base[t],
         n < Len(q) => Base[q[n + 1]] < Base[t]
  PROVE  Sorted(InsertAfter(q, t, n))
<1> DEFINE r == InsertAfter(q, t, n)
<1>1. Len(q) \in Nat /\ (\A j \in 1 .. Len(q) : q[j] \in Task) BY ElementOfSeq, LenProperties
<1>2. r = [j \in 1 .. Len(q) + 1 |-> IF j <= n THEN q[j] ELSE IF j = n + 1 THEN t ELSE q[j - 1]]
  BY DEF InsertAfter
<1>3. \A i \in 1 .. Len(q) + 1 :
        /\ i <= n => i \in 1 .. Len(q) /\ i \in 1 .. n /\ r[i] = q[i]
        /\ i = n + 1 => r[i] = t
        /\ i > n + 1 => i - 1 \in 1 .. Len(q) /\ r[i] = q[i - 1]
  BY <1>1, <1>2, SMT
<1>4. Len(r) = Len(q) + 1 BY Inserted
<1>5. \A j \in 1 .. Len(q) : Base[q[j]] \in Nat BY <1>1, BaseNat
<1>6. \A j \in 1 .. Len(q) : j > n => Base[q[j]] <= Base[t]
  <2>1. ASSUME NEW j \in 1 .. Len(q), j > n PROVE Base[q[j]] <= Base[t]
    <3>1. n < Len(q) /\ n + 1 \in 1 .. Len(q) BY <1>1, <2>1, SMT
    <3>2. n + 1 < j => Base[q[n + 1]] >= Base[q[j]] BY <3>1 DEF Sorted
    <3>3. n + 1 < j \/ n + 1 = j BY <1>1, <2>1, SMT
    <3> QED BY <1>5, <3>1, <3>2, <3>3, BaseNat, SMT
  <2> QED BY <2>1
<1> SUFFICES ASSUME NEW i \in 1 .. Len(q) + 1, NEW j \in 1 .. Len(q) + 1, i < j
             PROVE  Base[r[i]] >= Base[r[j]]
  BY <1>4 DEF Sorted
<1> HIDE DEF r
<1>7. CASE j <= n
  <2>1. i <= n BY <1>1, <1>7, SMT
  <2>2. i \in 1 .. Len(q) /\ j \in 1 .. Len(q) /\ r[i] = q[i] /\ r[j] = q[j] BY <1>3, <1>7, <2>1
  <2> QED BY <2>2 DEF Sorted
<1>8. CASE j = n + 1
  <2>1. i <= n BY <1>1, <1>8, SMT
  <2> QED BY <1>3, <1>8, <2>1
<1>9. CASE j > n + 1
  <2>1. j - 1 \in 1 .. Len(q) /\ r[j] = q[j - 1] BY <1>3, <1>9
  <2>2. CASE i <= n
    <3>1. i \in 1 .. Len(q) /\ r[i] = q[i] /\ i < j - 1 BY <1>1, <1>3, <1>9, <2>2, SMT
    <3> QED BY <2>1, <3>1 DEF Sorted
  <2>3. CASE i = n + 1
    <3>1. r[i] = t /\ j - 1 > n BY <1>1, <1>3, <1>9, <2>3, SMT
    <3> QED BY <1>5, <1>6, <2>1, <3>1, BaseNat, SMT
  <2>4. CASE i > n + 1
    <3>1. i - 1 \in 1 .. Len(q) /\ r[i] = q[i - 1] /\ i - 1 < j - 1 BY <1>1, <1>3, <2>4, SMT
    <3> QED BY <2>1, <3>1 DEF Sorted
  <2> QED BY <1>1, <2>2, <2>3, <2>4, SMT
<1> QED BY <1>1, <1>7, <1>8, <1>9, SMT

LEMMA RemovedSorted ==
  ASSUME NEW q \in Seq(Task), NEW n \in 1 .. Len(q), Sorted(q)
  PROVE  Sorted(RemoveAt(q, n))
<1> DEFINE r == RemoveAt(q, n)
<1>1. Len(q) \in Nat BY LenProperties
<1>2. r = [j \in 1 .. Len(q) - 1 |-> IF j < n THEN q[j] ELSE q[j + 1]] BY DEF RemoveAt
<1>3. Len(r) = Len(q) - 1 BY Removed
<1> SUFFICES ASSUME NEW i \in 1 .. Len(q) - 1, NEW j \in 1 .. Len(q) - 1, i < j
             PROVE  Base[r[i]] >= Base[r[j]]
  BY <1>3 DEF Sorted
<1>4. PICK a \in 1 .. Len(q), b \in 1 .. Len(q) : a < b /\ r[i] = q[a] /\ r[j] = q[b]
  <2>1. CASE j < n
    <3>1. i \in 1 .. Len(q) /\ j \in 1 .. Len(q) /\ i < n BY <1>1, <2>1, SMT
    <3> QED BY <1>2, <2>1, <3>1
  <2>2. CASE ~(j < n) /\ i < n
    <3>1. i \in 1 .. Len(q) /\ j + 1 \in 1 .. Len(q) /\ i < j + 1 BY <1>1, <2>2, SMT
    <3> QED BY <1>2, <2>2, <3>1
  <2>3. CASE ~(j < n) /\ ~(i < n)
    <3>1. i + 1 \in 1 .. Len(q) /\ j + 1 \in 1 .. Len(q) /\ i + 1 < j + 1 BY <1>1, <2>3, SMT
    <3> QED BY <1>2, <2>3, <3>1
  <2>4. j < n \/ (~(j < n) /\ i < n) \/ (~(j < n) /\ ~(i < n)) OBVIOUS
  <2> QED BY <2>1, <2>2, <2>3, <2>4
<1> QED BY <1>4 DEF Sorted

LEMMA Waiter ==
  ASSUME IInv, NEW k, Mutex = {k}, Single(k), NEW i \in 1 .. Len(xTasksWaitingToReceive[k])
  PROVE  /\ xTasksWaitingToReceive[k][i] \in Task
         /\ xTasksWaitingToReceive[k][i] # xMutexHolder[k]
         /\ uxPriority[xTasksWaitingToReceive[k][i]] = Base[xTasksWaitingToReceive[k][i]]
<1> DEFINE w == xTasksWaitingToReceive[k][i]
<1>1. w \in Task BY InList
<1>2. pc[w] = "try" BY DEF IInv, Lists, Listed
<1>3. xMutexHolder[k] # w BY <1>1, <1>2 DEF Single
<1>4. uxPriority[w] = Base[w] BY <1>1, <1>3 DEF IInv, BaseRestored
<1> QED BY <1>1, <1>3, <1>4

LEMMA SingleOutranks ==
  ASSUME IInv, NEW k, Mutex = {k}, Single(k)
  PROVE  HolderOutranks
<1>1. ASSUME xMutexHolder[k] # None, NEW i \in 1 .. Len(xTasksWaitingToReceive[k])
      PROVE  uxPriority[xMutexHolder[k]] >= uxPriority[xTasksWaitingToReceive[k][i]]
  <2>1. uxPriority[xMutexHolder[k]] >= Base[xTasksWaitingToReceive[k][i]] BY <1>1 DEF Single
  <2> QED BY <2>1, Waiter
<1> QED BY <1>1 DEF HolderOutranks

\* A step that leaves the mutex and its list alone, and lowers no priority.
LEMMA SingleKept ==
  ASSUME IInv, NEW k, Mutex = {k}, Single(k),
         xMutexHolder' = xMutexHolder, xTasksWaitingToReceive' = xTasksWaitingToReceive,
         uxPriority' = uxPriority,
         \A u \in Task : pc'[u] # "run" => pc[u] # "run" \/ xMutexHolder[k] # u,
         xMutexHolder[k] = None => \A u \in Task : OnItsWay(u, k) => OnItsWay(u, k)',
         ~yield' => ~yield /\ current' = current
  PROVE  Single(k)'
<1> DEFINE h == xMutexHolder[k]
<1> DEFINE q == xTasksWaitingToReceive[k]
<1>1. \A t \in Task : pc'[t] # "run" => h # t BY DEF Single
<1>2. Sorted(q) BY DEF Single
<1>3. h # None => \A i \in 1 .. Len(q) : uxPriority[h] >= Base[q[i]] BY DEF Single
<1>4. h = None /\ q # <<>> => \E u \in Task : OnItsWay(u, k)' /\ OutranksAll(u, q) BY DEF Single
<1>5. h = None /\ ~yield' /\ current' # None => OutranksAll(current', q) BY DEF Single
<1> QED BY <1>1, <1>2, <1>3, <1>4, <1>5 DEF Single, Sorted, OutranksAll

LEMMA SingleTryTake ==
  ASSUME IInv, NEW k, Mutex = {k}, Single(k), NEW t \in Task, TryTake(t)
  PROVE  Single(k)'
<1> DEFINE h == xMutexHolder[k]
<1> DEFINE q == xTasksWaitingToReceive[k]
<1>1. /\ current = t /\ ~yield /\ pc[t] = "try" /\ sched' = sched /\ uxPriority' = uxPriority
      /\ xTasksWaitingToReceive' = xTasksWaitingToReceive
  BY DEF TryTake, At
<1>2. want[t] = k BY <1>1 DEF IInv, Calling
<1>3. t # None BY MutexAssumption
<1>4. CASE /\ h = None /\ xMutexHolder' = [xMutexHolder EXCEPT ![k] = t] /\ Return(t)
  <2>1. xMutexHolder'[k] = t BY <1>4 DEF IInv, TypeOK
  <2>2. pc'[t] = "run" BY <1>4 DEF Return, IInv, TypeOK
  <2>3. Sorted(q) BY DEF Single
  <2>4. uxPriority[t] = Base[t] BY <1>3, <1>4 DEF IInv, BaseRestored
  <2>5. \A i \in 1 .. Len(q) : Base[t] >= Base[q[i]] BY <1>1, <1>3, <1>4 DEF Single, OutranksAll
  <2>6. \A u \in Task : pc'[u] # "run" => t # u BY <2>2
  <2>7. \A i \in 1 .. Len(q) : uxPriority'[t] >= Base[q[i]] BY <1>1, <2>4, <2>5
  <2> QED BY <1>1, <1>3, <2>1, <2>3, <2>6, <2>7 DEF Single, Sorted
<1>5. CASE xMutexHolder[k] # None /\ xMutexHolder' = xMutexHolder /\
           (Return(t) \/ Goto(t, "block"))
  <2>1. \A u \in Task : pc'[u] # "run" => pc[u] # "run"
    BY <1>1, <1>5 DEF Return, Goto, IInv, TypeOK
  <2> QED BY <1>1, <1>5, <2>1, SingleKept DEF sched
<1> QED BY <1>2, <1>4, <1>5 DEF TryTake

LEMMA SingleBlock ==
  ASSUME IInv, NEW k, Mutex = {k}, Single(k), NEW t \in Task, Block(t), IInv'
  PROVE  Single(k)'
<1> DEFINE h == xMutexHolder[k]
<1> DEFINE q == xTasksWaitingToReceive[k]
<1>1. /\ current = t /\ ~yield /\ pc[t] = "block" /\ pc' = [pc EXCEPT ![t] = "try"]
      /\ want' = want /\ xMutexHolder' = xMutexHolder
  BY DEF Block, At, Goto
<1>2. want[t] = k BY <1>1 DEF IInv, Calling
<1>3. \A u \in Task : pc'[u] # "run" => pc[u] # "run" BY <1>1 DEF IInv, TypeOK
<1>4. CASE h = None
  <2>1. UNCHANGED <<sched, uxPriority, xTasksWaitingToReceive>> BY <1>2, <1>4 DEF Block
  <2>2. \A u \in Task : OnItsWay(u, k) => OnItsWay(u, k)'
    BY <1>1, <2>1 DEF OnItsWay, Ready, sched, IInv, TypeOK
  <2> QED BY <1>1, <1>3, <2>1, <2>2, SingleKept DEF sched
<1>5. CASE h # None
  <2>1. xTaskPriorityInherit(t, h) /\ vTaskPlaceOnEventList(t, k) BY <1>2, <1>5 DEF Block
  <2>2. h \in Task BY <1>5 DEF IInv, TypeOK
  <2>3. PICK n \in 0 .. Len(q) : /\ Passed(q, t, n)
          /\ xTasksWaitingToReceive' = [xTasksWaitingToReceive EXCEPT ![k] = InsertAfter(q, t, n)]
    BY <2>1 DEF vTaskPlaceOnEventList
  <2>4. xTasksWaitingToReceive'[k] = InsertAfter(q, t, n) BY <2>3 DEF IInv, TypeOK
  <2>5. q \in Seq(Task) /\ Len(q) \in Nat
    <3>1. q \in Seq(Task) BY DEF IInv, TypeOK
    <3> QED BY <3>1, LenProperties
  <2>6. h # t BY <1>1 DEF Single
  <2>7. uxPriority[t] = Base[t] BY <2>6 DEF IInv, BaseRestored
  <2>8. \A i \in 1 .. Len(q) : uxPriority[q[i]] = Base[q[i]] BY Waiter
  <2>9. Sorted(q) BY DEF Single
  <2>10. \A j \in 1 .. n : j \in 1 .. Len(q) /\ Base[q[j]] >= Base[t]
    <3>1. \A j \in 1 .. n : j \in 1 .. Len(q) BY <2>5, SMT
    <3> QED BY <2>3, <2>7, <2>8, <3>1 DEF Passed
  <2>11. n < Len(q) => Base[q[n + 1]] < Base[t]
    <3>1. n < Len(q) => n + 1 \in 1 .. Len(q) BY <2>5, SMT
    <3> QED BY <2>3, <2>7, <2>8, <3>1 DEF Passed
  <2>12. Sorted(InsertAfter(q, t, n)) BY <2>5, <2>9, <2>10, <2>11, InsertedSorted
  <2>13. uxPriority'[h] = IF uxPriority[h] < uxPriority[t] THEN uxPriority[t] ELSE uxPriority[h]
    BY <2>1, <2>2 DEF xTaskPriorityInherit, IInv, TypeOK
  <2>14. uxPriority[h] \in Nat /\ Base[t] \in Nat BY <2>2, BaseNat DEF IInv, TypeOK
  <2>15. uxPriority'[h] >= Base[t] /\ uxPriority'[h] >= uxPriority[h] /\ uxPriority'[h] \in Nat
    BY <2>7, <2>13, <2>14
  <2>16. \A i \in 1 .. Len(q) : Base[q[i]] \in Nat /\ uxPriority[h] >= Base[q[i]]
    BY <1>5, Waiter, BaseNat DEF Single
  <2>17. \A i \in 1 .. Len(q) : uxPriority'[h] >= Base[q[i]] BY <2>14, <2>15, <2>16
  <2>18. \A i \in 1 .. Len(InsertAfter(q, t, n)) : uxPriority'[h] >= Base[InsertAfter(q, t, n)[i]]
    <3>1. Len(InsertAfter(q, t, n)) = Len(q) + 1
          /\ \A i \in 1 .. Len(q) + 1 : \/ InsertAfter(q, t, n)[i] = t
                                        \/ \E j \in 1 .. Len(q) : InsertAfter(q, t, n)[i] = q[j]
      BY <2>5, Inserted
    <3> QED BY <2>15, <2>17, <3>1
  <2>19. \A u \in Task : pc'[u] # "run" => h # u BY <1>3 DEF Single
  <2> QED BY <1>1, <1>5, <2>4, <2>12, <2>18, <2>19 DEF Single, Sorted
<1> QED BY <1>4, <1>5

LEMMA SingleTake ==
  ASSUME IInv, NEW k, Mutex = {k}, Single(k), NEW t \in Task, NEW w \in Waits, Take(t, k, w)
  PROVE  Single(k)'
<1>1. /\ current = t /\ ~yield /\ pc[t] = "run" /\ xMutexHolder[k] # t
      /\ pc' = [pc EXCEPT ![t] = "try"] /\ want' = [want EXCEPT ![t] = k]
      /\ sched' = sched /\ prio' = prio /\ xMutexHolder' = xMutexHolder
      /\ xTasksWaitingToReceive' = xTasksWaitingToReceive
  BY DEF Take, At
<1>2. \A u \in Task : pc'[u] # "run" => pc[u] # "run" \/ xMutexHolder[k] # u
  BY <1>1 DEF IInv, TypeOK
<1>3. \A u \in Task : OnItsWay(u, k) => OnItsWay(u, k)'
  BY <1>1 DEF OnItsWay, Ready, sched, IInv, TypeOK
<1> QED BY <1>1, <1>2, <1>3, SingleKept DEF sched, prio

LEMMA SingleExpired ==
  ASSUME IInv, NEW k, Mutex = {k}, Single(k), NEW t \in Task, Expire(t) \/ CheckEmpty(t)
  PROVE  Single(k)'
<1>1. /\ current = t /\ ~yield /\ pc[t] # "run" /\ sched' = sched /\ prio' = prio
      /\ xMutexHolder' = xMutexHolder /\ xTasksWaitingToReceive' = xTasksWaitingToReceive
  BY DEF Expire, CheckEmpty, At
<1>2. want[t] = k BY <1>1 DEF IInv, Calling
<1>3. \A u \in Task : pc'[u] # "run" => pc[u] # "run"
  BY <1>1 DEF Expire, CheckEmpty, Goto, Return, IInv, TypeOK
<1>4. ASSUME xMutexHolder[k] = None
      PROVE  want' = want /\ \E p \in {"expired", "try"} : pc' = [pc EXCEPT ![t] = p]
  BY <1>2, <1>4 DEF Expire, CheckEmpty, Goto
<1>5. ASSUME xMutexHolder[k] = None, NEW u \in Task, OnItsWay(u, k) PROVE OnItsWay(u, k)'
  BY <1>1, <1>4, <1>5 DEF OnItsWay, Ready, sched, IInv, TypeOK
<1> QED BY <1>1, <1>3, <1>5, SingleKept DEF sched, prio

\* The holder is left with the priority of the first waiter, which is the highest.
LEMMA SingleTimedOut ==
  ASSUME IInv, NEW k, Mutex = {k}, Single(k), NEW t \in Task, TimedOut(t)
  PROVE  Single(k)'
<1> DEFINE h == xMutexHolder[k]
<1> DEFINE q == xTasksWaitingToReceive[k]
<1>1. /\ current = t /\ ~yield /\ pc[t] = "disinherit" /\ sched' = sched
      /\ xMutexHolder' = xMutexHolder /\ xTasksWaitingToReceive' = xTasksWaitingToReceive
      /\ Return(t)
  BY DEF TimedOut, At
<1>2. want[t] = k BY <1>1 DEF IInv, Calling
<1>3. pc' = [pc EXCEPT ![t] = "run"] /\ want' = [want EXCEPT ![t] = None] BY <1>1 DEF Return
<1>4. \A u \in Task : pc'[u] # "run" => h # u BY <1>3 DEF Single, IInv, TypeOK
<1>5. Sorted(q) BY DEF Single
<1>6. ASSUME h # None, NEW i \in 1 .. Len(q) PROVE uxPriority'[h] >= Base[q[i]]
  <2>1. h \in Task /\ uxPriority[h] >= Base[q[i]] BY <1>6 DEF Single, IInv, TypeOK
  <2>2. CASE uxMutexesHeld[h] = 1
    <3>1. uxPriority' = [uxPriority EXCEPT ![h] = Larger(Base[h], HighestWaiting(k))]
      BY <1>2, <1>6, <2>2 DEF TimedOut, vTaskPriorityDisinheritAfterTimeout
    <3>2. uxPriority'[h] = Larger(Base[h], HighestWaiting(k)) BY <2>1, <3>1 DEF IInv, TypeOK
    <3>3. q \in Seq(Task) /\ Len(q) \in Nat
      <4>1. q \in Seq(Task) BY DEF IInv, TypeOK
      <4> QED BY <4>1, LenProperties
    <3>4. q # <<>> /\ 1 \in 1 .. Len(q)
      <4>1. 1 \in 1 .. Len(q) BY <1>6, <3>3, SMT
      <4>2. Len(q) # 0 BY <1>6, <3>3, SMT
      <4> QED BY <4>1, <4>2, EmptySeq
    <3>5. HighestWaiting(k) = Base[q[1]] /\ q[1] \in Task /\ q[i] \in Task
      BY <1>6, <3>4, Waiter DEF HighestWaiting
    <3>6. Base[q[1]] >= Base[q[i]]
      <4>1. 1 < i \/ 1 = i BY <1>6, <3>3, SMT
      <4>2. Base[q[1]] \in Nat BY <3>5, BaseNat
      <4>3. 1 < i => Base[q[1]] >= Base[q[i]] BY <1>5, <1>6, <3>4 DEF Sorted
      <4>4. 1 = i => Base[q[1]] >= Base[q[i]] BY <4>2
      <4> QED BY <4>1, <4>3, <4>4
    <3>7. Larger(Base[h], Base[q[1]]) >= Base[q[i]]
      <4>1. Base[h] \in Nat /\ Base[q[1]] \in Nat /\ Base[q[i]] \in Nat BY <2>1, <3>5, BaseNat
      <4> QED BY <3>6, <4>1, SMT DEF Larger
    <3> QED BY <3>2, <3>5, <3>7
  <2>3. CASE uxMutexesHeld[h] # 1
    <3>1. uxPriority' = uxPriority
      BY <1>2, <2>3 DEF TimedOut, vTaskPriorityDisinheritAfterTimeout
    <3> QED BY <2>1, <3>1
  <2> QED BY <2>2, <2>3
<1>7. ASSUME NEW u \in Task, OnItsWay(u, k) PROVE OnItsWay(u, k)'
  <2>1. u # t BY <1>1, <1>7 DEF OnItsWay
  <2> QED BY <1>1, <1>3, <1>7, <2>1 DEF OnItsWay, Ready, sched, IInv, TypeOK
<1>8. h = None /\ q # <<>> => \E u \in Task : OnItsWay(u, k)' /\ OutranksAll(u, q)
  BY <1>7 DEF Single
<1>9. h = None /\ ~yield /\ current # None => OutranksAll(current, q) BY DEF Single
<1> QED BY <1>1, <1>4, <1>5, <1>6, <1>8, <1>9 DEF Single, Sorted, OutranksAll, sched

\* The first waiter is on its way to the mutex, and the giver goes on only if it
\* is not below it.
LEMMA SingleGive ==
  ASSUME IInv, NEW k, Mutex = {k}, Single(k), NEW t \in Task, Give(t, k), BaseRestored'
  PROVE  Single(k)'
<1> DEFINE q == xTasksWaitingToReceive[k]
<1>1. /\ current = t /\ ~yield /\ pc[t] = "run" /\ xMutexHolder[k] = t
      /\ xMutexHolder' = [xMutexHolder EXCEPT ![k] = None]
      /\ current' = current /\ pc' = pc /\ want' = want
  BY DEF Give, At, call
<1>2. xMutexHolder'[k] = None BY <1>1 DEF IInv, TypeOK
<1>3. t # None BY MutexAssumption
<1>4. \A u \in Task : pc'[u] # "run" => xMutexHolder'[k] # u BY <1>2, MutexAssumption
<1>5. Sorted(q) BY DEF Single
<1>6. q \in Seq(Task) /\ Len(q) \in Nat
  <2>1. q \in Seq(Task) BY DEF IInv, TypeOK
  <2> QED BY <2>1, LenProperties
<1>7. CASE q = <<>> /\ xTasksWaitingToReceive' = xTasksWaitingToReceive
  <2>1. Len(q) = 0 BY <1>7, EmptySeq
  <2>2. \A i \in 1 .. Len(q) : FALSE BY <2>1, SMT
  <2> QED BY <1>2, <1>4, <1>5, <1>7, <2>2 DEF Single, Sorted, OutranksAll
<1>8. CASE /\ q # <<>>
           /\ xTasksWaitingToReceive' = [xTasksWaitingToReceive EXCEPT ![k] = RemoveAt(q, 1)]
           /\ state' = [state EXCEPT ![q[1]] = "ready"]
           /\ yield' = (uxPriority[q[1]] > uxPriority'[t])
  <2>1. 1 \in 1 .. Len(q) BY <1>6, <1>8, EmptySeq, LenProperties, SMT
  <2>2. q[1] \in Task /\ uxPriority[q[1]] = Base[q[1]] BY <2>1, Waiter
  <2>3. pc[q[1]] = "try" /\ want[q[1]] = k BY <2>1 DEF IInv, Lists, Listed
  <2>4. xTasksWaitingToReceive'[k] = RemoveAt(q, 1) BY <1>8 DEF IInv, TypeOK
  <2>5. Sorted(RemoveAt(q, 1)) BY <1>5, <1>6, <2>1, RemovedSorted
  <2>6. \A i \in 1 .. Len(RemoveAt(q, 1)) : \E j \in 1 .. Len(q) : j # 1 /\ RemoveAt(q, 1)[i] = q[j]
    <3>1. /\ Len(RemoveAt(q, 1)) = Len(q) - 1
          /\ \A i \in 1 .. Len(q) - 1 : \E j \in 1 .. Len(q) : j # 1 /\ RemoveAt(q, 1)[i] = q[j]
      BY <1>6, <2>1, Removed
    <3> QED BY <3>1
  <2>7. \A j \in 1 .. Len(q) : j # 1 => 1 < j BY <1>6, SMT
  <2>8. OutranksAll(q[1], RemoveAt(q, 1)) BY <1>5, <2>1, <2>6, <2>7 DEF Sorted, OutranksAll
  <2>9. PICK u \in Task : u = q[1] BY <2>2
  <2>10. OnItsWay(u, k)'
    <3>1. state'[u] = "ready" BY <1>8, <2>9 DEF IInv, TypeOK
    <3>2. want'[u] = k /\ pc'[u] = "try" BY <1>1, <2>3, <2>9
    <3> QED BY <3>1, <3>2 DEF OnItsWay, Ready
  <2>11. ASSUME ~yield' PROVE OutranksAll(t, RemoveAt(q, 1))
    <3>1. uxPriority'[t] = Base[t]
      <4>1. \A m \in Mutex : xMutexHolder'[m] # t BY <1>2, <1>3
      <4> QED BY <4>1 DEF BaseRestored
    <3>2. Base[t] \in Nat /\ Base[q[1]] \in Nat BY <2>2, BaseNat
    <3>3. ~(Base[q[1]] > Base[t]) BY <1>8, <2>2, <2>11, <3>1
    <3>4. Base[t] >= Base[q[1]] BY <3>2, <3>3
    <3>5. ASSUME NEW i \in 1 .. Len(RemoveAt(q, 1)) PROVE Base[t] >= Base[RemoveAt(q, 1)[i]]
      <4>1. PICK j \in 1 .. Len(q) : RemoveAt(q, 1)[i] = q[j] BY <2>6
      <4>2. Base[q[1]] >= Base[RemoveAt(q, 1)[i]] BY <2>8 DEF OutranksAll
      <4>3. q[j] \in Task BY Waiter
      <4>4. Base[RemoveAt(q, 1)[i]] \in Nat BY <4>1, <4>3, BaseNat
      <4> QED BY <3>2, <3>4, <4>2, <4>4
    <3> QED BY <3>5 DEF OutranksAll
  <2>12. \E v \in Task : OnItsWay(v, k)' /\ OutranksAll(v, RemoveAt(q, 1)) BY <2>8, <2>9, <2>10
  <2> HIDE DEF q
  <2> QED BY <1>1, <1>2, <1>4, <2>4, <2>5, <2>11, <2>12 DEF Single, Sorted, OutranksAll
<1> QED BY <1>7, <1>8 DEF Give

LEMMA SingleDelay ==
  ASSUME IInv, NEW k, Mutex = {k}, Single(k), NEW t \in Task, Delay(t)
  PROVE  Single(k)'
<1>1. /\ pc[t] = "run" /\ state' = [state EXCEPT ![t] = "delayed"] /\ yield' = TRUE
      /\ call' = call /\ prio' = prio /\ xMutexHolder' = xMutexHolder
      /\ xTasksWaitingToReceive' = xTasksWaitingToReceive
  BY DEF Delay, At
<1>2. ASSUME NEW u \in Task, OnItsWay(u, k) PROVE OnItsWay(u, k)'
  <2>1. u # t BY <1>1, <1>2 DEF OnItsWay
  <2> QED BY <1>1, <1>2, <2>1 DEF OnItsWay, Ready, call, IInv, TypeOK
<1> QED BY <1>1, <1>2, SingleKept DEF call, prio

\* A wait that ends makes the list shorter and takes nobody off its way.
LEMMA SingleTick ==
  ASSUME IInv, NEW k, Mutex = {k}, Single(k), NEW t \in Task, xTaskIncrementTick(t)
  PROVE  Single(k)'
<1> DEFINE h == xMutexHolder[k]
<1> DEFINE q == xTasksWaitingToReceive[k]
<1>1. /\ state' = [state EXCEPT ![t] = "ready"] /\ current' = current /\ call' = call
      /\ yield' = (yield \/ uxPriority[t] >= PriorityOf(current) \/ Shared)
      /\ prio' = prio /\ xMutexHolder' = xMutexHolder
  BY DEF xTaskIncrementTick
<1>2. ~yield' => ~yield BY <1>1
<1>3. ASSUME NEW u \in Task, OnItsWay(u, k) PROVE OnItsWay(u, k)'
  BY <1>1, <1>3 DEF OnItsWay, Ready, call, IInv, TypeOK
<1>4. CASE xTasksWaitingToReceive' = xTasksWaitingToReceive
  BY <1>1, <1>2, <1>3, <1>4, SingleKept DEF call, prio
<1>5. CASE /\ state[t] = "blocked"
           /\ LET r == xTasksWaitingToReceive[want[t]] IN \E i \in 1 .. Len(r) :
                xTasksWaitingToReceive' = [xTasksWaitingToReceive EXCEPT ![want[t]] = RemoveAt(r, i)]
  <2>1. want[t] = k BY <1>5 DEF IInv, Calling
  <2>2. PICK i \in 1 .. Len(q) :
          xTasksWaitingToReceive' = [xTasksWaitingToReceive EXCEPT ![k] = RemoveAt(q, i)]
    BY <1>5, <2>1
  <2>3. xTasksWaitingToReceive'[k] = RemoveAt(q, i) BY <2>2 DEF IInv, TypeOK
  <2>4. q \in Seq(Task) /\ Sorted(q) BY DEF Single, IInv, TypeOK
  <2>5. Sorted(RemoveAt(q, i)) BY <2>4, RemovedSorted
  <2>6. \A j \in 1 .. Len(RemoveAt(q, i)) : \E n \in 1 .. Len(q) : RemoveAt(q, i)[j] = q[n]
    <3>1. /\ Len(RemoveAt(q, i)) = Len(q) - 1
          /\ \A j \in 1 .. Len(q) - 1 : \E n \in 1 .. Len(q) : n # i /\ RemoveAt(q, i)[j] = q[n]
      BY <2>4, Removed
    <3> QED BY <3>1
  <2>7. \A u : OutranksAll(u, q) => OutranksAll(u, RemoveAt(q, i)) BY <2>6 DEF OutranksAll
  <2>8. \A u \in Task : pc'[u] # "run" => h # u BY <1>1 DEF Single, call
  <2>9. h # None => \A j \in 1 .. Len(RemoveAt(q, i)) : uxPriority[h] >= Base[RemoveAt(q, i)[j]]
    BY <2>6 DEF Single
  <2>10. q # <<>>
    <3>1. q = <<>> => Len(q) = 0 BY EmptySeq
    <3>2. Len(q) = 0 => 1 .. Len(q) = {} BY SMT
    <3> QED BY <2>2, <3>1, <3>2
  <2>11. h = None => \E u \in Task : OnItsWay(u, k)' /\ OutranksAll(u, RemoveAt(q, i))
    BY <1>3, <2>7, <2>10 DEF Single
  <2>12. h = None /\ ~yield' /\ current # None => OutranksAll(current, RemoveAt(q, i))
    BY <1>2, <2>7 DEF Single
  <2> HIDE DEF q
  <2> QED BY <1>1, <2>3, <2>5, <2>8, <2>9, <2>11, <2>12 DEF Single, Sorted, OutranksAll, prio
<1> QED BY <1>4, <1>5 DEF xTaskIncrementTick

\* While the mutex is free nobody has a priority but its own, so the scheduler
\* takes a task that is not below the one on its way.
LEMMA SingleSwitch ==
  ASSUME IInv, NEW k, Mutex = {k}, Single(k), vTaskSwitchContext
  PROVE  Single(k)'
<1> DEFINE h == xMutexHolder[k]
<1> DEFINE q == xTasksWaitingToReceive[k]
<1>1. /\ state' = state /\ call' = call /\ prio' = prio /\ xMutexHolder' = xMutexHolder
      /\ xTasksWaitingToReceive' = xTasksWaitingToReceive
  BY DEF vTaskSwitchContext
<1>2. \A u \in Task : pc'[u] # "run" => h # u BY <1>1 DEF Single, call
<1>3. Sorted(q) BY DEF Single
<1>4. h # None => \A i \in 1 .. Len(q) : uxPriority[h] >= Base[q[i]] BY DEF Single
<1>5. \A u \in Task : OnItsWay(u, k) => OnItsWay(u, k)' BY <1>1 DEF OnItsWay, Ready, call
<1>6. h = None /\ q # <<>> => \E u \in Task : OnItsWay(u, k)' /\ OutranksAll(u, q)
  BY <1>5 DEF Single
<1>7. ASSUME h = None, current' # None PROVE OutranksAll(current', q)
  <2>1. CASE q = <<>>
    <3>1. Len(q) = 0 BY <2>1, EmptySeq
    <3>2. \A i \in 1 .. Len(q) : FALSE BY <3>1, SMT
    <3> QED BY <3>2 DEF OutranksAll
  <2>2. CASE q # <<>>
    <3>1. PICK u \in Task : OnItsWay(u, k) /\ OutranksAll(u, q) BY <1>7, <2>2 DEF Single
    <3>2. u \in Ready BY <3>1 DEF OnItsWay
    <3>3. PICK c \in Ready : c = current' /\ uxPriority[u] <= uxPriority[c]
      BY <1>7, <3>2 DEF vTaskSwitchContext
    <3>4. c \in Task BY DEF Ready
    <3>5. \A v \in Task : uxPriority[v] = Base[v]
      <4>1. ASSUME NEW v \in Task PROVE \A m \in Mutex : xMutexHolder[m] # v
        BY <1>7, MutexAssumption
      <4> QED BY <4>1 DEF IInv, BaseRestored
    <3>6. Base[u] <= Base[c] BY <3>3, <3>4, <3>5
    <3>7. ASSUME NEW i \in 1 .. Len(q) PROVE Base[c] >= Base[q[i]]
      <4>1. Base[u] >= Base[q[i]] BY <3>1 DEF OutranksAll
      <4>2. q[i] \in Task BY Waiter
      <4>3. Base[c] \in Nat /\ Base[u] \in Nat /\ Base[q[i]] \in Nat BY <3>4, <4>2, BaseNat
      <4> QED BY <3>6, <4>1, <4>3, SMT
    <3> QED BY <3>3, <3>7 DEF OutranksAll
  <2> QED BY <2>1, <2>2
<1> QED BY <1>1, <1>2, <1>3, <1>4, <1>6, <1>7 DEF Single, Sorted, OutranksAll, prio

LEMMA SingleInit == ASSUME NEW k, Mutex = {k} PROVE Init => Single(k)
<1> SUFFICES ASSUME Init PROVE Single(k) OBVIOUS
<1>1. Len(xTasksWaitingToReceive[k]) = 0 BY EmptySeq DEF Init
<1>2. \A i \in 1 .. Len(xTasksWaitingToReceive[k]) : FALSE BY <1>1, SMT
<1> QED BY <1>2 DEF Init, Single, Sorted

LEMMA SingleInductive ==
  ASSUME NEW k, Mutex = {k}, IInv, IInv', Single(k), [Next]_vars
  PROVE  Single(k)'
<1>1. ASSUME NEW t \in Task, NEW m \in Mutex, NEW w \in Waits, Take(t, m, w) PROVE Single(k)'
  BY <1>1, SingleTake
<1>2. ASSUME NEW t \in Task, Kernel(t) PROVE Single(k)'
  BY <1>2, SingleTryTake, SingleBlock, SingleExpired, SingleTimedOut DEF Kernel
<1>3. ASSUME NEW t \in Task, NEW m \in Mutex, Give(t, m) PROVE Single(k)'
  BY <1>3, SingleGive DEF IInv
<1>4. ASSUME NEW t \in Task, Delay(t) PROVE Single(k)' BY <1>4, SingleDelay
<1>5. ASSUME NEW t \in Task, xTaskIncrementTick(t) PROVE Single(k)' BY <1>5, SingleTick
<1>6. CASE Slice
  <2>1. \A u \in Task : OnItsWay(u, k) => OnItsWay(u, k)' BY <1>6 DEF Slice, OnItsWay, Ready, call
  <2> QED BY <1>6, <2>1, SingleKept DEF Slice, call, prio
<1>7. CASE vTaskSwitchContext BY <1>7, SingleSwitch
<1>8. CASE UNCHANGED vars
  <2>1. \A u \in Task : OnItsWay(u, k) => OnItsWay(u, k)'
    BY <1>8 DEF vars, sched, call, OnItsWay, Ready
  <2> QED BY <1>8, <2>1, SingleKept DEF vars, sched, call, prio
<1> QED BY <1>1, <1>2, <1>3, <1>4, <1>5, <1>6, <1>7, <1>8 DEF Next

\* With one mutex the holder is never below a task that waits for it, through any
\* inheritance, timeout and giving back, for any number of tasks and priorities.
THEOREM NobodyOutranked ==
  ASSUME NEW k, Mutex = {k} PROVE Spec => []HolderOutranks
<1>1. Init => Single(k) BY SingleInit
<1>2. IInv /\ IInv' /\ Single(k) /\ [Next]_vars => Single(k)' BY SingleInductive
<1>3. IInv /\ Single(k) => HolderOutranks BY SingleOutranks
<1> QED BY <1>1, <1>2, <1>3, AlwaysIInv, PTL DEF Spec

-----------------------------------------------------------------------------
(* A single mutex: who runs.                                               *)

In(u, q) == \E i \in 1 .. Len(q) : q[i] = u

\* A task that has lent its priority and not taken it back: it is in the list, or
\* its wait has expired.
Lender(u, k) ==
  /\ want[u] = k /\ inherited[u] /\ pc[u] # "run"
  /\ In(u, xTasksWaitingToReceive[k]) \/ (u \in Ready /\ ticks[u] = "some")

\* A holder above its base priority has it from a lender, and every waiter above
\* the base priority of the holder is one.
Lent(k) ==
  LET h == xMutexHolder[k]
      q == xTasksWaitingToReceive[k]
  IN  h # None =>
        /\ uxPriority[h] >= Base[h]
        /\ uxPriority[h] > Base[h] => \E u \in Task : Base[u] >= uxPriority[h] /\ Lender(u, k)
        /\ \A i \in 1 .. Len(q) : Base[q[i]] > Base[h] => inherited[q[i]]

LEMMA InInserted ==
  ASSUME NEW q \in Seq(Task), NEW t \in Task, NEW n \in 0 .. Len(q)
  PROVE  In(t, InsertAfter(q, t, n)) /\ \A u : In(u, q) => In(u, InsertAfter(q, t, n))
<1> DEFINE r == InsertAfter(q, t, n)
<1>1. Len(q) \in Nat BY LenProperties
<1>2. Len(r) = Len(q) + 1 BY Inserted
<1>3. r = [j \in 1 .. Len(q) + 1 |-> IF j <= n THEN q[j] ELSE IF j = n + 1 THEN t ELSE q[j - 1]]
  BY DEF InsertAfter
<1>4. n + 1 \in 1 .. Len(q) + 1 /\ r[n + 1] = t BY <1>1, <1>3, SMT
<1>5. ASSUME NEW i \in 1 .. Len(q) PROVE \E j \in 1 .. Len(q) + 1 : r[j] = q[i]
  <2>1. CASE i <= n
    <3>1. i \in 1 .. Len(q) + 1 BY <1>1, SMT
    <3> QED BY <1>3, <2>1, <3>1
  <2>2. CASE i > n
    <3>1. i + 1 \in 1 .. Len(q) + 1 /\ ~(i + 1 <= n) /\ i + 1 # n + 1 /\ (i + 1) - 1 = i
      BY <1>1, <2>2, SMT
    <3> QED BY <1>3, <3>1
  <2> QED BY <1>1, <2>1, <2>2, SMT
<1> QED BY <1>2, <1>4, <1>5 DEF In

LEMMA InRemoved ==
  ASSUME NEW q \in Seq(Task), NEW n \in 1 .. Len(q)
  PROVE  \A u : In(u, q) /\ u # q[n] => In(u, RemoveAt(q, n))
<1> DEFINE r == RemoveAt(q, n)
<1>1. Len(q) \in Nat BY LenProperties
<1>2. Len(r) = Len(q) - 1 BY Removed
<1>3. r = [j \in 1 .. Len(q) - 1 |-> IF j < n THEN q[j] ELSE q[j + 1]] BY DEF RemoveAt
<1>4. ASSUME NEW i \in 1 .. Len(q), i # n PROVE \E j \in 1 .. Len(q) - 1 : r[j] = q[i]
  <2>1. CASE i < n
    <3>1. i \in 1 .. Len(q) - 1 BY <1>1, <2>1, SMT
    <3> QED BY <1>3, <2>1, <3>1
  <2>2. CASE i > n
    <3>1. i - 1 \in 1 .. Len(q) - 1 /\ ~(i - 1 < n) /\ (i - 1) + 1 = i BY <1>1, <2>2, SMT
    <3> QED BY <1>3, <3>1
  <2> QED BY <1>1, <1>4, <2>1, <2>2, SMT
<1> QED BY <1>2, <1>4 DEF In

\* A step that leaves the mutex, its list and all priorities alone.
LEMMA LentKept ==
  ASSUME IInv, NEW k, Mutex = {k}, Lent(k),
         xMutexHolder' = xMutexHolder, xTasksWaitingToReceive' = xTasksWaitingToReceive,
         uxPriority' = uxPriority,
         xMutexHolder[k] # None => \A u \in Task :
           /\ Lender(u, k) => Lender(u, k)'
           /\ In(u, xTasksWaitingToReceive[k]) /\ inherited[u] => inherited'[u]
  PROVE  Lent(k)'
<1> DEFINE h == xMutexHolder[k]
<1> DEFINE q == xTasksWaitingToReceive[k]
<1> SUFFICES ASSUME h # None PROVE Lent(k)' BY DEF Lent
<1>1. uxPriority[h] >= Base[h] BY DEF Lent
<1>2. uxPriority[h] > Base[h] => \E u \in Task : Base[u] >= uxPriority[h] /\ Lender(u, k)'
  BY DEF Lent
<1>3. ASSUME NEW i \in 1 .. Len(q), Base[q[i]] > Base[h] PROVE inherited'[q[i]]
  <2>1. inherited[q[i]] BY <1>3 DEF Lent
  <2>2. q[i] \in Task /\ In(q[i], q) BY InList DEF In
  <2> QED BY <2>1, <2>2
<1> QED BY <1>1, <1>2, <1>3 DEF Lent

\* What the running task does to others that have lent something: nothing.
LEMMA LentOthers ==
  ASSUME IInv, NEW k, Mutex = {k}, Lent(k), NEW t \in Task, current = t, ~yield,
         xMutexHolder' = xMutexHolder, xTasksWaitingToReceive' = xTasksWaitingToReceive,
         uxPriority' = uxPriority,
         \A u \in Task \ {t} : /\ state'[u] = state[u] /\ pc'[u] = pc[u] /\ want'[u] = want[u]
                               /\ ticks'[u] = ticks[u] /\ inherited'[u] = inherited[u],
         xMutexHolder[k] # None /\ Lender(t, k) => Lender(t, k)'
  PROVE  Lent(k)'
<1>1. ~In(t, xTasksWaitingToReceive[k]) BY Executing DEF In
<1>2. ASSUME NEW u \in Task, u # t, Lender(u, k) PROVE Lender(u, k)'
  BY <1>2 DEF Lender, Ready, In
<1> QED BY <1>1, <1>2, LentKept

LEMMA LentTakes ==
  ASSUME IInv, NEW k, Mutex = {k}, Single(k), Lent(k), NEW t \in Task,
         \/ \E w \in Waits : Take(t, k, w)
         \/ TryTake(t) \/ Expire(t) \/ CheckEmpty(t) \/ Delay(t)
  PROVE  Lent(k)'
<1> DEFINE h == xMutexHolder[k]
<1> DEFINE q == xTasksWaitingToReceive[k]
<1>1. current = t /\ ~yield BY DEF Take, TryTake, Expire, CheckEmpty, Delay, At
<1>2. ~In(t, q) BY <1>1, Executing DEF In
<1>3. uxPriority' = uxPriority /\ xTasksWaitingToReceive' = xTasksWaitingToReceive
  BY DEF Take, TryTake, Expire, CheckEmpty, Delay, prio
<1>4. \A u \in Task \ {t} : /\ state'[u] = state[u] /\ pc'[u] = pc[u] /\ want'[u] = want[u]
                            /\ ticks'[u] = ticks[u] /\ inherited'[u] = inherited[u]
  <2>1. CASE \E w \in Waits : Take(t, k, w) BY <2>1 DEF Take, sched, IInv, TypeOK
  <2>2. CASE TryTake(t) BY <2>2 DEF TryTake, Return, Goto, sched, IInv, TypeOK
  <2>3. CASE Expire(t) BY <2>3 DEF Expire, Goto, sched, IInv, TypeOK
  <2>4. CASE CheckEmpty(t) BY <2>4 DEF CheckEmpty, Return, Goto, sched, IInv, TypeOK
  <2>5. CASE Delay(t) BY <2>5 DEF Delay, call, IInv, TypeOK
  <2> QED BY <2>1, <2>2, <2>3, <2>4, <2>5
<1>5. pc[t] # "run" => want[t] = k BY DEF IInv, Calling
<1>6. t # None BY MutexAssumption
<1>7. CASE TryTake(t) /\ h = None
  <2>1. xMutexHolder'[k] = t BY <1>5, <1>7 DEF TryTake, At, IInv, TypeOK
  <2>2. uxPriority[t] = Base[t] BY <1>6, <1>7 DEF IInv, BaseRestored
  <2>3. Base[t] \in Nat BY BaseNat
  <2>4. uxPriority'[t] >= Base[t] /\ ~(uxPriority'[t] > Base[t]) BY <1>3, <2>2, <2>3
  <2>5. ASSUME NEW i \in 1 .. Len(q) PROVE ~(Base[q[i]] > Base[t])
    <3>1. Base[t] >= Base[q[i]] BY <1>1, <1>6, <1>7 DEF Single, OutranksAll
    <3>2. Base[q[i]] \in Nat BY Waiter, BaseNat
    <3> QED BY <2>3, <3>1, <3>2
  <2> QED BY <1>3, <2>1, <2>4, <2>5 DEF Lent
<1>8. CASE ~(TryTake(t) /\ h = None)
  <2>1. xMutexHolder' = xMutexHolder
    BY <1>5, <1>8 DEF Take, TryTake, Expire, CheckEmpty, Delay, At
  <2>2. ASSUME h # None, Lender(t, k) PROVE Lender(t, k)'
    <3>1. /\ pc[t] # "run" /\ want[t] = k /\ inherited[t] /\ t \in Ready /\ ticks[t] = "some"
      BY <1>2, <2>2 DEF Lender
    <3>2. \/ TryTake(t) \/ Expire(t) \/ CheckEmpty(t) BY <3>1 DEF Take, Delay, At
    <3>3. /\ \E p \in {"block", "expired", "try", "disinherit"} : pc' = [pc EXCEPT ![t] = p]
          /\ want' = want /\ ticks' = ticks /\ inherited' = inherited /\ state' = state
      BY <2>2, <3>1, <3>2 DEF TryTake, Expire, CheckEmpty, Goto, sched
    <3>4. pc'[t] # "run" BY <3>3 DEF IInv, TypeOK
    <3>5. t \in Ready' BY <3>1, <3>3 DEF Ready
    <3> QED BY <3>1, <3>3, <3>4, <3>5 DEF Lender
  <2> QED BY <1>1, <1>3, <1>4, <2>1, <2>2, LentOthers
<1> QED BY <1>7, <1>8

\* A task that waits has lent its priority if it is above the holder's own.
LEMMA LentBlock ==
  ASSUME IInv, NEW k, Mutex = {k}, Single(k), Lent(k), NEW t \in Task, Block(t)
  PROVE  Lent(k)'
<1> DEFINE h == xMutexHolder[k]
<1> DEFINE q == xTasksWaitingToReceive[k]
<1>1. /\ current = t /\ ~yield /\ pc[t] = "block" /\ pc' = [pc EXCEPT ![t] = "try"]
      /\ want' = want /\ ticks' = ticks /\ xMutexHolder' = xMutexHolder
  BY DEF Block, At, Goto
<1>2. want[t] = k BY <1>1 DEF IInv, Calling
<1> SUFFICES ASSUME h # None PROVE Lent(k)' BY <1>1 DEF Lent
<1>3. xTaskPriorityInherit(t, h) /\ vTaskPlaceOnEventList(t, k) BY <1>2 DEF Block
<1>4. h \in Task /\ h # t BY <1>1 DEF Single, IInv, TypeOK
<1>5. PICK n \in 0 .. Len(q) :
        xTasksWaitingToReceive' = [xTasksWaitingToReceive EXCEPT ![k] = InsertAfter(q, t, n)]
  BY <1>3 DEF vTaskPlaceOnEventList
<1> DEFINE r == InsertAfter(q, t, n)
<1>6. xTasksWaitingToReceive'[k] = r BY <1>5 DEF IInv, TypeOK
<1>7. q \in Seq(Task) BY DEF IInv, TypeOK
<1>8. In(t, r) /\ \A u : In(u, q) => In(u, r) BY <1>7, InInserted
<1>9. \A i \in 1 .. Len(r) : r[i] = t \/ \E j \in 1 .. Len(q) : r[i] = q[j]
  <2>1. /\ Len(r) = Len(q) + 1
        /\ \A i \in 1 .. Len(q) + 1 : r[i] = t \/ \E j \in 1 .. Len(q) : r[i] = q[j]
    BY <1>7, Inserted
  <2> QED BY <2>1
<1> HIDE DEF r
<1>10. uxPriority[t] = Base[t] BY <1>4 DEF IInv, BaseRestored
<1>11. uxPriority'[h] = (IF uxPriority[h] < Base[t] THEN Base[t] ELSE uxPriority[h])
  BY <1>3, <1>4, <1>10 DEF xTaskPriorityInherit, IInv, TypeOK
<1>12. /\ inherited'[t] = (uxPriority[h] < Base[t] \/ Base[h] < Base[t])
       /\ \A u \in Task : u # t => inherited'[u] = inherited[u]
  BY <1>3, <1>10 DEF xTaskPriorityInherit, IInv, TypeOK
<1>13. uxPriority[h] \in Nat /\ Base[h] \in Nat /\ Base[t] \in Nat
  BY <1>4, BaseNat DEF IInv, TypeOK
<1>14. uxPriority[h] >= Base[h] BY DEF Lent
<1>15. uxPriority'[h] >= Base[h] BY <1>11, <1>13, <1>14
<1>16. pc'[t] = "try" /\ want'[t] = k BY <1>1, <1>2 DEF IInv, TypeOK
<1>17. inherited'[t] => Lender(t, k)' BY <1>6, <1>8, <1>16 DEF Lender
<1>18. ASSUME uxPriority'[h] > Base[h]
       PROVE  \E u \in Task : Base[u] >= uxPriority'[h] /\ Lender(u, k)'
  <2>1. CASE uxPriority[h] < Base[t]
    <3>1. inherited'[t] BY <1>12, <2>1
    <3>2. Base[t] >= uxPriority'[h] BY <1>11, <1>13, <2>1
    <3> QED BY <1>17, <3>1, <3>2
  <2>2. CASE ~(uxPriority[h] < Base[t])
    <3>1. uxPriority'[h] = uxPriority[h] BY <1>11, <2>2
    <3>2. PICK u \in Task : Base[u] >= uxPriority[h] /\ Lender(u, k) BY <1>18, <3>1 DEF Lent
    <3>3. CASE u = t
      <4>1. Base[h] < Base[t] BY <1>13, <1>18, <3>1, <3>2, <3>3
      <4>2. inherited'[t] BY <1>12, <4>1
      <4> QED BY <1>17, <3>1, <3>2, <3>3, <4>2
    <3>4. CASE u # t
      <4>1. pc'[u] = pc[u] BY <1>1, <3>4 DEF IInv, TypeOK
      <4>2. state'[u] = state[u] BY <1>3, <3>4 DEF vTaskPlaceOnEventList, IInv, TypeOK
      <4>3. Lender(u, k)' BY <1>1, <1>6, <1>8, <1>12, <3>2, <3>4, <4>1, <4>2 DEF Lender, Ready
      <4> QED BY <3>1, <3>2, <4>3
    <3> QED BY <3>3, <3>4
  <2> QED BY <2>1, <2>2
<1>19. ASSUME NEW i \in 1 .. Len(r), Base[r[i]] > Base[h] PROVE inherited'[r[i]]
  <2>1. CASE r[i] = t BY <1>12, <1>13, <1>19, <2>1
  <2>2. CASE r[i] # t
    <3>1. PICK j \in 1 .. Len(q) : r[i] = q[j] BY <1>9, <2>2
    <3>2. inherited[q[j]] /\ q[j] \in Task BY <1>19, <3>1, Waiter DEF Lent
    <3> QED BY <1>12, <2>2, <3>1, <3>2
  <2> QED BY <2>1, <2>2
<1> QED BY <1>1, <1>6, <1>15, <1>18, <1>19 DEF Lent

\* With one mutex the holder holds one.
LEMMA OneHeld ==
  ASSUME IInv, NEW k, Mutex = {k}, xMutexHolder[k] # None
  PROVE  uxMutexesHeld[xMutexHolder[k]] = 1
<1> DEFINE h == xMutexHolder[k]
<1>1. h \in Task BY DEF IInv, TypeOK
<1>2. Held(h) = {k} BY DEF Held
<1>3. Cardinality({k}) = 1 BY FS_Singleton
<1> QED BY <1>1, <1>2, <1>3 DEF IInv, Counts

\* A timeout leaves the holder with the priority of the first waiter, a lender, or
\* with its own.
LEMMA TimedOutPriority ==
  ASSUME IInv, NEW k, Mutex = {k}, Single(k), Lent(k), NEW t \in Task, TimedOut(t),
         xMutexHolder[k] # None
  PROVE  LET h == xMutexHolder[k]
             q == xTasksWaitingToReceive[k]
         IN  /\ uxPriority'[h] \in Nat /\ uxPriority'[h] >= Base[h]
             /\ uxPriority[h] >= uxPriority'[h]
             /\ uxPriority'[h] > Base[h] => 1 \in 1 .. Len(q) /\ Base[q[1]] = uxPriority'[h]
<1> DEFINE h == xMutexHolder[k]
<1> DEFINE q == xTasksWaitingToReceive[k]
<1>1. want[t] = k BY DEF TimedOut, At, IInv, Calling
<1>2. h \in Task /\ uxMutexesHeld[h] = 1 BY OneHeld DEF IInv, TypeOK
<1>3. uxPriority' = [uxPriority EXCEPT ![h] = Larger(Base[h], HighestWaiting(k))]
  BY <1>1, <1>2 DEF TimedOut, vTaskPriorityDisinheritAfterTimeout
<1>4. uxPriority'[h] = Larger(Base[h], HighestWaiting(k)) BY <1>2, <1>3 DEF IInv, TypeOK
<1>5. uxPriority[h] >= Base[h] /\ uxPriority[h] \in Nat /\ Base[h] \in Nat
  BY <1>2, BaseNat DEF Lent, IInv, TypeOK
<1>6. CASE q = <<>>
  <2>1. HighestWaiting(k) = 0 BY <1>6 DEF HighestWaiting
  <2>2. uxPriority'[h] = Base[h] BY <1>4, <1>5, <2>1 DEF Larger
  <2> QED BY <1>5, <2>2
<1>7. CASE q # <<>>
  <2>1. q \in Seq(Task) BY DEF IInv, TypeOK
  <2>2. 1 \in 1 .. Len(q) BY <1>7, <2>1, EmptySeq, LenProperties, SMT
  <2>3. q[1] \in Task /\ HighestWaiting(k) = Base[q[1]] BY <1>7, <2>2, Waiter DEF HighestWaiting
  <2>4. uxPriority[h] >= Base[q[1]] /\ Base[q[1]] \in Nat BY <2>2, <2>3, BaseNat DEF Single
  <2>5. uxPriority'[h] = (IF Base[h] < Base[q[1]] THEN Base[q[1]] ELSE Base[h])
    BY <1>4, <2>3 DEF Larger
  <2>6. /\ uxPriority'[h] \in Nat /\ uxPriority'[h] >= Base[h]
        /\ uxPriority[h] >= uxPriority'[h]
        /\ uxPriority'[h] > Base[h] => Base[q[1]] = uxPriority'[h]
    <3> HIDE DEF h, q
    <3> QED BY <1>5, <2>4, <2>5
  <2> QED BY <2>2, <2>6
<1> QED BY <1>6, <1>7

LEMMA LentTimedOut ==
  ASSUME IInv, NEW k, Mutex = {k}, Single(k), Lent(k), NEW t \in Task, TimedOut(t)
  PROVE  Lent(k)'
<1> DEFINE h == xMutexHolder[k]
<1> DEFINE q == xTasksWaitingToReceive[k]
<1>1. /\ current = t /\ ~yield /\ sched' = sched
      /\ xMutexHolder' = xMutexHolder /\ xTasksWaitingToReceive' = xTasksWaitingToReceive
      /\ Return(t)
  BY DEF TimedOut, At
<1>2. ~In(t, q) BY <1>1, Executing DEF In
<1>3. \A u \in Task : u # t =>
        pc'[u] = pc[u] /\ want'[u] = want[u] /\ inherited'[u] = inherited[u]
  BY <1>1 DEF Return, IInv, TypeOK
<1> SUFFICES ASSUME h # None PROVE Lent(k)' BY <1>1 DEF Lent
<1>4. /\ uxPriority'[h] >= Base[h]
      /\ uxPriority'[h] > Base[h] => 1 \in 1 .. Len(q) /\ Base[q[1]] = uxPriority'[h]
      /\ uxPriority'[h] \in Nat
  BY TimedOutPriority
<1>5. ASSUME NEW i \in 1 .. Len(q), Base[q[i]] > Base[h] PROVE inherited'[q[i]]
  <2>1. q[i] \in Task /\ q[i] # t BY <1>2, Waiter DEF In
  <2> QED BY <1>3, <1>5, <2>1 DEF Lent
<1>6. ASSUME uxPriority'[h] > Base[h]
      PROVE  \E u \in Task : Base[u] >= uxPriority'[h] /\ Lender(u, k)'
  <2>1. 1 \in 1 .. Len(q) /\ Base[q[1]] = uxPriority'[h] BY <1>4, <1>6
  <2>2. PICK u \in Task : u = q[1] BY <2>1, Waiter
  <2>3. In(u, q) /\ u # t BY <1>2, <2>1, <2>2 DEF In
  <2>4. pc[u] = "try" /\ want[u] = k BY <2>1, <2>2 DEF IInv, Lists, Listed
  <2>5. inherited'[u] BY <1>5, <1>6, <2>1, <2>2
  <2>6. Lender(u, k)' BY <1>1, <1>3, <2>3, <2>4, <2>5 DEF Lender
  <2> QED BY <1>4, <2>1, <2>2, <2>6
<1> QED BY <1>1, <1>4, <1>5, <1>6 DEF Lent

\* A lender whose wait ends is ready, and has not taken its priority back yet.
LEMMA LentTick ==
  ASSUME IInv, NEW k, Mutex = {k}, Lent(k), NEW t \in Task, xTaskIncrementTick(t)
  PROVE  Lent(k)'
<1> DEFINE h == xMutexHolder[k]
<1> DEFINE q == xTasksWaitingToReceive[k]
<1>1. /\ state' = [state EXCEPT ![t] = "ready"] /\ call' = call
      /\ prio' = prio /\ xMutexHolder' = xMutexHolder
  BY DEF xTaskIncrementTick
<1>2. \A u \in Ready : u \in Ready' BY <1>1 DEF Ready, IInv, TypeOK
<1>3. CASE xTasksWaitingToReceive' = xTasksWaitingToReceive
  <2>1. ASSUME NEW u \in Task, Lender(u, k) PROVE Lender(u, k)'
    BY <1>1, <1>2, <1>3, <2>1 DEF Lender, In, call
  <2> QED BY <1>1, <1>3, <2>1, LentKept DEF call, prio
<1>4. CASE /\ state[t] = "blocked" /\ ticks[t] = "some"
           /\ LET r == xTasksWaitingToReceive[want[t]] IN \E i \in 1 .. Len(r) :
                /\ r[i] = t
                /\ xTasksWaitingToReceive' = [xTasksWaitingToReceive EXCEPT ![want[t]] = RemoveAt(r, i)]
  <2>1. want[t] = k BY <1>4 DEF IInv, Calling
  <2>2. PICK i \in 1 .. Len(q) :
          /\ q[i] = t
          /\ xTasksWaitingToReceive' = [xTasksWaitingToReceive EXCEPT ![k] = RemoveAt(q, i)]
    BY <1>4, <2>1
  <2> DEFINE r == RemoveAt(q, i)
  <2>3. xTasksWaitingToReceive'[k] = r BY <2>2 DEF IInv, TypeOK
  <2>4. q \in Seq(Task) BY DEF IInv, TypeOK
  <2>5. \A u : In(u, q) /\ u # t => In(u, r) BY <2>2, <2>4, InRemoved
  <2>6. \A j \in 1 .. Len(r) : \E n \in 1 .. Len(q) : r[j] = q[n]
    <3>1. /\ Len(r) = Len(q) - 1
          /\ \A j \in 1 .. Len(q) - 1 : \E n \in 1 .. Len(q) : n # i /\ r[j] = q[n]
      BY <2>4, Removed
    <3> QED BY <3>1
  <2> HIDE DEF r
  <2>7. t \in Ready' BY <1>1 DEF Ready, IInv, TypeOK
  <2>8. ASSUME NEW u \in Task, Lender(u, k) PROVE Lender(u, k)'
    <3>1. In(u, r) \/ (u \in Ready' /\ ticks[u] = "some")
      BY <1>2, <1>4, <2>5, <2>7, <2>8 DEF Lender
    <3> QED BY <1>1, <2>3, <2>8, <3>1 DEF Lender, call
  <2> SUFFICES ASSUME h # None PROVE Lent(k)' BY <1>1 DEF Lent
  <2>9. uxPriority[h] >= Base[h] BY DEF Lent
  <2>10. uxPriority[h] > Base[h] => \E u \in Task : Base[u] >= uxPriority[h] /\ Lender(u, k)'
    BY <2>8 DEF Lent
  <2>11. \A j \in 1 .. Len(r) : Base[r[j]] > Base[h] => inherited[r[j]] BY <2>6 DEF Lent
  <2> QED BY <1>1, <2>3, <2>9, <2>10, <2>11 DEF Lent, call, prio
<1> QED BY <1>3, <1>4 DEF xTaskIncrementTick

LEMMA LentInductive ==
  ASSUME NEW k, Mutex = {k}, IInv, Single(k), Lent(k), [Next]_vars
  PROVE  Lent(k)'
<1>1. ASSUME NEW t \in Task, NEW m \in Mutex, NEW w \in Waits, Take(t, m, w) PROVE Lent(k)'
  <2>1. \E v \in Waits : Take(t, k, v) BY <1>1
  <2> QED BY <2>1, LentTakes
<1>2. ASSUME NEW t \in Task, Kernel(t) PROVE Lent(k)'
  BY <1>2, LentTakes, LentBlock, LentTimedOut DEF Kernel
<1>3. ASSUME NEW t \in Task, NEW m \in Mutex, Give(t, m) PROVE Lent(k)'
  <2>1. xMutexHolder'[k] = None BY <1>3 DEF Give, IInv, TypeOK
  <2> QED BY <2>1 DEF Lent
<1>4. ASSUME NEW t \in Task, Delay(t) PROVE Lent(k)' BY <1>4, LentTakes
<1>5. ASSUME NEW t \in Task, xTaskIncrementTick(t) PROVE Lent(k)' BY <1>5, LentTick
<1>6. CASE Slice \/ vTaskSwitchContext \/ UNCHANGED vars
  <2>1. /\ state' = state /\ call' = call /\ prio' = prio /\ xMutexHolder' = xMutexHolder
        /\ xTasksWaitingToReceive' = xTasksWaitingToReceive
    BY <1>6 DEF Slice, vTaskSwitchContext, vars, sched
  <2>2. \A u \in Task : Lender(u, k) => Lender(u, k)' BY <2>1 DEF Lender, Ready, In, call
  <2> QED BY <2>1, <2>2, LentKept DEF call, prio
<1> QED BY <1>1, <1>2, <1>3, <1>4, <1>5, <1>6 DEF Next

\* A step that changes nobody's priority and moves no ready task out of its wait.
LEMMA HighestKept ==
  ASSUME IInv, RunsHighest, state' = state, uxPriority' = uxPriority, current' = current,
         ~yield' => ~yield,
         \A u \in Task : u # current => pc'[u] = pc[u] /\ ticks'[u] = ticks[u] /\ inherited'[u] = inherited[u]
  PROVE  RunsHighest'
<1> SUFFICES ASSUME ~yield', NEW t \in Ready, uxPriority[t] > PriorityOf(current)
             PROVE  \E u \in Ready : /\ uxPriority[u] >= uxPriority[t]
                                     /\ pc'[u] # "run" /\ inherited'[u] /\ ticks'[u] = "some"
  BY DEF RunsHighest, Ready, PriorityOf
<1>1. PICK u \in Ready : uxPriority[u] >= uxPriority[t] /\ pc[u] # "run" /\ inherited[u] /\ ticks[u] = "some"
  BY DEF RunsHighest
<1>2. u \in Task /\ t \in Task BY DEF Ready
<1>3. u # current
  <2>1. u # None BY <1>2, MutexAssumption
  <2>2. uxPriority[u] \in Nat /\ uxPriority[t] \in Nat BY <1>2 DEF IInv, TypeOK
  <2>3. PriorityOf(u) = uxPriority[u] BY <2>1 DEF PriorityOf
  <2> QED BY <1>1, <2>2, <2>3
<1> QED BY <1>1, <1>2, <1>3

LEMMA HighestTimedOut ==
  ASSUME IInv, NEW k, Mutex = {k}, Single(k), Lent(k), RunsHighest, NEW t \in Task, TimedOut(t)
  PROVE  RunsHighest'
<1> DEFINE h == xMutexHolder[k]
<1>1. /\ current = t /\ ~yield /\ pc[t] = "disinherit" /\ sched' = sched /\ Return(t)
  BY DEF TimedOut, At
<1>2. want[t] = k BY <1>1 DEF IInv, Calling
<1>3. \A u \in Task : u # t => pc'[u] = pc[u] /\ ticks'[u] = ticks[u] /\ inherited'[u] = inherited[u]
  BY <1>1 DEF Return, IInv, TypeOK
<1>4. CASE h = None
  <2>1. uxPriority' = uxPriority
    BY <1>2, <1>4 DEF TimedOut, vTaskPriorityDisinheritAfterTimeout
  <2> QED BY <1>1, <1>3, <2>1, HighestKept DEF sched
<1>5. CASE h # None
  <2>1. h \in Task /\ h # t /\ pc[h] = "run"
    BY <1>1, <1>5 DEF Single, IInv, TypeOK
  <2>2. uxPriority'[h] \in Nat /\ uxPriority[h] >= uxPriority'[h] BY <1>5, TimedOutPriority
  <2>3. \A u \in Task : u # h => uxPriority'[u] = uxPriority[u]
    BY <1>2, <2>1 DEF TimedOut, vTaskPriorityDisinheritAfterTimeout, IInv, TypeOK
  <2>4. \A u \in Task : /\ uxPriority[u] \in Nat /\ uxPriority'[u] \in Nat
                        /\ uxPriority[u] >= uxPriority'[u]
    <3>1. \A u \in Task : uxPriority[u] \in Nat BY DEF IInv, TypeOK
    <3>2. ASSUME NEW u \in Task, u # h
          PROVE  uxPriority'[u] \in Nat /\ uxPriority[u] >= uxPriority'[u]
      BY <2>3, <3>1, <3>2
    <3> QED BY <2>2, <3>1, <3>2
  <2>5. t # None BY MutexAssumption
  <2>6. ASSUME NEW x \in Ready, uxPriority'[x] > uxPriority'[t]
        PROVE  \E u \in Ready : /\ uxPriority'[u] >= uxPriority'[x]
                                /\ pc'[u] # "run" /\ inherited'[u] /\ ticks'[u] = "some"
    <3>1. x \in Task BY DEF Ready
    <3>2. uxPriority'[t] = uxPriority[t] BY <2>1, <2>3
    <3>3. uxPriority[x] > uxPriority[t] BY <2>4, <2>6, <3>1, <3>2
    <3>4. PriorityOf(current) = uxPriority[t] BY <1>1, <2>5 DEF PriorityOf
    <3>5. PICK u \in Ready : uxPriority[u] >= uxPriority[x] /\ pc[u] # "run" /\ inherited[u] /\ ticks[u] = "some"
      BY <1>1, <3>3, <3>4 DEF RunsHighest
    <3>6. u \in Task BY DEF Ready
    <3>7. u # h BY <2>1, <3>5
    <3>8. u # t BY <2>4, <3>1, <3>3, <3>5
    <3>9. uxPriority'[u] = uxPriority[u] BY <2>3, <3>6, <3>7
    <3>10. uxPriority'[u] >= uxPriority'[x] BY <2>4, <3>1, <3>5, <3>6, <3>9
    <3> QED BY <1>3, <3>5, <3>6, <3>8, <3>10
  <2>7. PriorityOf(current)' = uxPriority'[t] BY <1>1, <2>5 DEF PriorityOf, sched
  <2>8. Ready' = Ready BY <1>1 DEF Ready, sched
  <2> QED BY <2>6, <2>7, <2>8 DEF RunsHighest
<1> QED BY <1>4, <1>5

\* A giver goes on only if the woken task is not above it; who else is above it
\* now was lent to, or is below a lender whose wait has expired.
LEMMA HighestGive ==
  ASSUME IInv, NEW k, Mutex = {k}, Single(k), Lent(k), RunsHighest, NEW t \in Task,
         Give(t, k), BaseRestored'
  PROVE  RunsHighest'
<1> DEFINE q == xTasksWaitingToReceive[k]
<1> SUFFICES ASSUME ~yield' PROVE RunsHighest' BY DEF RunsHighest
<1>1. /\ current = t /\ ~yield /\ pc[t] = "run" /\ xMutexHolder[k] = t
      /\ xMutexHolder' = [xMutexHolder EXCEPT ![k] = None]
      /\ current' = current /\ call' = call
      /\ uxPriority' = [uxPriority EXCEPT ![t] = IF uxMutexesHeld[t] = 1 THEN Base[t] ELSE @]
  BY DEF Give, At, xTaskPriorityDisinherit
<1>2. t # None /\ uxMutexesHeld[t] = 1 BY <1>1, MutexAssumption, OneHeld
<1>3. uxPriority'[t] = Base[t] /\ \A u \in Task : u # t => uxPriority'[u] = uxPriority[u]
  BY <1>1, <1>2 DEF IInv, TypeOK
<1>4. PriorityOf(current) = uxPriority[t] /\ PriorityOf(current)' = Base[t]
  BY <1>1, <1>2, <1>3 DEF PriorityOf
<1>5. \A u \in Task : uxPriority[u] \in Nat /\ Base[u] \in Nat BY BaseNat DEF IInv, TypeOK
<1>6. uxPriority[t] >= Base[t] BY <1>1, <1>2 DEF Lent
<1>7. CASE q = <<>> /\ yield' = (uxPriority'[t] # uxPriority[t]) /\ state' = state
  <2>1. uxPriority'[t] = uxPriority[t] BY <1>7
  <2>2. uxPriority' = uxPriority BY <1>1, <1>2, <1>3, <2>1 DEF IInv, TypeOK
  <2> QED BY <1>1, <1>7, <2>2, HighestKept DEF call
<1>8. CASE /\ q # <<>> /\ state' = [state EXCEPT ![q[1]] = "ready"]
           /\ yield' = (uxPriority[q[1]] > uxPriority'[t])
  <2>1. q \in Seq(Task) BY DEF IInv, TypeOK
  <2>2. Len(q) \in Nat /\ 1 \in 1 .. Len(q) BY <1>8, <2>1, EmptySeq, LenProperties, SMT
  <2>3. q[1] \in Task /\ uxPriority[q[1]] = Base[q[1]] BY <2>2, Waiter
  <2>4. Base[t] >= Base[q[1]]
    <3>1. ~(Base[q[1]] > Base[t]) BY <1>3, <1>8, <2>3
    <3> QED BY <1>5, <2>3, <3>1
  <2>5. \A u \in Task : In(u, q) => Base[t] >= Base[u]
    <3>1. ASSUME NEW i \in 1 .. Len(q) PROVE Base[t] >= Base[q[i]]
      <4>1. 1 < i \/ 1 = i BY <2>2, SMT
      <4>2. 1 < i => Base[q[1]] >= Base[q[i]] BY <2>2 DEF Single, Sorted
      <4>3. q[i] \in Task BY Waiter
      <4> QED BY <1>5, <2>3, <2>4, <4>1, <4>2, <4>3
    <3> QED BY <3>1 DEF In
  <2>6. \A u \in Ready' : u \in Ready \/ u = q[1] BY <1>8, <2>3 DEF Ready, IInv, TypeOK
  <2>7. \A u \in Ready : u \in Ready' BY <1>8, <2>3 DEF Ready, IInv, TypeOK
  <2>8. ASSUME NEW x \in Ready', uxPriority'[x] > Base[t]
        PROVE  \E u \in Ready' : /\ uxPriority'[u] >= uxPriority'[x]
                                 /\ pc'[u] # "run" /\ inherited'[u] /\ ticks'[u] = "some"
    <3>1. x \in Task BY DEF Ready
    <3>2. x # t BY <1>3, <1>5, <2>8
    <3>3. uxPriority'[x] = uxPriority[x] BY <1>3, <3>1, <3>2
    <3>4. x # q[1] BY <1>5, <2>3, <2>4, <2>8, <3>3
    <3>5. x \in Ready BY <2>6, <3>4
    <3>6. CASE uxPriority[x] > uxPriority[t]
      <4>1. PICK u \in Ready : uxPriority[u] >= uxPriority[x] /\ pc[u] # "run" /\ inherited[u] /\ ticks[u] = "some"
        BY <1>1, <1>4, <3>5, <3>6 DEF RunsHighest
      <4>2. u \in Task /\ u # t BY <1>1, <4>1 DEF Ready
      <4> QED BY <1>1, <1>3, <2>7, <3>3, <4>1, <4>2 DEF call
    <3>7. CASE ~(uxPriority[x] > uxPriority[t])
      <4>1. uxPriority[t] > Base[t] BY <1>5, <2>8, <3>1, <3>3, <3>7
      <4>2. PICK u \in Task : Base[u] >= uxPriority[t] /\ Lender(u, k)
        BY <1>1, <1>2, <4>1 DEF Lent
      <4>3. ~In(u, q) BY <1>5, <2>5, <4>1, <4>2
      <4>4. u \in Ready /\ ticks[u] = "some" /\ inherited[u] /\ pc[u] # "run" BY <4>2, <4>3 DEF Lender
      <4>5. u # t BY <1>1, <4>4
      <4>6. uxPriority[u] = Base[u]
        <5>1. \A m \in Mutex : xMutexHolder[m] # u BY <1>1, <4>5
        <5> QED BY <5>1 DEF IInv, BaseRestored
      <4>7. uxPriority'[u] >= uxPriority'[x] BY <1>3, <1>5, <3>1, <3>3, <3>7, <4>2, <4>5, <4>6
      <4> QED BY <1>1, <2>7, <4>4, <4>7 DEF call
    <3> QED BY <3>6, <3>7
  <2> QED BY <1>4, <2>8 DEF RunsHighest
<1> QED BY <1>7, <1>8 DEF Give

LEMMA HighestTick ==
  ASSUME IInv, RunsHighest, NEW t \in Task, xTaskIncrementTick(t)
  PROVE  RunsHighest'
<1> SUFFICES ASSUME ~yield' PROVE RunsHighest' BY DEF RunsHighest
<1>1. /\ state' = [state EXCEPT ![t] = "ready"] /\ current' = current /\ call' = call /\ prio' = prio
      /\ yield' = (yield \/ uxPriority[t] >= PriorityOf(current) \/ Shared)
  BY DEF xTaskIncrementTick
<1>2. ~yield /\ ~(uxPriority[t] >= PriorityOf(current)) BY <1>1
<1>3. \A u \in Ready' : u \in Ready \/ u = t BY <1>1 DEF Ready, IInv, TypeOK
<1>4. \A u \in Ready : u \in Ready' BY <1>1 DEF Ready, IInv, TypeOK
<1>5. uxPriority[t] \in Nat /\ PriorityOf(current) \in Nat BY DEF PriorityOf, IInv, TypeOK
<1>6. ~(uxPriority[t] > PriorityOf(current)) BY <1>2, <1>5
<1>7. PriorityOf(current)' = PriorityOf(current) BY <1>1 DEF PriorityOf, prio
<1>8. ASSUME NEW x \in Ready', uxPriority[x] > PriorityOf(current)
      PROVE  \E u \in Ready' : uxPriority[u] >= uxPriority[x] /\ pc[u] # "run" /\ inherited[u] /\ ticks[u] = "some"
  <2>1. x \in Ready BY <1>3, <1>6, <1>8
  <2> QED BY <1>2, <1>4, <1>8, <2>1 DEF RunsHighest
<1> QED BY <1>1, <1>7, <1>8 DEF RunsHighest, call, prio

LEMMA HighestSwitch == ASSUME IInv, vTaskSwitchContext PROVE RunsHighest'
<1>1. /\ state' = state /\ prio' = prio
      /\ \/ Ready = {} /\ current' = None
         \/ current' \in {t \in Ready : \A u \in Ready : uxPriority[u] <= uxPriority[t]}
  BY DEF vTaskSwitchContext
<1>2. Ready' = Ready BY <1>1 DEF Ready
<1>3. ASSUME NEW x \in Ready PROVE ~(uxPriority'[x] > PriorityOf(current)')
  <2>1. PICK c \in Ready : c = current' /\ uxPriority[x] <= uxPriority[c] BY <1>1
  <2>2. c \in Task /\ x \in Task /\ c # None BY MutexAssumption DEF Ready
  <2>3. PriorityOf(current)' = uxPriority[c] BY <1>1, <2>1, <2>2 DEF PriorityOf, prio
  <2>4. uxPriority[c] \in Nat /\ uxPriority[x] \in Nat BY <2>2 DEF IInv, TypeOK
  <2> QED BY <1>1, <2>1, <2>3, <2>4 DEF prio
<1> QED BY <1>2, <1>3 DEF RunsHighest

LEMMA HighestInductive ==
  ASSUME NEW k, Mutex = {k}, IInv, IInv', Single(k), Lent(k), RunsHighest, [Next]_vars
  PROVE  RunsHighest'
<1>1. ASSUME NEW t \in Task, NEW m \in Mutex, NEW w \in Waits, Take(t, m, w) PROVE RunsHighest'
  <2>1. current = t /\ state' = state /\ uxPriority' = uxPriority /\ current' = current /\ yield' = yield
    BY <1>1 DEF Take, At, sched, prio
  <2>2. \A u \in Task : u # t => pc'[u] = pc[u] /\ ticks'[u] = ticks[u] /\ inherited'[u] = inherited[u]
    BY <1>1 DEF Take, IInv, TypeOK
  <2> QED BY <2>1, <2>2, HighestKept
<1>2. ASSUME NEW t \in Task, TryTake(t) \/ Expire(t) \/ CheckEmpty(t) PROVE RunsHighest'
  <2>1. current = t /\ state' = state /\ uxPriority' = uxPriority /\ current' = current /\ yield' = yield
    BY <1>2 DEF TryTake, Expire, CheckEmpty, At, sched, prio
  <2>2. \A u \in Task : u # t => pc'[u] = pc[u] /\ ticks'[u] = ticks[u] /\ inherited'[u] = inherited[u]
    <3>1. CASE Return(t) BY <3>1 DEF Return, IInv, TypeOK
    <3>2. CASE /\ \E p \in {"block", "expired", "try", "disinherit"} : Goto(t, p)
               /\ inherited' = inherited
      BY <3>2 DEF Goto, IInv, TypeOK
    <3> QED BY <1>2, <3>1, <3>2 DEF TryTake, Expire, CheckEmpty
  <2> QED BY <2>1, <2>2, HighestKept
<1>3. ASSUME NEW t \in Task, Block(t) PROVE RunsHighest'
  <2>1. CASE xMutexHolder[want[t]] # None
    <3>1. yield' BY <1>3, <2>1 DEF Block, vTaskPlaceOnEventList
    <3> QED BY <3>1 DEF RunsHighest
  <2>2. CASE xMutexHolder[want[t]] = None
    <3>1. current = t /\ state' = state /\ uxPriority' = uxPriority /\ current' = current /\ yield' = yield
      BY <1>3, <2>2 DEF Block, At, sched
    <3>2. \A u \in Task : u # t => pc'[u] = pc[u] /\ ticks'[u] = ticks[u] /\ inherited'[u] = inherited[u]
      BY <1>3, <2>2 DEF Block, Goto, IInv, TypeOK
    <3> QED BY <3>1, <3>2, HighestKept
  <2> QED BY <2>1, <2>2
<1>4. ASSUME NEW t \in Task, TimedOut(t) PROVE RunsHighest' BY <1>4, HighestTimedOut
<1>5. ASSUME NEW t \in Task, NEW m \in Mutex, Give(t, m) PROVE RunsHighest'
  BY <1>5, HighestGive DEF IInv
<1>6. ASSUME NEW t \in Task, Delay(t) PROVE RunsHighest'
  <2>1. yield' BY <1>6 DEF Delay
  <2> QED BY <2>1 DEF RunsHighest
<1>7. ASSUME NEW t \in Task, xTaskIncrementTick(t) PROVE RunsHighest' BY <1>7, HighestTick
<1>8. CASE Slice
  <2>1. yield' BY <1>8 DEF Slice
  <2> QED BY <2>1 DEF RunsHighest
<1>9. CASE vTaskSwitchContext BY <1>9, HighestSwitch
<1>10. CASE UNCHANGED vars
  BY <1>10 DEF RunsHighest, Ready, PriorityOf, vars, sched, call, prio
<1> QED BY <1>1, <1>2, <1>3, <1>4, <1>5, <1>6, <1>7, <1>8, <1>9, <1>10 DEF Next, Kernel

\* With one mutex the task that runs has the highest priority of all ready ones, but
\* while one whose wait for the mutex has expired has yet to finish its call, for any
\* number of tasks and priorities: the switch that a give asks for, from the woken
\* task alone, is enough otherwise.
THEOREM HighestRuns ==
  ASSUME NEW k, Mutex = {k} PROVE Spec => []RunsHighest
<1>1. Init => Single(k) BY SingleInit
<1>2. Init => Lent(k) BY DEF Init, Lent
<1>3. Init => RunsHighest BY DEF Init, RunsHighest
<1>4. IInv /\ IInv' /\ Single(k) /\ [Next]_vars => Single(k)' BY SingleInductive
<1>5. IInv /\ Single(k) /\ Lent(k) /\ [Next]_vars => Lent(k)' BY LentInductive
<1>6. IInv /\ IInv' /\ Single(k) /\ Lent(k) /\ RunsHighest /\ [Next]_vars => RunsHighest'
  BY HighestInductive
<1> QED BY <1>1, <1>2, <1>3, <1>4, <1>5, <1>6, AlwaysIInv, PTL DEF Spec
=============================================================================
