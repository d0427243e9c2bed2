------------------------------- MODULE Mutex -------------------------------
(***************************************************************************)
(* Mutexes of the FreeRTOS kernel (os/freertos/queue.c and tasks.c) under  *)
(* its preemptive scheduler with time slices (app/FreeRTOSConfig.h):       *)
(* xSemaphoreTake and xSemaphoreGive as the UART protocol uses them, the   *)
(* inheritance of priorities, timeouts of waits, vTaskDelay and the tick.  *)
(*                                                                         *)
(* One step is one critical section, or one section with the scheduler     *)
(* suspended, together with the code after it that touches only the task's *)
(* own variables.  Between two steps the tick may take the processor away; *)
(* once a context switch is asked for, nothing runs before it.             *)
(***************************************************************************)
EXTENDS Naturals, Sequences, FiniteSets

CONSTANTS
  Task, Mutex,
  Base,                 \* uxBasePriority of each task, above the idle task's 0
  Waits                 \* the block times that tasks use: "no", "some", "forever"

None == 0               \* no mutex, no task; as the current task: the idle task

ASSUME MutexAssumption == None \notin Task /\ None \notin Mutex
ASSUME FiniteAssumption == IsFiniteSet(Mutex)
ASSUME BaseAssumption  == Base \in [Task -> Nat \ {0}]
ASSUME WaitsAssumption == Waits \subseteq {"no", "some", "forever"}

VARIABLES
  current,              \* pxCurrentTCB
  yield,                \* a context switch has been asked for
  state,                \* the list that the task's state item is in
  pc,                   \* where the task is inside of xQueueSemaphoreTake
  want, ticks,          \* pxQueue and xTicksToWait of that call
  inherited,            \* its xInheritanceOccurred
  uxPriority, uxMutexesHeld,
  xMutexHolder,         \* of each mutex; it is free when None
  xTasksWaitingToReceive

sched == <<current, yield, state>>
call  == <<pc, want, ticks, inherited>>
prio  == <<uxPriority, uxMutexesHeld>>
vars  == <<sched, call, prio, xMutexHolder, xTasksWaitingToReceive>>

Init ==
  /\ current = None /\ yield = TRUE
  /\ state = [t \in Task |-> "ready"]
  /\ pc = [t \in Task |-> "run"]
  /\ want = [t \in Task |-> None] /\ ticks = [t \in Task |-> "no"]
  /\ inherited = [t \in Task |-> FALSE]
  /\ uxPriority = Base /\ uxMutexesHeld = [t \in Task |-> 0]
  /\ xMutexHolder = [m \in Mutex |-> None]
  /\ xTasksWaitingToReceive = [m \in Mutex |-> <<>>]

Ready == {t \in Task : state[t] = "ready"}
PriorityOf(t) == IF t = None THEN 0 ELSE uxPriority[t]

-----------------------------------------------------------------------------
\* Task t executes at pc p.
At(t, p) == current = t /\ ~yield /\ pc[t] = p

\* The call of t is over.
Return(t) ==
  /\ pc' = [pc EXCEPT ![t] = "run"]
  /\ want' = [want EXCEPT ![t] = None] /\ ticks' = [ticks EXCEPT ![t] = "no"]
  /\ inherited' = [inherited EXCEPT ![t] = FALSE]

Goto(t, p) == pc' = [pc EXCEPT ![t] = p] /\ UNCHANGED <<want, ticks>>

\* xSemaphoreTake(m, w): a mutex that the task holds already would never be free.
Take(t, m, w) ==
  /\ At(t, "run") /\ xMutexHolder[m] # t
  /\ pc' = [pc EXCEPT ![t] = "try"]
  /\ want' = [want EXCEPT ![t] = m] /\ ticks' = [ticks EXCEPT ![t] = w]
  /\ UNCHANGED <<sched, inherited, prio, xMutexHolder, xTasksWaitingToReceive>>

\* The critical section at the head of the loop.
TryTake(t) == LET m == want[t] IN
  /\ At(t, "try")
  /\ \/ /\ xMutexHolder[m] = None
        /\ xMutexHolder' = [xMutexHolder EXCEPT ![m] = t]
        /\ uxMutexesHeld' = [uxMutexesHeld EXCEPT ![t] = @ + 1]
        /\ Return(t)
     \/ /\ xMutexHolder[m] # None /\ ticks[t] = "no"
        /\ Return(t) /\ UNCHANGED <<xMutexHolder, uxMutexesHeld>>
     \/ /\ xMutexHolder[m] # None /\ ticks[t] # "no"
        /\ Goto(t, "block") /\ UNCHANGED <<inherited, xMutexHolder, uxMutexesHeld>>
  /\ UNCHANGED <<sched, uxPriority, xTasksWaitingToReceive>>

\* Mutant: the holder keeps its priority.
InheritNot(t, h) ==
  /\ inherited' = [inherited EXCEPT ![t] = uxPriority[h] < uxPriority[t] \/ Base[h] < uxPriority[t]]
  /\ UNCHANGED uxPriority

xTaskPriorityInherit(t, h) ==
  /\ inherited' = [inherited EXCEPT ![t] = uxPriority[h] < uxPriority[t] \/ Base[h] < uxPriority[t]]
  /\ uxPriority' = [uxPriority EXCEPT ![h] = IF @ < uxPriority[t] THEN uxPriority[t] ELSE @]

\* vListInsert with the item value configMAX_PRIORITIES - uxPriority: t comes
\* before the first waiter of a lower priority.
Passed(q, t, n) ==
  /\ \A j \in 1 .. n : uxPriority[q[j]] >= uxPriority[t]
  /\ n < Len(q) => uxPriority[q[n + 1]] < uxPriority[t]

InsertAfter(q, t, n) == [j \in 1 .. Len(q) + 1 |->
  IF j <= n THEN q[j] ELSE IF j = n + 1 THEN t ELSE q[j - 1]]

RemoveAt(q, i) == [j \in 1 .. Len(q) - 1 |-> IF j < i THEN q[j] ELSE q[j + 1]]

\* vTaskPlaceOnEventList; the scheduler is suspended until after it.
vTaskPlaceOnEventList(t, m) == LET q == xTasksWaitingToReceive[m] IN
  /\ \E n \in 0 .. Len(q) :
       /\ Passed(q, t, n)
       /\ xTasksWaitingToReceive' = [xTasksWaitingToReceive EXCEPT ![m] = InsertAfter(q, t, n)]
  /\ state' = [state EXCEPT ![t] = "blocked"]
  /\ yield' = TRUE /\ UNCHANGED current

\* Mutant: the task waits without another look at the mutex.
BlockAnyway(t) == LET m == want[t] IN
  /\ At(t, "block") /\ Goto(t, "try")
  /\ IF xMutexHolder[m] # None THEN xTaskPriorityInherit(t, xMutexHolder[m])
                               ELSE UNCHANGED <<inherited, uxPriority>>
  /\ vTaskPlaceOnEventList(t, m)
  /\ UNCHANGED <<uxMutexesHeld, xMutexHolder>>

\* The section with the scheduler suspended, when the wait has not expired.
Block(t) == LET m == want[t] IN
  /\ At(t, "block") /\ Goto(t, "try")
  /\ IF xMutexHolder[m] # None
     THEN xTaskPriorityInherit(t, xMutexHolder[m]) /\ vTaskPlaceOnEventList(t, m)
     ELSE UNCHANGED <<sched, inherited, uxPriority, xTasksWaitingToReceive>>
  /\ UNCHANGED <<uxMutexesHeld, xMutexHolder>>

\* The same section, when it has.
Expire(t) ==
  /\ At(t, "block") /\ ticks[t] = "some"
  /\ Goto(t, "expired")
  /\ UNCHANGED <<sched, inherited, prio, xMutexHolder, xTasksWaitingToReceive>>

\* prvIsQueueEmpty after the section.
CheckEmpty(t) ==
  /\ At(t, "expired")
  /\ \/ xMutexHolder[want[t]] = None /\ Goto(t, "try") /\ UNCHANGED inherited
     \/ xMutexHolder[want[t]] # None /\ inherited[t] /\ Goto(t, "disinherit") /\ UNCHANGED inherited
     \/ xMutexHolder[want[t]] # None /\ ~inherited[t] /\ Return(t)
  /\ UNCHANGED <<sched, prio, xMutexHolder, xTasksWaitingToReceive>>

\* prvGetDisinheritPriorityAfterTimeout
HighestWaiting(m) ==
  LET q == xTasksWaitingToReceive[m] IN IF q = <<>> THEN 0 ELSE uxPriority[q[1]]

Larger(a, b) == IF a < b THEN b ELSE a

\* Mutant: down to the base priority, whoever else waits.
DisinheritToBase(h, p) ==
  IF h # None /\ uxMutexesHeld[h] = 1
    THEN uxPriority' = [uxPriority EXCEPT ![h] = Base[h]]
    ELSE UNCHANGED uxPriority

vTaskPriorityDisinheritAfterTimeout(h, p) ==
  IF h # None /\ uxMutexesHeld[h] = 1
    THEN uxPriority' = [uxPriority EXCEPT ![h] = Larger(Base[h], p)]
    ELSE UNCHANGED uxPriority

TimedOut(t) == LET m == want[t] IN
  /\ At(t, "disinherit")
  /\ vTaskPriorityDisinheritAfterTimeout(xMutexHolder[m], HighestWaiting(m))
  /\ Return(t)
  /\ UNCHANGED <<sched, uxMutexesHeld, xMutexHolder, xTasksWaitingToReceive>>

\* Mutant: an inherited priority is kept for good.
DisinheritNot(t) ==
  /\ uxMutexesHeld' = [uxMutexesHeld EXCEPT ![t] = @ - 1]
  /\ UNCHANGED uxPriority

xTaskPriorityDisinherit(t) ==
  /\ uxMutexesHeld' = [uxMutexesHeld EXCEPT ![t] = @ - 1]
  /\ uxPriority' = [uxPriority EXCEPT ![t] = IF uxMutexesHeld[t] = 1 THEN Base[t] ELSE @]

\* Mutant: the woken task is compared before the priority is given back.
GiveEarly(t, m) == LET q == xTasksWaitingToReceive[m] IN
  /\ At(t, "run") /\ xMutexHolder[m] = t
  /\ xMutexHolder' = [xMutexHolder EXCEPT ![m] = None]
  /\ xTaskPriorityDisinherit(t)
  /\ \/ /\ q # <<>>
        /\ xTasksWaitingToReceive' = [xTasksWaitingToReceive EXCEPT ![m] = RemoveAt(q, 1)]
        /\ state' = [state EXCEPT ![q[1]] = "ready"]
        /\ yield' = (uxPriority[q[1]] > uxPriority[t])
     \/ /\ q = <<>> /\ yield' = (uxPriority'[t] # uxPriority[t])
        /\ UNCHANGED <<state, xTasksWaitingToReceive>>
  /\ UNCHANGED <<current, call>>

\* xSemaphoreGive(m): the head waiter becomes ready, and a switch is asked for if
\* its priority is above the giver's; with no waiter, if the giver has given its
\* priority back (xYieldRequired).
Give(t, m) == LET q == xTasksWaitingToReceive[m] IN
  /\ At(t, "run") /\ xMutexHolder[m] = t
  /\ xMutexHolder' = [xMutexHolder EXCEPT ![m] = None]
  /\ xTaskPriorityDisinherit(t)
  /\ \/ /\ q # <<>>
        /\ xTasksWaitingToReceive' = [xTasksWaitingToReceive EXCEPT ![m] = RemoveAt(q, 1)]
        /\ state' = [state EXCEPT ![q[1]] = "ready"]
        /\ yield' = (uxPriority[q[1]] > uxPriority'[t])
     \/ /\ q = <<>> /\ yield' = (uxPriority'[t] # uxPriority[t])
        /\ UNCHANGED <<state, xTasksWaitingToReceive>>
  /\ UNCHANGED <<current, call>>

\* vTaskDelay, or any other wait that something else ends.
Delay(t) ==
  /\ At(t, "run")
  /\ state' = [state EXCEPT ![t] = "delayed"]
  /\ yield' = TRUE
  /\ UNCHANGED <<current, call, prio, xMutexHolder, xTasksWaitingToReceive>>

\* Another ready task has the priority of the current one.
Shared == \E t \in Ready \ {current} : uxPriority[t] = PriorityOf(current)

\* A tick that ends no wait.
Slice ==
  /\ Shared /\ yield' = TRUE
  /\ UNCHANGED <<current, state, call, prio, xMutexHolder, xTasksWaitingToReceive>>

\* A tick ends the time of t.  When it ends those of several tasks, these are as
\* many steps before the switch.
xTaskIncrementTick(t) ==
  /\ \/ /\ state[t] = "delayed" /\ UNCHANGED xTasksWaitingToReceive
     \/ /\ state[t] = "blocked" /\ ticks[t] = "some"
        /\ LET q == xTasksWaitingToReceive[want[t]] IN \E i \in 1 .. Len(q) :
             /\ q[i] = t
             /\ xTasksWaitingToReceive' = [xTasksWaitingToReceive EXCEPT ![want[t]] = RemoveAt(q, i)]
  /\ state' = [state EXCEPT ![t] = "ready"]
  /\ yield' = (yield \/ uxPriority[t] >= PriorityOf(current) \/ Shared)
  /\ UNCHANGED <<current, call, prio, xMutexHolder>>

\* taskSELECT_HIGHEST_PRIORITY_TASK: tasks of the same priority take turns, in an
\* order that the model leaves open.
vTaskSwitchContext ==
  /\ yield /\ yield' = FALSE
  /\ \/ Ready = {} /\ current' = None
     \/ current' \in {t \in Ready : \A u \in Ready : uxPriority[u] <= uxPriority[t]}
  /\ UNCHANGED <<state, call, prio, xMutexHolder, xTasksWaitingToReceive>>

-----------------------------------------------------------------------------
\* The part of a call that runs without any further decision of the task.
Kernel(t) == TryTake(t) \/ Block(t) \/ Expire(t) \/ CheckEmpty(t) \/ TimedOut(t)

Next ==
  \/ \E t \in Task : \/ \E m \in Mutex, w \in Waits : Take(t, m, w)
                     \/ Kernel(t)
                     \/ \E m \in Mutex : Give(t, m)
                     \/ Delay(t)
                     \/ xTaskIncrementTick(t)
  \/ Slice
  \/ vTaskSwitchContext

Spec == Init /\ [][Next]_vars

\* The processor runs the current task, every delay ends, and a task that holds
\* a mutex and gets to run again and again gives it in the end.  Nothing is
\* assumed of the tasks that hold none: they may compute for ever.
FairSpec ==
  /\ Spec
  /\ WF_vars(vTaskSwitchContext)
  /\ \A t \in Task : /\ WF_vars(Kernel(t)) /\ WF_vars(xTaskIncrementTick(t))
                     /\ \A m \in Mutex : SF_vars(Give(t, m))

-----------------------------------------------------------------------------
(***************************************************************************)
(* Properties                                                              *)
(***************************************************************************)

TypeOK ==
  /\ current \in Task \union {None} /\ yield \in BOOLEAN
  /\ state \in [Task -> {"ready", "blocked", "delayed"}]
  /\ pc \in [Task -> {"run", "try", "block", "expired", "disinherit"}]
  /\ want \in [Task -> Mutex \union {None}] /\ ticks \in [Task -> {"no", "some", "forever"}]
  /\ inherited \in [Task -> BOOLEAN]
  /\ uxPriority \in [Task -> Nat] /\ uxMutexesHeld \in [Task -> Nat]
  /\ xMutexHolder \in [Mutex -> Task \union {None}]
  /\ xTasksWaitingToReceive \in [Mutex -> Seq(Task)]

\* A task that holds no mutex is back at its base priority: no timeout and no
\* order of calls leaves it with a priority it has inherited.
BaseRestored == \A t \in Task :
  (\A m \in Mutex : xMutexHolder[m] # t) => uxPriority[t] = Base[t]

\* While tasks wait for a free mutex, one that has been woken for it is on its
\* way to take it, even if its wait has expired meanwhile.
NoLostWakeup == \A m \in Mutex :
  xMutexHolder[m] = None /\ xTasksWaitingToReceive[m] # <<>> =>
    \E t \in Ready : want[t] = m /\ pc[t] \in {"try", "block", "expired"}

\* Nobody waits for a task of a lower priority.
HolderOutranks == \A m \in Mutex : xMutexHolder[m] # None =>
  \A i \in 1 .. Len(xTasksWaitingToReceive[m]) :
    uxPriority[xMutexHolder[m]] >= uxPriority[xTasksWaitingToReceive[m][i]]

\* The task that runs is one of the highest priority, unless the highest ready one
\* is a task that has lent its priority to a holder in a wait of limited time and
\* has yet to finish that call.
RunsHighest == ~yield => \A t \in Ready : uxPriority[t] > PriorityOf(current) =>
  \E u \in Ready : /\ uxPriority[u] >= uxPriority[t]
                   /\ pc[u] # "run" /\ inherited[u] /\ ticks[u] = "some"

\* The same without the exception (tasks.c:4003: a context switch should occur
\* when the last mutex is returned whether a task is waiting on it or not); the
\* code does not have it.
RunsHighestEver == ~yield => \A t \in Ready : uxPriority[t] <= PriorityOf(current)

\* A task that outranks all others and waits for a mutex for as long as it takes
\* gets it, however long tasks of a priority between its own and the holder's
\* compute.
TopGetsMutex == \A t \in Task :
  (\A u \in Task \ {t} : Base[u] < Base[t]) =>
    \A m \in Mutex : (want[t] = m /\ ticks[t] = "forever") ~> xMutexHolder[m] = t
=============================================================================
