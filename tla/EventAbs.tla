------------------------------ MODULE EventAbs ------------------------------
(***************************************************************************)
(* What library/event/event.h promises, without slots, marks and loops:    *)
(* events are created, raised by the main context or posted by interrupts, *)
(* the most urgent runnable one runs to completion, and only its own       *)
(* return or an explicit clear takes it from the runnable events.          *)
(***************************************************************************)
EXTENDS Integers

CONSTANTS
  Event,                \* the events that can be created
  None,                 \* no event
  Prios,                \* priorities, lower is more urgent
  PRIO_DEFAULT,         \* the priority of a new event
  withdraws             \* whether clients take back what interrupts posted

VARIABLES
  created,              \* events a client has created
  runnable,             \* events that are to be executed
  posted,               \* events raised by an interrupt, not yet runnable
  prio,                 \* priority of each event
  running               \* the event being executed, or None

vars == <<created, runnable, posted, prio, running>>

Init ==
  /\ created = {} /\ runnable = {} /\ posted = {}
  /\ prio = [e \in Event |-> PRIO_DEFAULT]
  /\ running = None

Create(e) ==
  /\ e \notin created
  /\ created' = created \cup {e}
  /\ prio' = [prio EXCEPT ![e] = PRIO_DEFAULT]
  /\ UNCHANGED <<runnable, posted, running>>

Raise(e) ==
  /\ e \in created
  /\ runnable' = runnable \cup {e}
  /\ UNCHANGED <<created, posted, prio, running>>

Post(e) ==
  /\ e \in created
  /\ posted' = posted \cup {e}
  /\ UNCHANGED <<created, runnable, prio, running>>

\* One of possibly several posts of e is taken.
Admit(e) ==
  /\ running = None
  /\ e \in posted
  /\ posted' \in {posted, posted \ {e}}
  /\ runnable' = runnable \cup {e}
  /\ UNCHANGED <<created, prio, running>>

Clear(e) ==
  /\ e \in runnable /\ e # running
  /\ runnable' = runnable \ {e}
  /\ UNCHANGED <<created, posted, prio, running>>

\* The client meant another event if interrupts post while it withdraws.
Withdraw(e) ==
  /\ withdraws
  /\ e \in posted
  /\ posted' = posted \ {e}
  /\ UNCHANGED <<created, runnable, prio, running>>

SetPriority(e, p) ==
  /\ e \in created
  /\ prio' = [prio EXCEPT ![e] = p]
  /\ UNCHANGED <<created, runnable, posted, running>>

Select(e) ==
  /\ running = None
  /\ e \in runnable
  /\ \A f \in runnable : prio[e] <= prio[f]
  /\ running' = e
  /\ UNCHANGED <<created, runnable, posted, prio>>

\* The processing function returns, with or without clearing its event.
Return ==
  /\ running # None
  /\ runnable' \in {runnable, runnable \ {running}}
  /\ running' = None
  /\ UNCHANGED <<created, posted, prio>>

Next ==
  \/ Return
  \/ \E e \in Event :
       \/ Create(e) \/ Raise(e) \/ Post(e) \/ Admit(e) \/ Clear(e) \/ Select(e)
       \/ Withdraw(e)
       \/ \E p \in Prios : SetPriority(e, p)

Spec == Init /\ [][Next]_vars
=============================================================================
