------------------------------- MODULE Event -------------------------------
(***************************************************************************)
(* The run-to-completion event scheduler of library/event/event.c.         *)
(*                                                                         *)
(* One thread (the "main context") calls infra_evts_execute; the           *)
(* processing functions it runs, the idle callback and the code before and *)
(* after infra_evts_execute call the other functions of event.h.           *)
(* Interrupt handlers run between any two steps of the main context and    *)
(* call infra_evt_raise_ISR and infra_evts_abort.  A function of the main  *)
(* context that touches nothing an interrupt handler touches is one step;  *)
(* infra_evt_clear_ISR_pendingevent, which does, is one step per access.   *)
(***************************************************************************)
EXTENDS Integers, Sequences, SequencesExt

CONSTANTS
  INFRA_EVT_MAX,        \* slots of subs_events (64 in event.h)
  Prios,                \* the priorities clients assign
  PRIO_DEFAULT,         \* INFRA_EVT_PRIO_DEFAULT
  Deletable,            \* the events clients delete after creating them
  Usage                 \* what the clients of this instance do, see UsageKinds

(***************************************************************************)
(* The ways of using the interface that an instance can allow.  None is    *)
(* forbidden by event.h; the runs show which promise each of them costs.   *)
(***************************************************************************)
UsageKinds ==
  { "interrupt",        \* interrupt handlers raise events
    "delete_uncreated", \* a client deletes an event that is not created
    "raise_uncreated",  \* a client raises an event that is not created
    "raise_above",      \* a processing function raises a more urgent event
    "reprioritise",     \* the priority of a runnable event is changed
    "clear_isr",        \* infra_evt_clear_ISR_pendingevent is used
    "create_all" }      \* all INFRA_EVT_MAX events are created

ASSUME MaxAssumption   == INFRA_EVT_MAX \in Nat \ {0}
ASSUME PrioAssumption  == Prios \subseteq Nat /\ PRIO_DEFAULT \in Prios
ASSUME DeleteAssumption == Deletable \subseteq Nat
ASSUME UsageAssumption == Usage \subseteq UsageKinds

Idx    == 0 .. (INFRA_EVT_MAX - 1)
Evt    == Idx                          \* infra_evt_t of an allocated event
NoEvt  == INFRA_EVT_MAX                \* "no event", as infra_evt_create has it

VARIABLES
  subs_events,          \* the slots: runnable, then blocked, then free events
  pending_cnt,          \* subs_events_pending_cnt
  created_cnt,          \* subs_events_created_cnt
  prio,                 \* subs_event_list[].prio
  func,                 \* subs_event_list[].func
  raised_ISR,           \* subs_raised_events_ISR[0 .. cnt)
  executing,            \* subs_events_executing
  aborted,              \* subs_events_aborted
  pc,                   \* where the main context is
  running,              \* the event whose processing function is on the stack
  clr,                  \* infra_evt_clear_ISR_pendingevent: position and locals
  deleted,              \* history: events passed to infra_evt_delete
  owed,                 \* history: to be executed, see below
  risked,               \* history: owed, but lost if an interrupt had bad luck
  overrun               \* an index left the array subs_events

slots == <<subs_events, pending_cnt, created_cnt>>
vars  == <<subs_events, pending_cnt, created_cnt, prio, func, raised_ISR,
           executing, aborted, pc, running, clr, deleted, owed, risked,
           overrun>>

Runnable == {subs_events[i] : i \in {j \in Idx : j < pending_cnt}}
Created  == {subs_events[i] : i \in {j \in Idx : j < created_cnt}}
Posted   == {raised_ISR[i] : i \in DOMAIN raised_ISR}

(***************************************************************************)
(* owed: the events that were raised, or returned INFRA_EVT_RTN_NONE, and  *)
(* neither ran since nor were cleared (event.h:51-53, 83).                 *)
(* risked: the ones that an interrupt raised when the buffer was full or   *)
(* the main context was clearing an entry of it, until they are raised to  *)
(* the slots again or run.                                                 *)
(***************************************************************************)

\* Events that will run without being raised again: the return of the running
\* processing function may clear its own event.
Waiting == (Runnable \ {running}) \cup Posted

-----------------------------------------------------------------------------
(* Moves of one slot that keep the order of the others.                    *)

\* a[i] goes to j >= i, what lies between moves down one slot
MoveUp(a, i, j) ==
  [k \in DOMAIN a |-> IF k < i \/ k > j THEN a[k]
                      ELSE IF k = j THEN a[i] ELSE a[k + 1]]

\* a[i] goes to j <= i, what lies between moves up one slot
MoveDown(a, i, j) ==
  [k \in DOMAIN a |-> IF k < j \/ k > i THEN a[k]
                      ELSE IF k = j THEN a[i] ELSE a[k - 1]]

Swap(a, i, j) == [a EXCEPT ![i] = a[j], ![j] = a[i]]

LeastOf(S) == CHOOSE x \in S : \A y \in S : x <= y

\* Mutant: appended, not sorted in.
InsertSlotUnsorted(e) == pending_cnt

\* infra_evt_raise sorts e in from the back: everything behind is less urgent
InsertSlot(e) ==
  LeastOf({k \in 0 .. pending_cnt :
             \A j \in k .. (pending_cnt - 1) : prio[subs_events[j]] > prio[e]})

\* Mutant: the loop over the group ends at once.
GroupEndAtOnce == 1

\* end of the group that shares the priority of the first runnable event
GroupEnd ==
  LeastOf({h \in 1 .. pending_cnt :
             h = pending_cnt \/ prio[subs_events[h]] # prio[subs_events[0]]})

NoClear == [at |-> "none", evt |-> 0, h |-> 0]

-----------------------------------------------------------------------------
\* What prio and func hold of an event before infra_evt_create sets them (zero
\* in the code) plays no part unless an uncreated event runs.
Init ==
  /\ subs_events = [i \in Idx |-> i]
  /\ pending_cnt = 0 /\ created_cnt = 0
  /\ prio = [e \in Evt |-> PRIO_DEFAULT]
  /\ func = [e \in Evt |-> "default_processing"]
  /\ raised_ISR = <<>>
  /\ executing = FALSE /\ aborted = FALSE
  /\ pc = "stopped" /\ running = NoEvt
  /\ clr = NoClear
  /\ deleted = {} /\ owed = {} /\ risked = {}
  /\ overrun = FALSE

\* The main context is in client code: outside infra_evts_execute, in a
\* processing function a client registered, or in the idle callback.
InClient ==
  /\ clr.at = "none"
  /\ \/ pc \in {"stopped", "idle"}
     \/ pc = "callback" /\ func[running] = "client"

\* The events a client may name: those it has and, if allowed, any other.
Known == Created \ deleted

-----------------------------------------------------------------------------
(* Functions of event.h called by the main context.                        *)

infra_evt_create ==
  /\ InClient
  /\ created_cnt # INFRA_EVT_MAX
  /\ "create_all" \in Usage \/ created_cnt + 1 < INFRA_EVT_MAX
  /\ LET idx == subs_events[created_cnt] IN
       /\ prio' = [prio EXCEPT ![idx] = PRIO_DEFAULT]
       /\ func' = [func EXCEPT ![idx] = "default_processing"]
  /\ created_cnt' = created_cnt + 1
  /\ UNCHANGED <<subs_events, pending_cnt, raised_ISR, executing, aborted, pc,
                 running, clr, deleted, owed, risked, overrun>>

\* The guard of the code is h >= created_cnt: a created event is left as it
\* is, and for any other one the shift starts behind its end mark
\* created_cnt - 1, runs to the end of the array and goes on from there.
infra_evt_delete(e) ==
  /\ InClient
  /\ \/ e \in Known \cap Deletable
     \/ e \notin Created /\ "delete_uncreated" \in Usage
  /\ \E h \in Idx :
       /\ subs_events[h] = e
       /\ overrun' = (overrun \/ ((h # 0 \/ ~executing) /\ h >= created_cnt))
  /\ deleted' = deleted \cup ({e} \cap Created)
  /\ UNCHANGED <<slots, prio, func, raised_ISR, executing, aborted, pc,
                 running, clr, owed, risked>>

\* The slots the search of infra_evt_raise compares; INFRA_EVT_MAX is the
\* one behind the array.  The slot at created_cnt is compared as well.
RaiseScan ==
  pending_cnt .. (IF pending_cnt <= created_cnt THEN created_cnt
                                                ELSE INFRA_EVT_MAX)

\* The body of infra_evt_raise.
RaiseSlots(e) ==
  \/ \E h \in RaiseScan \cap Idx :
       /\ subs_events[h] = e
       /\ subs_events' = MoveDown(Swap(subs_events, h, pending_cnt),
                                  pending_cnt, InsertSlot(e))
       /\ pending_cnt' = pending_cnt + 1
       /\ UNCHANGED <<created_cnt, overrun>>
  \/ /\ \A h \in RaiseScan \cap Idx : subs_events[h] # e
     /\ overrun' = (overrun \/ INFRA_EVT_MAX \in RaiseScan)
     /\ UNCHANGED slots

infra_evt_raise(e) ==
  /\ InClient
  /\ e \in Known \/ (e \notin Created /\ "raise_uncreated" \in Usage)
  /\ pc = "callback" /\ "raise_above" \notin Usage => prio[running] <= prio[e]
  /\ RaiseSlots(e)
  /\ owed' = owed \cup (({e} \cap Created) \ {running})
  /\ risked' = risked \ ({e} \ {running})
  /\ UNCHANGED <<prio, func, raised_ISR, executing, aborted, pc, running, clr,
                 deleted>>

\* Mutant: the wrong mark moves.
ClearPendingWrongMark(idx) ==
  /\ subs_events' = MoveUp(subs_events, idx, pending_cnt - 1)
  /\ created_cnt' = created_cnt - 1
  /\ UNCHANGED pending_cnt

\* subs_clear_pending(idx)
subs_clear_pending(idx) ==
  /\ subs_events' = MoveUp(subs_events, idx, pending_cnt - 1)
  /\ pending_cnt' = pending_cnt - 1
  /\ UNCHANGED created_cnt

\* Mutant: the running event may be cleared.
ClearEvenRunning(e) ==
  /\ InClient
  /\ e \in Known
  /\ \E h \in Idx : /\ h < pending_cnt /\ subs_events[h] = e
                   /\ subs_clear_pending(h)
  /\ owed' = owed \ ({e} \ Posted)
  /\ UNCHANGED <<prio, func, raised_ISR, executing, aborted, pc, running, clr,
                 deleted, risked, overrun>>

infra_evt_clear(e) ==
  /\ InClient
  /\ e \in Known
  /\ \E h \in Idx :
       /\ h < pending_cnt /\ subs_events[h] = e
       /\ h # 0 \/ ~executing
       /\ subs_clear_pending(h)
  /\ owed' = owed \ ({e} \ Posted)
  /\ UNCHANGED <<prio, func, raised_ISR, executing, aborted, pc, running, clr,
                 deleted, risked, overrun>>

infra_evt_set_priority(e, p) ==
  /\ InClient
  /\ e \in Known
  /\ e \notin Runnable \/ "reprioritise" \in Usage
  /\ prio' = [prio EXCEPT ![e] = p]
  /\ UNCHANGED <<slots, func, raised_ISR, executing, aborted, pc, running, clr,
                 deleted, owed, risked, overrun>>

infra_evt_set_callback(e) ==
  /\ InClient
  /\ e \in Known
  /\ func' = [func EXCEPT ![e] = "client"]
  /\ UNCHANGED <<slots, prio, raised_ISR, executing, aborted, pc, running, clr,
                 deleted, owed, risked, overrun>>

-----------------------------------------------------------------------------
(* infra_evt_clear_ISR_pendingevent: no lock is taken, so an interrupt     *)
(* handler may append to raised_ISR between any two of its steps.          *)

ClearISRScan(e) ==
  /\ "clear_isr" \in Usage
  /\ InClient
  /\ e \in Known
  /\ clr' = [at |-> "test", evt |-> e,
             h |-> LeastOf({i \in 1 .. Len(raised_ISR) + 1 :
                              i = Len(raised_ISR) + 1 \/ raised_ISR[i] = e})]
  /\ UNCHANGED <<slots, prio, func, raised_ISR, executing, aborted, pc,
                 running, deleted, owed, risked, overrun>>

\* The test reads the count again: an entry appended since is taken for evt.
ClearISRTest ==
  /\ clr.at = "test"
  /\ clr' = IF clr.h <= Len(raised_ISR) THEN [clr EXCEPT !.at = "shift"]
                                         ELSE NoClear
  /\ UNCHANGED <<slots, prio, func, raised_ISR, executing, aborted, pc,
                 running, deleted, owed, risked, overrun>>

ClearISRShift ==
  /\ clr.at = "shift"
  /\ raised_ISR' = [i \in DOMAIN raised_ISR |->
                      IF i < clr.h \/ i = Len(raised_ISR)
                        THEN raised_ISR[i] ELSE raised_ISR[i + 1]]
  /\ clr' = [NoClear EXCEPT !.at = "decrement"]
  /\ LET others == {raised_ISR[i] : i \in DOMAIN raised_ISR \ {clr.h}}
     IN  owed' = owed \ ({clr.evt} \ (others \cup (Runnable \ {running})))
  /\ UNCHANGED <<slots, prio, func, executing, aborted, pc, running, deleted,
                 risked, overrun>>

ClearISRDecrement ==
  /\ clr.at = "decrement"
  /\ raised_ISR' = Front(raised_ISR)
  /\ clr' = NoClear
  /\ UNCHANGED <<slots, prio, func, executing, aborted, pc, running, deleted,
                 owed, risked, overrun>>

-----------------------------------------------------------------------------
(* Interrupt handlers.                                                     *)

\* A full buffer drops the event and tells nobody.
infra_evt_raise_ISR(e) ==
  /\ "interrupt" \in Usage
  /\ e \in Known \/ (e \notin Created /\ "raise_uncreated" \in Usage)
  /\ raised_ISR' = IF Len(raised_ISR) < INFRA_EVT_MAX
                     THEN Append(raised_ISR, e) ELSE raised_ISR
  /\ owed' = owed \cup ({e} \cap Created)
  /\ risked' = IF \/ clr.at # "none"
                    \/ (Len(raised_ISR) = INFRA_EVT_MAX /\ e \notin Posted)
                 THEN risked \cup ({e} \ (Runnable \ {running})) ELSE risked
  /\ UNCHANGED <<slots, prio, func, executing, aborted, pc, running, clr,
                 deleted, overrun>>

\* Called by the main context as well as by interrupt handlers.
infra_evts_abort ==
  /\ aborted' = TRUE
  /\ UNCHANGED <<slots, prio, func, raised_ISR, executing, pc, running, clr,
                 deleted, owed, risked, overrun>>

-----------------------------------------------------------------------------
(* infra_evts_execute                                                      *)

Execute ==
  /\ pc = "stopped" /\ clr.at = "none"
  /\ aborted' = FALSE
  /\ pc' = "loop"
  /\ UNCHANGED <<slots, prio, func, raised_ISR, executing, running, clr,
                 deleted, owed, risked, overrun>>

\* Mutant: the scheduler stops only when nothing is runnable.
LoopTestLate ==
  /\ pc = "loop"
  /\ pc' = IF aborted /\ pending_cnt = 0 THEN "stopped" ELSE "drain"
  /\ UNCHANGED <<slots, prio, func, raised_ISR, executing, aborted, running,
                 clr, deleted, owed, risked, overrun>>

LoopTest ==
  /\ pc = "loop"
  /\ pc' = IF aborted THEN "stopped" ELSE "drain"
  /\ UNCHANGED <<slots, prio, func, raised_ISR, executing, aborted, running,
                 clr, deleted, owed, risked, overrun>>

\* Mutant: one entry is raised, the count is reset.
DrainAll ==
  /\ pc = "drain"
  /\ raised_ISR # <<>>
  /\ raised_ISR' = <<>>
  /\ RaiseSlots(Last(raised_ISR))
  /\ UNCHANGED <<prio, func, executing, aborted, pc, running, clr, deleted,
                 owed, risked>>

\* Interrupts are locked out: the newest entry is taken and raised at once.
DrainOne ==
  /\ pc = "drain"
  /\ raised_ISR # <<>>
  /\ raised_ISR' = Front(raised_ISR)
  /\ RaiseSlots(Last(raised_ISR))
  /\ risked' = risked \ {Last(raised_ISR)}
  /\ UNCHANGED <<prio, func, executing, aborted, pc, running, clr, deleted,
                 owed>>

DrainDone ==
  /\ pc = "drain"
  /\ raised_ISR = <<>>
  /\ pc' = "pick"
  /\ UNCHANGED <<slots, prio, func, raised_ISR, executing, aborted, running,
                 clr, deleted, owed, risked, overrun>>

PickEvent ==
  /\ pc = "pick"
  /\ pending_cnt > 0
  /\ executing' = TRUE
  /\ running' = subs_events[0]
  /\ pc' = "callback"
  /\ owed' = owed \ ({subs_events[0]} \ Posted)
  /\ risked' = risked \ {subs_events[0]}
  /\ UNCHANGED <<slots, prio, func, raised_ISR, aborted, clr, deleted, overrun>>

PickIdle ==
  /\ pc = "pick"
  /\ pending_cnt = 0
  /\ executing' = FALSE
  /\ pc' = "idle"
  /\ UNCHANGED <<slots, prio, func, raised_ISR, aborted, running, clr, deleted,
                 owed, risked, overrun>>

\* The processing function returns INFRA_EVT_RTN_NONE: subs_proc_rtn_none
ReturnNone ==
  /\ pc = "callback" /\ clr.at = "none"
  /\ func[running] = "client"
  /\ subs_events' = MoveUp(subs_events, 0, GroupEnd - 1)
  /\ running' = NoEvt
  /\ pc' = "loop"
  /\ owed' = owed \cup {running}
  /\ UNCHANGED <<pending_cnt, created_cnt, prio, func, raised_ISR, executing,
                 aborted, clr, deleted, risked, overrun>>

\* The processing function returns INFRA_EVT_RTN_CLEAR: subs_proc_rtn_clear
ReturnClear ==
  /\ pc = "callback" /\ clr.at = "none"
  /\ subs_clear_pending(0)
  /\ running' = NoEvt
  /\ pc' = "loop"
  /\ UNCHANGED <<prio, func, raised_ISR, executing, aborted, clr, deleted,
                 owed, risked, overrun>>

IdleReturn ==
  /\ pc = "idle" /\ clr.at = "none"
  /\ pc' = "loop"
  /\ UNCHANGED <<slots, prio, func, raised_ISR, executing, aborted, running,
                 clr, deleted, owed, risked, overrun>>

-----------------------------------------------------------------------------
Client ==
  \/ infra_evt_create
  \/ \E e \in Evt :
       \/ infra_evt_delete(e) \/ infra_evt_raise(e) \/ infra_evt_clear(e)
       \/ infra_evt_set_callback(e) \/ ClearISRScan(e)
       \/ \E p \in Prios : infra_evt_set_priority(e, p)

ClearISR == ClearISRTest \/ ClearISRShift \/ ClearISRDecrement

Interrupt == infra_evts_abort \/ \E e \in Evt : infra_evt_raise_ISR(e)

Scheduler ==
  \/ LoopTest \/ DrainOne \/ DrainDone \/ PickEvent \/ PickIdle
  \/ ReturnNone \/ ReturnClear \/ IdleReturn

\* Nothing is said of what the program does after an index left the array.
Next == ~overrun /\ (Client \/ ClearISR \/ Interrupt \/ Execute \/ Scheduler)

Spec == Init /\ [][Next]_vars

(***************************************************************************)
(* The processor executes the main context.  A processing function and the *)
(* idle callback return (event.h:78 "runs to completion"), however often   *)
(* they call infra_evt_clear_ISR_pendingevent, within which they cannot.   *)
(* Strong fairness of leaving the drain loop says that interrupts do not   *)
(* refill raised_ISR for ever exactly when it has been emptied.            *)
(***************************************************************************)
Fairness ==
  /\ WF_vars(~overrun /\ ClearISR)
  /\ WF_vars(~overrun /\ (LoopTest \/ DrainOne \/ PickEvent \/ PickIdle))
  /\ SF_vars(~overrun /\ (ReturnNone \/ ReturnClear \/ IdleReturn))
  /\ SF_vars(~overrun /\ DrainDone)

FairSpec == Spec /\ Fairness
-----------------------------------------------------------------------------
(***************************************************************************)
(* Properties                                                              *)
(***************************************************************************)

\* The variables have their types, the slots stay a permutation of the events
\* and the marks stay in order (event.c:52-57).
TypeOK ==
  /\ subs_events \in [Idx -> Evt]
  /\ \A i, j \in Idx : subs_events[i] = subs_events[j] => i = j
  /\ pending_cnt \in 0 .. created_cnt /\ created_cnt \in 0 .. INFRA_EVT_MAX
  /\ prio \in [Evt -> Prios]
  /\ func \in [Evt -> {"default_processing", "client"}]
  /\ raised_ISR \in Seq(Evt) /\ Len(raised_ISR) <= INFRA_EVT_MAX
  /\ executing \in BOOLEAN /\ aborted \in BOOLEAN
  /\ pc \in {"stopped", "loop", "drain", "pick", "callback", "idle"}
  /\ running \in Evt \cup {NoEvt}
  /\ clr \in [at : {"none", "test", "shift", "decrement"}, evt : Evt, h : Nat]
  /\ deleted \subseteq Evt /\ owed \subseteq Evt /\ risked \subseteq Evt
  /\ overrun \in BOOLEAN

\* No index leaves subs_events (event.h:90: at most INFRA_EVT_MAX events can
\* be allocated, so the table is never too small).
NoOverrun == ~overrun

\* Only the processing function of a created event runs: raising an event
\* that was not created "simply returns" (event.h:57).  With such raises
\* (Usage "raise_uncreated") the code breaks it, as RaiseScan also compares
\* the slot behind the created events (event.c:124-130).
OnlyCreatedRuns == pc = "callback" => running \in Created

\* While a processing function runs, its event is the first runnable one;
\* subs_proc_rtn_none, subs_proc_rtn_clear and the "cannot clear running
\* event" test of infra_evt_clear all take slot 0 for the running event.
RunningIsFirst == pc = "callback" => pending_cnt > 0 /\ subs_events[0] = running

\* The runnable slots are sorted by priority (event.c:53).
RunnableSorted ==
  \A i, j \in Idx : i <= j /\ j < pending_cnt
                      => prio[subs_events[i]] <= prio[subs_events[j]]

\* The scheduler selects a runnable event of the lowest priority number
\* (event.h:70, 94).
SelectsLowest ==
  [][ PickEvent => \A f \in Runnable : prio[running'] <= prio[f] ]_vars

\* When its processing function returns INFRA_EVT_RTN_CLEAR the event is not
\* runnable any more, and every other runnable event still is (event.h:81).
ClearsItself == [][ ReturnClear => Runnable' = Runnable \ {running} ]_vars

\* A raised event that was neither executed since nor cleared still waits, in
\* the runnable slots or in the interrupt buffer.  This is what event.h:51-53
\* says without an exception; the code makes two, see LostOnlyAtRisk.
NoLostEvent == owed \subseteq Waiting

\* An event is lost in two ways only: an interrupt raised it into a full buffer
\* (event.c:151), or while the main context was removing an entry from that
\* buffer without a lock (event.c:176-199).  Neither loses an event that was
\* raised before.
LostOnlyAtRisk == owed \subseteq Waiting \cup risked

\* An event that was deleted without being the running one is de-allocated
\* (event.h:44): it is not created any more.
DeleteDeallocates == deleted \cap Created \subseteq {running}

\* Interrupts do not keep raised_ISR non-empty for ever while it is drained:
\* the drain loop takes the newest entry first and has no other bound.
InterruptsPause == []<>(pc = "drain" => raised_ISR = <<>>)

\* infra_evts_abort makes infra_evts_execute return (event.h:98).
AbortStops ==
  InterruptsPause => ((aborted /\ pc # "stopped") ~> (pc = "stopped"))

\* Runnable events of one priority share the processor (event.h:71): an event
\* that stays runnable with nothing more urgent ever ready runs for ever again.
Foremost(e) ==
  /\ pc # "stopped"
  /\ e \in Runnable
  /\ \A f \in Runnable : prio[e] <= prio[f]
SharesPriority ==
  InterruptsPause => \A e \in Evt : <>[]Foremost(e) => []<>(running = e)

\* The array of slots implements an order-free scheduler.
Abs == INSTANCE EventAbs WITH
         Event     <- Evt,
         None      <- NoEvt,
         created   <- Created,
         runnable  <- Runnable,
         posted    <- Posted,
         withdraws <- "clear_isr" \in Usage
ImplementsAbs == Abs!Spec
=============================================================================
