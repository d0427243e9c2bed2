-------------------------------- MODULE UDma --------------------------------
(***************************************************************************)
(* The DMA channels of arc/arc_udma.c, as built without an OS (the lock is *)
(* empty) and without UDMA_CHECK_ERRORS.  One main context calls the       *)
(* functions; the interrupts of the controller come between any two steps  *)
(* of it and are handled at once.                                          *)
(*                                                                         *)
(* A handle is a dma_channel_t.  A controller channel is off, on (enabled  *)
(* and waiting for a request), moving data or, when its descriptor asks    *)
(* for no interrupt, done or failed until the status register is polled.   *)
(***************************************************************************)
EXTENDS Integers, FiniteSets

CONSTANTS
  Handles,              \* the dma_channel_t structures
  DMA_ALL_CHANNEL_NUM,  \* CORE_DMAC_CHANNELS (2)
  NULL,                 \* no handle
  Usage                 \* what may happen in this instance, see UsageKinds

UsageKinds ==
  { "early_request",    \* a peripheral requests while its channel is started
    "check_idle" }      \* dmac_check_channel without a transfer to check

ASSUME ChannelAssumption == DMA_ALL_CHANNEL_NUM \in Nat \ {0}
ASSUME HandleAssumption  == NULL \notin Handles
ASSUME UsageAssumption   == Usage \subseteq UsageKinds

Channels == 0 .. DMA_ALL_CHANNEL_NUM - 1
DMA_CHN_INVALID == -2
Sources == {"soft", "peripheral"}      \* DMA_REQ_SOFT, DMA_REQ_PERIPHERAL

VARIABLES
  pc, cur,              \* where the main context is, and with which handle
  dma_chns,             \* g_dmac->dma_chns
  channel,              \* of every handle: DMA_CHN_INVALID without a channel
  source, status,       \* of every handle
  int_enable,           \* of every handle: was it started with a callback?
  hw,                   \* of every controller channel
  filled,               \* the descriptor of the current start is in place
  outcome               \* history: what became of the handle's last start

main    == <<pc, cur>>
handles == <<dma_chns, channel, source>>
vars    == <<main, handles, status, int_enable, hw, filled, outcome>>

Init ==
  /\ pc = "client" /\ cur = NULL
  /\ dma_chns = [c \in Channels |-> NULL]
  /\ channel = [h \in Handles |-> DMA_CHN_INVALID]
  /\ source = [h \in Handles |-> "soft"]
  /\ status = [h \in Handles |-> "IDLE"]
  /\ int_enable = [h \in Handles |-> FALSE]
  /\ hw = [c \in Channels |-> "off"]
  /\ filled = [c \in Channels |-> FALSE]
  /\ outcome = [h \in Handles |-> "none"]

InClient == pc = "client"
HasChannel(h) == channel[h] # DMA_CHN_INVALID

-----------------------------------------------------------------------------
(* Channels                                                                *)

\* Callers initialise a handle before they reserve a channel with it.
dmac_init_channel(h) ==
  /\ InClient /\ ~HasChannel(h)
  /\ source' = [source EXCEPT ![h] = "soft"]
  /\ status' = [status EXCEPT ![h] = "IDLE"]
  /\ UNCHANGED <<main, dma_chns, channel, int_enable, hw, filled, outcome>>

\* _dma_claim_channel
Claim(c, h, s) ==
  /\ dma_chns' = [dma_chns EXCEPT ![c] = h]
  /\ channel' = [channel EXCEPT ![h] = c]
  /\ source' = [source EXCEPT ![h] = s]
  /\ status' = [status EXCEPT ![h] = "IDLE"]
  /\ outcome' = [outcome EXCEPT ![h] = "none"]

\* Mutant: the channel may be taken.
ReserveTaken(h, c, s) ==
  /\ InClient /\ ~HasChannel(h)
  /\ Claim(c, h, s)
  /\ UNCHANGED <<main, int_enable, hw, filled>>

\* DMA_CHN_ANY takes the first free channel, which this includes.  Callers
\* reserve with a handle that was just initialised or released.
dmac_reserve_channel(h, c, s) ==
  /\ InClient /\ ~HasChannel(h)
  /\ dma_chns[c] = NULL
  /\ Claim(c, h, s)
  /\ UNCHANGED <<main, int_enable, hw, filled>>

\* Mutant: the channel is left enabled.
ReleaseEnabled(h) ==
  /\ InClient /\ HasChannel(h)
  /\ pc' = "release" /\ cur' = h
  /\ UNCHANGED <<handles, status, int_enable, hw, filled, outcome>>

\* dmac_release_channel turns the channel off before it forgets the handle.  A
\* transfer that was on its way leaves the status BUSY, until the handle is
\* reserved again.
ReleaseDisable(h) ==
  /\ InClient /\ HasChannel(h)
  /\ hw' = [hw EXCEPT ![channel[h]] = "off"]
  /\ pc' = "release" /\ cur' = h
  /\ UNCHANGED <<handles, status, int_enable, filled, outcome>>

ReleaseForget ==
  /\ pc = "release"
  /\ dma_chns' = [dma_chns EXCEPT ![channel[cur]] = NULL]
  /\ channel' = [channel EXCEPT ![cur] = DMA_CHN_INVALID]
  /\ outcome' = [outcome EXCEPT ![cur] = "none"]
  /\ pc' = "client" /\ cur' = NULL
  /\ UNCHANGED <<source, status, int_enable, hw, filled>>

-----------------------------------------------------------------------------
(* Transfers                                                               *)

\* dmac_start_channel up to _dmac_disable_channel
StartConfigure(h, cb) ==
  /\ InClient /\ HasChannel(h)
  /\ status[h] # "BUSY"
  /\ int_enable' = [int_enable EXCEPT ![h] = cb]
  /\ hw' = [hw EXCEPT ![channel[h]] = "off"]
  /\ filled' = [filled EXCEPT ![channel[h]] = FALSE]
  /\ outcome' = [outcome EXCEPT ![h] = "started"]
  /\ pc' = "enable" /\ cur' = h
  /\ UNCHANGED <<handles, status>>

StartEnable ==
  /\ pc = "enable"
  /\ hw' = [hw EXCEPT ![channel[cur]] = "on"]
  /\ pc' = "fill"
  /\ UNCHANGED <<cur, handles, status, int_enable, filled, outcome>>

\* _dmac_process_desc and _dmac_fill_descriptor
StartFill ==
  /\ pc = "fill"
  /\ filled' = [filled EXCEPT ![channel[cur]] = TRUE]
  /\ pc' = "busy"
  /\ UNCHANGED <<cur, handles, status, int_enable, hw, outcome>>

StartBusy ==
  /\ pc = "busy"
  /\ status' = [status EXCEPT ![cur] = "BUSY"]
  /\ pc' = "trigger"
  /\ UNCHANGED <<cur, handles, int_enable, hw, filled, outcome>>

\* Mutant: every channel is left to its peripheral.
StartNoTrigger ==
  /\ pc = "trigger"
  /\ pc' = "client" /\ cur' = NULL
  /\ UNCHANGED <<handles, status, int_enable, hw, filled, outcome>>

StartTrigger ==
  /\ pc = "trigger"
  /\ hw' = IF source[cur] = "soft" THEN [hw EXCEPT ![channel[cur]] = "moving"]
                                   ELSE hw
  /\ pc' = "client" /\ cur' = NULL
  /\ UNCHANGED <<handles, status, int_enable, filled, outcome>>

\* Mutant: the controller channel goes on.
StopEnabled(h) ==
  /\ InClient /\ HasChannel(h)
  /\ status' = [status EXCEPT ![h] = IF @ = "BUSY" THEN "STOP" ELSE @]
  /\ outcome' = [outcome EXCEPT ![h] = IF status[h] = "BUSY" THEN "stopped"
                                                           ELSE @]
  /\ UNCHANGED <<main, handles, int_enable, hw, filled>>

\* No interrupt of the channel can come between the two statements.
dmac_stop_channel(h) ==
  /\ InClient /\ HasChannel(h)
  /\ hw' = [hw EXCEPT ![channel[h]] = "off"]
  /\ status' = [status EXCEPT ![h] = IF @ = "BUSY" THEN "STOP" ELSE @]
  /\ outcome' = [outcome EXCEPT ![h] = IF status[h] = "BUSY" THEN "stopped"
                                                           ELSE @]
  /\ UNCHANGED <<main, handles, int_enable, filled>>

\* dmac_clear_channel enables the channel again without a transfer.
dmac_clear_channel(h) ==
  /\ InClient /\ HasChannel(h)
  /\ hw' = [hw EXCEPT ![channel[h]] = "on"]
  /\ status' = [status EXCEPT ![h] = "IDLE"]
  /\ outcome' = [outcome EXCEPT ![h] = "none"]
  /\ UNCHANGED <<main, handles, int_enable, filled>>

-----------------------------------------------------------------------------
(* Waiting                                                                 *)

\* _dmac_wait_channel
Polled(c) == CASE hw[c] = "done"   -> "IDLE"
               [] hw[c] = "failed" -> "ERROR"
               [] OTHER            -> "BUSY"

\* A handle without a callback is polled, whether or not it was started.
dmac_check_channel(h) ==
  /\ InClient /\ HasChannel(h)
  /\ ~int_enable[h]
  /\ \/ status[h] = "BUSY" \/ hw[channel[h]] \in {"done", "failed"}
     \/ "check_idle" \in Usage
  /\ status' = [status EXCEPT ![h] = Polled(channel[h])]
  /\ UNCHANGED <<main, handles, int_enable, hw, filled, outcome>>

WaitCall(h) ==
  /\ InClient /\ HasChannel(h)
  /\ pc' = "wait" /\ cur' = h
  /\ UNCHANGED <<handles, status, int_enable, hw, filled, outcome>>

\* One round of the loop of dmac_wait_channel.
WaitPoll ==
  /\ pc = "wait" /\ status[cur] = "BUSY"
  /\ status' = [status EXCEPT ![cur] = IF int_enable[cur] THEN @
                                       ELSE Polled(channel[cur])]
  /\ UNCHANGED <<main, handles, int_enable, hw, filled, outcome>>

WaitReturn ==
  /\ pc = "wait" /\ status[cur] # "BUSY"
  /\ pc' = "client" /\ cur' = NULL
  /\ UNCHANGED <<handles, status, int_enable, hw, filled, outcome>>

-----------------------------------------------------------------------------
(* The controller                                                          *)

\* A peripheral asks for its data to be moved: once it has been told to by its
\* driver, which starts the channel first, or with "early_request" as soon as
\* the channel is enabled.
PeripheralRequest(c) ==
  /\ hw[c] = "on"
  /\ source[dma_chns[c]] = "peripheral"
  /\ \/ status[dma_chns[c]] = "BUSY" /\ pc # "trigger"
     \/ "early_request" \in Usage
  /\ hw' = [hw EXCEPT ![c] = "moving"]
  /\ UNCHANGED <<main, handles, status, int_enable, filled, outcome>>

Ended(h, ok) ==
  outcome' = [outcome EXCEPT ![h] = IF @ # "started" THEN @
                                    ELSE IF ok THEN "ok" ELSE "failed"]

\* A transfer without an interrupt leaves its result in the status register.
EndsSilently(c, ok) ==
  /\ hw[c] = "moving"
  /\ ~int_enable[dma_chns[c]]
  /\ hw' = [hw EXCEPT ![c] = IF ok THEN "done" ELSE "failed"]
  /\ Ended(dma_chns[c], ok)
  /\ UNCHANGED <<main, handles, status, int_enable, filled>>

\* Mutant: the status is left to the callback.
InterruptOnlyCalls(c, ok) ==
  /\ hw[c] = "moving"
  /\ int_enable[dma_chns[c]]
  /\ hw' = [hw EXCEPT ![c] = "off"]
  /\ Ended(dma_chns[c], ok)
  /\ UNCHANGED <<main, handles, status, int_enable, filled>>

\* _dmac_interrupt_completed_channel and _dmac_interrupt_error_channel
Interrupt(c, ok) ==
  /\ hw[c] = "moving"
  /\ int_enable[dma_chns[c]]
  /\ hw' = [hw EXCEPT ![c] = "off"]
  /\ status' = [status EXCEPT ![dma_chns[c]] = IF ok THEN "IDLE" ELSE "ERROR"]
  /\ Ended(dma_chns[c], ok)
  /\ UNCHANGED <<main, handles, int_enable, filled>>

-----------------------------------------------------------------------------
Call(h) ==
  \/ dmac_init_channel(h) \/ ReleaseDisable(h)
  \/ \E c \in Channels, s \in Sources : dmac_reserve_channel(h, c, s)
  \/ \E cb \in BOOLEAN : StartConfigure(h, cb)
  \/ dmac_stop_channel(h) \/ dmac_clear_channel(h)
  \/ dmac_check_channel(h) \/ WaitCall(h)

Function ==
  \/ ReleaseForget
  \/ StartEnable \/ StartFill \/ StartBusy \/ StartTrigger
  \/ WaitPoll \/ WaitReturn

Controller(c) ==
  \/ PeripheralRequest(c)
  \/ \E ok \in BOOLEAN : EndsSilently(c, ok) \/ Interrupt(c, ok)

Next ==
  \/ \E h \in Handles : Call(h)
  \/ Function
  \/ \E c \in Channels : Controller(c)

Spec == Init /\ [][Next]_vars

\* The processor runs, peripherals request and transfers end.
FairSpec ==
  Spec /\ WF_vars(Function) /\ \A c \in Channels : WF_vars(Controller(c))

-----------------------------------------------------------------------------
(***************************************************************************)
(* Properties                                                              *)
(***************************************************************************)

TypeOK ==
  /\ pc \in {"client", "release", "enable", "fill", "busy", "trigger", "wait"}
  /\ cur \in Handles \cup {NULL}
  /\ dma_chns \in [Channels -> Handles \cup {NULL}]
  /\ channel \in [Handles -> Channels \cup {DMA_CHN_INVALID}]
  /\ source \in [Handles -> Sources]
  /\ status \in [Handles -> {"IDLE", "BUSY", "ERROR", "STOP"}]
  /\ int_enable \in [Handles -> BOOLEAN]
  /\ hw \in [Channels -> {"off", "on", "moving", "done", "failed"}]
  /\ filled \in [Channels -> BOOLEAN]
  /\ outcome \in [Handles -> {"none", "started", "ok", "failed", "stopped"}]

\* A channel that has a handle is that handle's channel, and the other way
\* round: an interrupt is never reported to a handle of another channel.
OwnsChannel ==
  \A h \in Handles, c \in Channels : dma_chns[c] = h <=> channel[h] = c

\* Nor to none: a channel that is not off has a handle, also in the middle of a
\* release, and the interrupt handlers dereference it without a test
\* (arc_udma.c:543, 558).
HandlerHasHandle == \A c \in Channels : hw[c] # "off" => dma_chns[c] # NULL

\* DMA_BUSY means "Still in transfer state" (arc_udma.h:475): a transfer is on
\* its way, or its result is there to be polled.  Else dmac_wait_channel never
\* returns and dmac_start_channel refuses for ever.
Releasing(h) == cur = h /\ pc = "release"
BusyMeansTransfer ==
  \A h \in Handles :
    HasChannel(h) /\ ~Releasing(h) /\ status[h] = "BUSY" =>
      \/ hw[channel[h]] = "moving"
      \/ hw[channel[h]] \in {"done", "failed"} /\ ~int_enable[h]
      \/ hw[channel[h]] = "on" /\ (source[h] = "peripheral" \/ pc = "trigger")

\* Every other status tells what became of the last start: IDLE of one that
\* ended well, ERROR of one that failed, STOP of one that was stopped.
Starting(h) == cur = h /\ pc \in {"enable", "fill", "busy"}
Tells == [none |-> "IDLE", ok |-> "IDLE", failed |-> "ERROR",
          stopped |-> "STOP", started |-> "BUSY"]
StatusTellsOutcome ==
  \A h \in Handles :
    HasChannel(h) /\ ~Starting(h) /\ status[h] # "BUSY"
      => status[h] = Tells[outcome[h]]

\* Data is moved only along the descriptor of the current start.  The order of
\* lines 750 to 753 keeps this as long as no request comes between them, and no
\* run checks it: under "early_request" it does not hold.
OwnDescriptor == \A c \in Channels : hw[c] = "moving" => filled[c]

\* Waiting for a channel ends (arc_udma.h:458).
WaitReturns == pc = "wait" ~> pc = "client"
=============================================================================
