# Models and proofs of the Himax AIoT WiFi G1 SDK

TLA+ models of the parts of the SDK whose correctness depends on the order of
things: the event scheduler, the DMA channels, the SPI and UART links, the
result stream over WiFi, the example application on top of them, the mutexes of
the kernel it can be built with, and the arithmetic that rescales its images.
TLC checks them on small instances, TLAPS proves the most important theorems
for every value of the constants.
`PROJECT.json` maps every definition to the lines it models, and lists all
components, hazards, runs and theorems.

## The system

The firmware runs on one ARC EM core. Without an operating system there is one
*main context* and the interrupt handlers, which come between any two of its
steps. Most drivers are libraries without source; only their headers are here.

| component | state | operations | talks to | hard because |
|---|---|---|---|---|
| event scheduler, `library/event` | slots `subs_events` with two marks, priorities, interrupt buffer, abort and executing flags | create, delete, raise, raise from an interrupt, clear, set priority or callback, execute, abort | clients through callbacks, interrupt handlers through the buffer | re-entrant calls from processing functions, interrupts, array arithmetic at the marks |
| uDMA channels, `arc/arc_udma.c` | channel table, per handle status and callback | init, reserve, start, stop, clear, check, wait, release, two interrupt handlers | SPI drivers; the controller | completion interrupts race starting, stopping and polling |
| SPI slave protocol, `spi_slave_protocol.c` | busy flag, handshake pin, driver transfer; for reads a flag, a header buffer and a position | three writes, halt, `read_simple`, two callbacks | the host, the driver, uDMA | timeout races completion; late callbacks; transfers that earlier calls left |
| SPI master protocol, `spi_master_protocol.c` | two busy flags, shared header buffer | three writes, halt, read, registered callbacks, flash access | the slave, the driver | as above, and writes nested inside the completion interrupt |
| UART protocol, `uart_protocol.c` | transmit flag, mutex | chunked send | the driver, other tasks | timeouts, mutex released under one OS only |
| result stream, `aiot_example/app_main.c`, `app_wifi.c`, `tools/tcp_server_example` | position in frame and chunk; the server's position in header and content | connect, send a frame, send a chunk; receive, parse, resynchronise, show | WiFi module, TCP connection | a byte stream cut twice in different places, failed writes |
| I2C commands and OTA, `app_i2c.c`, `ota_update.c` | one command buffer and its flag | poll, jump to upgrade | I2C library, uDMA | a reset while transfers run |
| example application, `app_main.c`, `app_api.c` | one image, one result | capture, run the algorithm, send four times | all of the above | one buffer shared by producer and senders |
| processor access: `arc_exception.c`, `arc_timer.c`, `sysconf.c`, caches, MPU | hardware registers | read, modify, write | everything | select-then-access pairs are not atomic |
| person detection, `tflitemicro_algo.cc` | place in the input, window of four pixels | rescale, run the network | the application | fixed point arithmetic at the edge of the image |
| FreeRTOS, `os/freertos` | running task, states, priorities, holders, lists of waiting tasks | take and give a mutex, delay, tick, switch | UART protocol | inheritance of priorities against timeouts, wakeups |
| FreeRTOS port, TensorFlow Lite | - | - | - | third-party code, not modelled |

What makes each correct:

* *scheduler*: a raised event runs, unless an interrupt raised it into a full buffer
  or while the buffer was being cleared, the two ways in which the code loses one; the most urgent runnable event runs;
  events of one priority take turns; only its own return or an explicit clear
  takes an event away; no index leaves the array; abort ends it.
* *uDMA*: an interrupt meets the handle that owns the channel; the status tells
  what became of the last start; data moves along the right descriptor; a wait
  ends.
* *SPI links*: success means sent; a write that has returned leaves no transfer,
  pin or flag behind; every write returns.
* *SPI slave reads*: success means that every announced byte is in place; the
  driver writes nothing else.
* *UART*: as the SPI links, a message goes out in one piece, and the mutex is free
  again.
* *mutexes*: no wakeup is lost; a lent priority is given back, neither early nor
  late; the most urgent task is not kept from its mutex by tasks of a priority
  in between.
* *application*: memory is not changed while a driver reads it; image and result
  belong together; no command is lost; the reset waits for the links.
* *rescaling*: no read outside of the image, no pixel outside of its neighbours.
* *result stream*: the host shows the frames that were sent, whole and in order,
  and keeps showing them; after a disturbance it finds the next frame.

## Modules

| module | models | checked with | proved in |
|---|---|---|---|
| `Event` | `library/event/event.c`, all of it | `MCEvent` | `EventProofs` |
| `EventAbs` | the promises of `event.h`, without slots and marks | as a property of `Event` | `EventProofs` |
| `UDma` | `arc/arc_udma.c` without an OS | `MCUDma` | `UDmaProofs` |
| `Transfer` | what a blocking write promises, whichever protocol makes it | as a property of `SpiSlave` and `SpiMaster` | their proofs |
| `SpiSlave` | the writes of `spi_slave_protocol.c` | `MCSpiSlave` | `AiotAppProofs` |
| `SpiRead` | `read_simple` of the same file | `MCSpiRead` | `SpiReadProofs` |
| `SpiMaster` | `spi_master_protocol.c` without the flash functions | `MCSpiMaster` | `SpiMasterProofs` |
| `Uart` | `uart_protocol.c` | `MCUart` | `UartProofs` |
| `Mutex` | mutexes and scheduling of FreeRTOS, `queue.c`, `tasks.c` | `MCMutex` | `MutexProofs` |
| `WifiStream` | `app_main.c`, `app_wifi.c` and the example server | `MCWifi` | `WifiStreamProofs` |
| `AiotApp` | `app_main.c`, `app_api.c`, `app_i2c.c`, `ota_update.c`, with `SpiSlave` inside | `MCAiotApp` | `AiotAppProofs` |
| `Rescale` | `fd_rescale` of `tflitemicro_algo.cc` | `MCRescale` | `AiotAppProofs` |

An MC module adds nothing but values for constants. Definitions whose comment
begins with "Mutant" are not part of a specification: they are the mistakes
that each property is shown to find, by putting them in the place of the
definition that follows.

### Event

The slots are a function `subs_events` from indices to events; slots before
`pending_cnt` are runnable, those before `created_cnt` created. Each function
that touches nothing an interrupt handler touches is one action. The scheduler
loop is cut at `pc`: test of the abort flag (`loop`), one entry of the interrupt
buffer under the lock (`drain`), choice of slot 0 (`pick`), the processing
function (`callback`, in which any client call may come), its return, and the
idle callback (`idle`). `infra_evt_clear_ISR_pendingevent`, which shifts the
buffer without a lock, takes one action per access. `infra_evt_raise_ISR` is the
whole handler: into a full buffer it stores nothing and returns all the same.
`owed` is a history of the events that must still run, a dropped one included; `risked`
marks those among them that an interrupt raised into a full buffer, or while the
main context was clearing an entry. Loops over slots are
written as the set of positions they search: `InsertSlot` is the least position
behind which everything is less urgent, `GroupEnd` the end of the first group
of equal priority.

`Usage` names ways of using the interface that `event.h` allows but that cost a
promise: raising a more urgent event from a processing function, changing the
priority of a runnable event, clearing the buffer without a lock, touching events
that are not created, creating all events. `Deletable` are the events that clients
delete. A run or a theorem says which of them it includes.

### UDma

A handle is a `dma_channel_t`. A controller channel is `off`, `on` (enabled,
waiting for a request), `moving`, and without an interrupt afterwards `done` or
`failed` until it is polled. `dmac_start_channel` is cut wherever an interrupt
could tell the difference: disabled, enabled (line 750), descriptor filled in
(753), status set (754), triggered (759). Waiting is a loop of polls. The
interrupt handlers clear the interrupt, disable the channel and set the status
in one action, as interrupts do not nest. Callers are assumed to do what the
protocols in `src/platform` do: they use a handle between reserving and
releasing a channel, and initialise it before reserving. `Usage` holds two
liberties: a peripheral that requests while its channel is being started, and
checking a handle that has no transfer. `dmac_release_channel` first disables the
channel and then forgets the handle, two actions with interrupts in between.

### SpiSlave

One write at a time, as in the application: set the flag, raise the pin, start
the driver's transfer, wait in rounds of a millisecond, and either return 0 or
halt the transfer, clear the flag and return -1. The driver's transfer belongs to the
current or an earlier call; its end calls `spi_s_callback_ptl_tx` between any two
steps, also after the timeout. With `Usage` interrupt handlers call
`write_halt`, and the driver may refuse to halt. `disturbed` is a history
variable: true for a call that a handler halted, or that began while a transfer
that could not be halted was still on its way.

### Transfer

One call at a time; it passes only when the other side has the data; when it
returns, with or without success, the driver has nothing of it any more.
`SpiSlave` and `SpiMaster` name a state `disturbed` from which the promise is not
kept (a handler has halted the write, a halt has failed). The refinement holds as
long as that has not happened: the property lets a disturbed step do anything.

### SpiRead

`hx_drv_spi_slv_protocol_read_simple`: rounds of header reads until one begins with
the sync byte, then packets. Header and packets are waited for in milliseconds,
and the host's transfer ends between any two steps. A read that times out leaves
its transfer to the driver; the next one begins on top of it. The driver may
refuse a second transfer or drop the first for it, as its source is not there to
say. `raced` is a history variable: a transfer ended between the clearing of the flag
and the posting of the next header read.

### SpiMaster

Two contexts, the main loop and the interrupts, each with its place in a write.
The completion interrupt calls the registered callback, which may start the next
write; that one runs to its end before the main loop goes on, and no second
completion comes in between. Other handlers can call a write or a halt too,
`write_cus` included.
`hdr` says who filled the one header buffer last. `read` is what the code is: it
sets its busy flag and returns.

### Uart

Any number of tasks in `app_uart_send`. The mutex is one variable here, its owner;
`Mutex` has the kernel's. A transfer of the driver is the range of the message
that it sends, counted from the first byte of the data, with the header right before.
A packet that has timed out stays with the driver, and its late callback counts
for whatever is then waited for; `disturbed` marks a call that began on top of one.
`Top` names the task of the highest priority, for which alone the kernel promises
the mutex.

### Mutex

One action is a critical section of `xQueueSemaphoreTake` or `xQueueGenericSend`, or
the section with the scheduler suspended: the try at the head of the loop
(`TryTake`), the second look and the wait (`Block`, `Expire`), what an expired
wait does (`CheckEmpty`, `TimedOut`). Tasks compute, sleep and are preempted
between any two; once a switch is asked for, no task runs before it.
Event lists are sequences, sorted at the time of insertion only, as in the code.

### AiotApp

The loop of `app_main`. The module extends `SpiSlave`, whose variables are its own
and whose steps are steps of it: a write of the loop is a `write_simple` there, goes
on as `SpiWriter`, and its callback comes whenever the host clocks (`HostClocks`).
An image is a number that changes with every capture, a result is the
capture it describes. The I2C library calls back with a command as long as it has
a buffer to read into. The WiFi part is one step, since `WifiStream` has the
rest and shares no variable with it. Two steps are none of `SpiSlave`: `dmac_deinit`,
which comes if the DMA controller was ever initialised (`dmac_active` looks at nothing
else) and then takes the transfer from the driver, and the reset of the chip.

### Rescale

One action computes one pixel of the input. The window's four places are the
model's; the values there are free, but for places that coincide. Arithmetic is
on natural numbers: `Widths` and `Heights` are those for which 32 bits suffice.

### WifiStream

Bytes have values, which is all the server sees, and carry the frame, its size and
the position they were sent with, which only properties see. The application side
is the loop of `app_main` and `app_tcp_send`, chunk by chunk; the server side
the receive loop of `tcp_server_example.py`: its `recv` returns any part of
what it asked for. A failed `esp8266_tcp_multi_write` delivers its chunk or not;
its result is ignored by `priv_wifi_send_result` and the next call
follows. The comparison of a bytes object with a number in the search for sync
bytes is modelled as what it is, always false. Three assumptions on the
constants come from the code: frames are no longer than the server's limit
(`SizeAssumption`; a frame beyond 200000 bytes would never be accepted), that limit is
below 2^24 (`LimitAssumption`), so that three bytes give the length of every
frame it takes, and payload bytes are bytes (`ByteAssumption`).

## Runs

| run | shows | instance |
|---|---|---|
| `event_core` | slots sorted, events lost in no other than the two known ways, refinement of `EventAbs`, abort and fairness among equals | 3 slots (2 events, one of them deleted), 2 priorities, buffer of 3, interrupts and the unlocked clear |
| `event_uncreated` | disagreement with `event.h`, below | 3 slots, raises of events that are not created |
| `event_delete` | disagreement with `event.h`, below | 3 slots, delete |
| `udma_channels` | ownership, handlers, status, waits | 2 handles, 2 channels, no early requests, no idle checks |
| `spis_writes` | pin and flag after a write; `Transfer`; every write returns, halts and refused halts included | timeout 6 |
| `spis_read` | success means stored, nothing else is written, every read returns | packets of 2, sizes 0 to 5, timeouts 3 and 2 |
| `spim_writes` | flag, `Transfer`, a write nested in the completion fails, return of every call, with nested writes of all kinds and halts | timeout 3, every `Usage` |
| `uart` | messages in one piece, success means sent, every send of the highest task returns | 3 tasks, packets of 2, sizes 0, 1, 2, 3, 5, timeout 2, FreeRTOS |
| `mutex` | priorities, wakeups, no inversion | 4 tasks of 4 priorities, 1 mutex, all waits |
| `wifi_stream` | frames shown whole, in order and for ever, up to the first failed write | chunk 7, frames of 3 to 9 bytes, connection of 10 bytes, at most one failed write |
| `aiot_app` | data kept while sent, result of its image, quiet reset, every command handled | timeout 2, halts may fail |
| `rescale` | reads inside, values between neighbours, exact window | input 7 by 3, 10 widths, 5 heights, scale 8 |

Why the bounds are enough. The scheduler's array operations involve at most the
running event, the one being moved and one more, so two created events with a
free slot reach every relative position; two priorities give "more", "equal" and
"less urgent"; the buffer of three fills up with duplicates, so that a raise is dropped. Two channels are
what the default configuration has, and two handles can be in use at once and
inherit each other's channels. Where a timeout counts rounds (`SpiSlave`,
`SpiMaster`, `SpiRead`, `Uart`), the callback can come before the first, in any of
them, after the last, and not at all; two rounds tell these apart, and a bound of
six or of two reaches the same places. Sizes are
zero, below, at and above one packet and two. Priority inversion needs three tasks, with
one in between; four are the smallest number in which a holder, a waiter
below it, a lender whose wait has expired and a task in between meet. Five tasks,
and four of which two share a priority, were tried as well. One mutex suffices
because what the run checks of several is proved. The images of `rescale` are smaller, larger and as large as the input,
and multiples of it and not. Three tasks in `uart` are the fewest in which the highest
finds the mutex taken while another waits as well. In `WifiStream` a header is one chunk, as with
2048 bytes; images are shorter than a chunk, as long, and longer; the
connection holds one frame at most, so numbering frames modulo four tells every
frame in flight apart; payload bytes 0 and 1 read as a length are plausible and
implausible. `PKT_MAX` stands for the 200000 of the server.

### Fairness

* Event: the main context goes on (weak fairness of its actions). A processing
  function and the idle callback return even if they call
  `infra_evt_clear_ISR_pendingevent` again and again (strong fairness of the returns,
  "runs to completion", `event.h:78`). The two liveness
  properties assume `InterruptsPause`, the buffer is found empty again and again, and then
  the drain loop is left in the end (strong fairness of `DrainDone`). The loop has no
  other bound, so interrupts without a pause starve it, and an abort with it.
* UDma: the functions go on, peripherals request and transfers end. Without the
  last two a wait for a dead peripheral never returns: `dmac_wait_channel` has
  no timeout.
* SpiSlave, SpiRead: only the waiting context goes on. The host need not clock.
* SpiMaster: each context gets on if it can again and again (strong fairness),
  that is, interrupts do not take the processor for ever. The driver need not
  complete.
* Uart: the highest task `Top` goes on, and so does whoever has the mutex while
  `Top` waits for it. `Top` gets the mutex if it is free again and again. This is what the
  kernel gives that task and no other: `Mutex` has the holder inherit the priority of
  `Top` (`HolderOutranks`) and `Top` take the mutex in the end (`TopGetsMutex`). A
  less urgent task can be woken and find the mutex taken again, for ever. Nothing is
  assumed of the others otherwise, and the driver need not call back.
* Mutex: the current task goes on inside of the kernel, switches happen, delays end, and a
  holder that gets to run again and again gives the mutex in the end. Nothing
  is assumed of tasks that hold none: one of middle priority may compute for
  ever, which is what makes `TopGetsMutex` a question.
* WifiStream: the WiFi module answers every write, and both programs go on.
* AiotApp: the loop and the SPI write go on; sensor, WiFi module and boot loader
  answer. Neither host need do anything.

### Disagreements with the documents

Checked by a run:

* `infra_evt_delete` does not de-allocate a created event: its guard is
  inverted (`event_delete`).
* `infra_evt_raise` of an event that was not created does not simply return
  (`event.h:57`): its search ends behind the created events but compares the slot
  there, too, so the next event to be created becomes runnable and is executed
  (`event_uncreated`, `event.c:124-130`).

Seen by changing a configuration. Each of these properties is in the module,
though in no passing run, or holds in a run that leaves the use in question out:

* Event, `Usage` with `raise_above`, `ClearsItself`: a processing function that
  raises a more urgent event and returns CLEAR clears that event instead of its
  own, because slot 0 has changed hands (`event.c:297`).
* Event, `NoLostEvent`: raising "makes the processing function [...] runnable"
  (`event.h:51`), with no exception for interrupts but that they call another function.
  An interrupt that raises an event when the buffer is full loses it, without a word
  (`event.c:151`; `interrupt` suffices). With `clear_isr`,
  `infra_evt_clear_ISR_pendingevent` also loses an event that an interrupt raises between
  its shift and its decrement (`event.c:176-199`). `LostOnlyAtRisk`, which the run checks
  with both, says that there is no third way.
* Event, `delete_uncreated` and `create_all`, `NoOverrun` (`event.c:105` and `:130`);
  `reprioritise`, `RunnableSorted` and `SelectsLowest`: the priority of a runnable event
  changes and its slot does not (`event.c:204`).
* UDma, `check_idle`, `BusyMeansTransfer`: `dmac_check_channel` on a polled handle
  without a transfer stores `DMA_BUSY`, after which no start succeeds and no wait
  returns (`arc_udma.c:889`). `early_request`, the same property and `WaitReturns`: a
  peripheral's completion between lines 750 and 754 is overwritten with BUSY;
  `OwnDescriptor`: between lines 750 and 753 it moves data along the descriptor of the
  transfer before. The run has neither kind of use, so what it checks says nothing about
  such a peripheral; `OwnDescriptor`, which then is left with nothing to say, is in no run.
* SpiSlave, `Usage = {"halt"}`, `PassMeansSent`: a write that an interrupt handler
  halts returns 0 (`spi_slave_protocol.c:268`). `halt_fails` alone: the late
  callback of a transfer that could not be halted ends the next write. The header
  calls the writes non-blocking (`spi_slave_protocol.h:50`, `:59`); they wait up
  to three seconds.
* SpiRead, `PassMeansStoredEver`: without the exception for `raced`, a read whose
  predecessor's transfer ends between clearing the flag and starting its own
  returns success early (`spi_slave_protocol.c:161`).
* SpiMaster, `handler_cus`, `HeaderOfTransfer`: `write_cus` fills the shared header
  before it looks at the busy flag, so a refused call changes the header of the
  write that is on (`spi_master_protocol.c:231`). The run includes such calls, but no
  property of it speaks of headers. `halt_fails`: as in SpiSlave, a late callback can end
  the next write (`spi_master_protocol.c:217`); `ImplementsTransfer` lets such calls
  (`disturbed`) do anything.
* Uart: a packet that timed out may still be sent while the next call is on, and its
  callback counts for that call's packet (`uart_protocol.c:80`), which may then return
  0 too early or have its pieces mixed with the rest of the other. `InOnePiece` and
  `SuccessMeansSent` leave such calls (`disturbed`) out.
* Uart, `OS = "TX"`, `SendReturns` without its condition on `OS`: the mutex is never released
  (`uart_protocol.c:127`).
* Mutex, `RunsHighestEver`: when a give wakes a waiter and gives a priority
  back at once, only the waiter is compared (`queue.c:859`, `else if( xYieldRequired`),
  though `tasks.c:4003` wants a switch "whether a task is waiting on it or not".
  While a task that has lent the holder its priority in a limited wait, and has not yet
  finished that call, is ready, it, or one less urgent than it, may thus stay behind a
  task of a lower priority until something else asks for a switch; `RunsHighest` excepts
  no more than that. With two mutexes `HolderOutranks` and `RunsHighest` do not
  hold: inheritance is not transitive, as a holder that waits itself lends nothing on.
* WifiStream, `WriteFails = "one"`, `FindsSync`: the example server never finds the sync
  bytes again, as `recv(1)` returns a bytes object and not a number
  (`tcp_server_example.py:50`). What follows the first failed write is thus lost to the
  host, and `ShowsNextFrame` and `KeepsShowing` speak of what precedes it only.

## Proofs

All theorems are about the specifications that TLC checks, for every value of
the constants that the named assumptions allow.

**EventProofs.** `StructInv` is the inductive invariant: `TypeOK` (the slots are a
permutation of the events, which no type alone would say), no index has left
the array, one slot is free, what interrupts posted is created, the running event
is created, and the locals of the unlocked clear stay inside the buffer. It
needs `InBounds`: no client touches an event that is not created or creates all
of them, the cases in which the code does leave the array.
`TypeCorrect`, `StaysInArray` and `RunsOnlyCreated` follow from it. On top of it
`RunningIsFirst` is inductive if no processing function raises a more urgent event
(`PolitelyRaised`), which gives `ReturnClearsItself`; `RunnableSorted` is
inductive if priorities of runnable events are kept, which gives
`SelectsMostUrgent`. `OnlyTwoWaysToLose` (`LostOnlyAtRisk`) counts every raise, the ones
that a full buffer drops too, and includes the unlocked clear with interrupts
between any two of its accesses. Its invariant (`OwedInv`) says that an owed event raised again while it runs
is in the buffer, where its return cannot clear it, and, while an entry is being
removed, that the entry in question is the one asked for, or one at risk, or one that
waits elsewhere as well. `Implements` shows that every step is one of `EventAbs` or a
stutter, under the same two conditions on clients; the abstract scheduler may drop what
interrupts posted only while clients withdraw posts (`withdraws`). The
lemmas before them say what the slot operations do: moves and swaps permute, an
insertion adds one event to the runnable ones and keeps them sorted, a removal
takes one away.

**UDmaProofs.** `Structure` (types, the function's handle has a channel, table
and handles are inverse to each other, a channel that is not off has a handle) is
inductive whatever `Usage` is: `TypeCorrect`, `OwnershipHolds`,
`HandlersFindHandle` (`HandlerHasHandle`, through the two steps of a release). For an empty `Usage` every handle with a channel is in one
of a few `Phases`, prepared, requested, moving, resulted or resting, and each
action takes it from one to another: `BusyIsTransfer`, `StatusIsOutcome`. The phases are needed because the status alone does not say
whether the controller's part has been done.

**AiotAppProofs, the writes.** For every timeout and every `Usage`. `AlwaysFreeAgain` needs
only that nothing but the start of a write sets the flag. `BufferIsFree`, `PinIsLow` and
`SuccessIsSent` need an invariant that says for each place in the write function
what flag, pin and transfer are while nothing has disturbed the call, and
`SlaveIsTransfer` maps each step under that invariant to one of `Transfer`.
`SlaveTypeCorrect` adds to the types that the count of milliseconds has not passed the
timeout before the wait is left.

**AiotAppProofs, the application.** For every timeout, and whether halts fail or not.
Every step of the application is one of `SpiSlave`, or a stutter, or one of the two
steps of the upgrade (`LinkStep`), and a write is only running while the loop waits
in one (`Waits`). The reset establishes the invariant of the writes anew, and
`dmac_deinit` keeps it, whether it takes the transfer or not, as it comes between two writes. So what is proved of the
writes holds inside of the application (`AppLinkIsFree`), and with it
`ResetIsQuiet` and `DataIsKept`: the loop is at a capture, the algorithm or the
upgrade only when no write is running. `ResultIsOfImage` needs `Pairing`,
which says at each place of the loop what the host has: at `jpg_wait` an image that was
sent is there without a result, at `meta` the image of this round is there if it was not
missed, and at `meta_wait` what is given with it is the result of that image. No
hypothesis about halts remains, because a disturbed write counts as missed.

**SpiMasterProofs.** For every timeout and every `Usage`. The invariant says whose
transfer the driver can have at each pair of places, and that an interrupt's own
write owns the busy flag while it is on: it cannot succeed, as no completion
interrupts an interrupt (`NestedWritesFail`). With it `AlwaysFreeAgain` and
`MasterIsTransfer`, the same abstract transfer for the main loop. Of headers nothing is
proved: what holds of them is too little (see above).

**SpiReadProofs.** For every packet size, both timeouts and every set of sizes. The
invariant follows a read: the flag is set exactly when the driver is done, what is
stored reaches the position, position and rest make up the announced size. It
says nothing of what earlier calls left, as a header can only arrive once the
driver is done with that. `PassIsStored`, `OnlyOwn`, `BufferIsFree`.

**UartProofs.** For any number of tasks, every packet size, timeout and set of sizes,
and both operating systems. The invariant has the owner of the mutex as the only
task inside, position and rest as the parts of the size, and for each place
whether the driver has the last piece or is done with it. `StaysInOnePiece`,
`SuccessIsSent`, and `FreeOutside`: under FreeRTOS no way out keeps the mutex.

**MutexProofs.** For any number of tasks, finitely many mutexes, all priorities and
waits. `IInv` adds to the theorems' own formulas that the kernel's count is the
number of mutexes held, that whoever is in a list is blocked in a take of that
mutex, and there once, and that the running task is ready. `PriorityComesBack` needs
the count: the last mutex given back is recognised by it alone.
`NoWakeupLost` needs that the head of a list is a task that will look at
this mutex, and no other place has it, when it is woken. With one mutex,
`NobodyOutranked` needs that lists are sorted by base priority, that no holder is
inside a take, and, while the mutex is free, that a task which outranks all waiting
ones is on its way to it and nobody below them runs. `HighestRuns` needs besides who
has lent a holder its priority: a waiter in the list, or a ready task that lent it in a limited
wait (`inherited`) and has not finished that call; the second kind is the exception
in `RunsHighest`, and the proof shows it is the only one.

**AiotAppProofs, rescaling.** For images, inputs and scales of every size, from lemmas about
products and quotients: reads stay inside, a pixel is between its neighbours, and
the window is where exact arithmetic would have it or one before.

**WifiStreamProofs.** For every size of chunks, frames and connection, any number of
failing writes, and every way to cut what is received. `StreamTypeCorrect` has
in its invariant that counts stay inside of the frame and that a length the server
reads from genuine bytes is the size they were sent with. For `ShownIsNext` the property alone is
far from inductive: nothing in it says what is still on its way. `Stream` follows
the bytes from the end to the beginning. The server has the first bytes of the frame
that is due; the first byte in the connection is the next one after those; in the
connection each byte follows the one before it, by position or as the first of the
next frame (`Chain`); and the byte the application would send next follows the last
one in the connection. Once a write has failed the last of these is lost, and what
remains is that the known part of the connection ends inside the frame that failed or just
before it, so the server is never due a frame behind it. Appending a
chunk and taking any number of bytes keep a chain (`ChainAppend`, `ChainRest`), and the first k
bytes of one are those of a single frame while it lasts (`Take`). That last fact is an
induction over positions; it is proved from the finiteness of `0 .. n`, by cardinality
(`Steps`), as the library's induction theorems cannot be used here.

Only model-checked: all liveness (`AbortStops`, `SharesPriority`, `WaitReturns`,
`WriteReturns`, `CallReturns`, `ReadReturns`, `SendReturns`, `TopGetsMutex`,
`KeepsShowing`, `CommandHandled`), as the prover has no rules for fairness. Every
other property of a passing run is a theorem. `TypeOK` of
`WifiStream` is in its run as well; the other type invariants are proved only.

## Not modelled

* The DMA build with an OS: its lock is defined but never used. `dmac_init`,
  `dmac_deinit` (but for what `AiotApp` needs of it), `dmac_close`, descriptor
  contents, and callbacks that call back into `arc_udma.c`.
* The flash functions of the SPI master, which pass their arguments on.
* Of the application, the `USE_APK` and `SPI_MASTER_SEND` variants, and the WiFi
  functions that `app_main` does not call. Of the person detection, setting up and
  running the interpreter.
* Of FreeRTOS, everything that the repository's own code does not use: queues with
  data, event groups, stream buffers, notifications, software timers. `freertos.mk`
  selects `heap_2`, which is used while starting up.
* TensorFlow Lite, the rest of FreeRTOS, `os` ports: third-party. By far most lines
  of the repository are these, with generated tables of weights.
* Register access, start-up code, board initialisation, the driver libraries:
  straight-line, or without source. `PROJECT.json` gives the reason for each.

## Plan

Done: all modules above, and the proofs of every safety property, action property and
refinement that the runs check.

Left: `UDma` with `dmac_init` and `dmac_deinit`, and composed with the links that use
channels, once the drivers in between have source; and, as theorems, what still
holds of a write of `SpiSlave` that a handler halts and of a read of `SpiRead` whose
predecessor's transfer ends late, the two cases under "Disagreements" that the present
theorems leave out.
