# HPMicro Zephyr SDK glue: TLA+ models and proofs

The repository is the HPMicro "Zephyr SDK glue": C drivers that put the
peripherals of the HPM6000 microcontrollers behind the Zephyr driver APIs,
with boards, device trees and build files around them. The program logic is in
`drivers/` (some 12 000 lines of C); every driver is a small concurrent system
of its own: application threads that call the API, the interrupt handler of the
peripheral, sometimes a DMA controller or a driver thread, and the hardware.

This directory holds TLA+ models of these drivers, TLC configurations that
check them on small instances, and TLAPS proofs that the safety properties
those runs check hold for every value of the constants.
`PROJECT.json` lists the components, the runs with their properties, the
mutants that show that each property can fail, the source lines every
definition stands for, the findings, the hazards and the theorems.

- [Inventory](#inventory)
- [Modules and the code they model](#modules-and-the-code-they-model)
- [Runs, bounds and what they show](#runs-bounds-and-what-they-show)
- [Fairness](#fairness)
- [Proofs](#proofs)
- [Findings and observations](#findings-and-observations)
- [What is not modelled](#what-is-not-modelled)
- [Plan](#plan)

## Inventory

For each component: its state, its operations, how it interacts, where it is
hard, and what would make it correct. "Modelled" in the last column of a
heading names the modules.

### CAST CAN controller, `drivers/can/can_hpmicro.c` (CanTx, CanFilter, CanFrame)

State: `struct hpm_can_data`: the started flag, `tx_sem` (one token, because
`HPM_CAN_NUM_TX_BUF_ELEMENTS` is 1), `tx_mutex`, one finish semaphore, one
callback slot, `inst_mutex`, the list of filters with callback, argument and
RTR bits, the configuration `can_init` is called with.
Operations: `send`, `send_batch` (up to four frames as one request), add and
remove receive filter, start, stop, set mode and timing, get state, and the
interrupt handler with a receive, a transmit and an error part.
Interactions: any number of threads send; the interrupt completes a request by
calling back, or by giving the finish semaphore a blocking sender waits for;
every control call and every filter change re-initialises the controller.
Hard: token, mutex and callback slot are taken and undone in steps, each of
which may time out or fail; the completion of one request races the
preparation of the next; a reset drops what is outstanding; the receive
interrupt runs between the stores of `add_rx_filter`.
Correct when: one request at a time is outstanding, the callback that is called
belongs to the request that completed, a failed send leaves nothing behind, a
blocking send returns after its own frame was sent, filters and callbacks stay
together, frames arrive as sent.

### MCAN controller, `drivers/can/mcan_hpmicro.c` (McanTx, McanFilter)

State: as above with 32 transmit tokens, a finish semaphore that starts at
one, the file-scope flag `has_sent_out` that all controllers share, and two
filter lists, for standard and extended identifiers, that share the arrays of
callbacks. Operations: as above without batches. Interactions: senders of every
controller spin on the flag until the interrupt of any controller raises it.
Hard: the flag is tested and cleared in two steps; error paths do not raise it;
the handler takes one message per interrupt and clears the flags it read at its
start; both lists hand out the same filter identifiers.
Correct when: tokens are conserved, the flag is down only while somebody is
going to raise it, callbacks come once, a message goes to the callback of a
filter that asks for it, and a filter lasts until it is removed.

### DMA controllers, `drivers/dma/dma_hpmicro.c`, `dmav2_hpmicro.c` (DmaChannel)

State: per channel the callback record (`busy`, `valid`, callback, settings)
and the controller's registers. Operations: configure, start, stop, suspend,
resume, reload, get status, the interrupt handler. The two files differ in the
register header only. Interactions: UART, SPI and the camera configure
channels and are called back from the DMA interrupt, with `busy` already
cleared, so that the callback may restart the channel.
Hard: a call that finds `busy` false does nothing to the hardware; a transfer
ends between any two steps of a driver. Correct when: a channel never moves
data for a buffer that was given up, and every started transfer is called back.

### UART, `drivers/serial/uart_hpmicro.c` (UartAsync)

State: `dma_rxinfo` (current buffer, offset, size reported, total, next buffer
and its length), `dma_txinfo`, two DMA channels, callbacks.
Operations: polling, the interrupt-driven API, and the asynchronous API: `tx`,
`tx_abort`, `rx_enable`, `rx_buf_rsp`, `rx_disable`; the UART interrupt
(receive timeout) and the DMA callbacks.
Hard: the receive timeout and the DMA completion report the same bytes; buffers
are requested, queued, switched and released while the DMA goes on; the answer
to a request comes from the callback or from a thread, in two stores; a user
callback may call back into the driver.
Correct when: every received byte is reported once, in order; the DMA never
writes into a released buffer; every buffer comes back; reception does not
stall.

### USB device controller, `drivers/usb/udc/udc_hpmicro.c` (UdcEp, UdcCtrl)

State: per endpoint queue, `busy` flag, the transfer descriptors, the stage of
the control endpoint. Operations: enqueue, dequeue, halt, enable, disable,
which the USB stack serialises with `udc_hpm_lock`, and SETUP, IN and OUT
completion, all run in the interrupt handler, which also feeds the next buffer.
Hard: a call and the interrupt feed the same endpoint; the queue is looked at
before the endpoint is claimed; a SETUP overtakes a transfer; a failed
descriptor leaves the endpoint busy; dequeue while the controller works on the
buffer. Correct when: every enqueued buffer is transferred before it is reported,
returned once and in order, and a stage of a control transfer is answered with
the buffer of that transfer.

### SPI, `drivers/spi/spi_hpmicro.c` (SpiXfer)

State: `spi_context` (lock, completion semaphore, buffers left), two DMA
channels, `status_flags`. Operations: transceive with DMA or by the FIFO
interrupt, release. Hard: the two directions have different lengths and end at
different times, the wait for them times out while one is late, the caller may
keep the lock (`SPI_LOCK_ON`). Correct when: a chunk counts as done after it was
on the wire for this caller, with its device selected in its format.

### I2C, `drivers/i2c/i2c_hpmicro.c` (I2cBus)

State: a recursive bus mutex, the registered target, the messages and status of
the transfer in progress, the completion semaphore. Operations: transfer,
configure, register and unregister target, the interrupt, which serves both
roles. Hard: the interrupt looks at several events in one pass and issues the
next message itself; the caller waits without a timeout and reads the status
after unlocking. Correct when: a transfer that returns 0 moved its messages,
every transfer returns, the mutex is held inside a transfer only.

### Ethernet MAC, `drivers/ethernet/ethernet_hpmicro.c` (EthMac, EthLink)

State: descriptor rings shared with the MAC's DMA, `tx_mutex`, the transmit and
receive semaphores; for the link: the last PHY status, speed, address, carrier.
Operations: send with a 20 ms wait for the interrupt, the receive thread, the
interrupt, the periodic link work, set_config. Hard: the wait gives up and the
interrupt comes late; the descriptor is looked at before the mutex is taken;
status bits are acknowledged by writing back everything that is set.
Correct when: a send that returns 0 put its own packet on the wire, received
frames are read, carrier and MAC follow the PHY.

### Camera and video capture, `drivers/video/*` (CameraQueue)

State: incoming and outgoing buffer queues, the frame buffer register, the
stream state of camera and sensor. Operations: enqueue, dequeue, flush, stream
start and stop, formats, the frame interrupt. Hard: the interrupt moves buffers
between the queues while flush takes them out one at a time. Correct when: no
buffer is lost or in two places, the camera writes into queued buffers only and
delivers those it wrote. The MIPI CSI driver writes registers in sequence.

### SD host controller, `drivers/sdhc/sdhc_hpmicro.c` (SdhcRequest, SdhcIo, SdhcEvents)

State: `access_mutex` per controller, one bounce buffer for all of them,
`host_io` (a copy of the settings in force), card callback and its sources.
Operations: request with polling, retries and recovery, set_io stage by stage,
tuning, enabling and disabling card interrupts, the interrupt handler. Hard: the
handler clears status bits that a request polls for; a request may be retried,
recovered and given up; settings are applied in stages that fail one by one.
Correct when: a request returns its own data and response and gives the mutex
back, an accepted setting is in force, card events reach their client.

### Flash, GPIO, ADC, PWM, display (FlashNor, GpioPort, GpioEdges, AdcSequence, Pwm, Display)

Flash: XPI NOR initialised on first use, erase by sector until the size is used
up. GPIO: writes to a port shared by its users, edge interrupts and callbacks.
ADC: the hand-over between a read and the conversion interrupt, with a hardware
trigger that may fire without one. PWM: periods and pulses over counters that
channels share. Display: rectangles in a cached frame buffer, pixel clock,
bring-up over three interfaces.

### Not modelled

Clock and pin control are straight-line register code; CherryUSB glue serves a
stack that is not in the repository; samples, boards, start-up code, build
files, bindings and documents have no concurrent state of their own. Each is
listed with its reason in `PROJECT.json`.

## Modules and the code they model

| Module | Models | Composed of |
|---|---|---|
| `CanTxAbs` | what the CAN transmit service promises | |
| `CanTx` | transmit path of `can_hpmicro.c` | implements `CanTxAbs` |
| `CanTxProofs` | theorems about `CanTx` | extends `CanTx` |
| `CanFilterProofs` | theorems about `CanFilter` | extends `CanFilter` |
| `CanFilter` | receive filters and receive interrupt of `can_hpmicro.c` | |
| `CanFrame` | checks, conversion and transport of frames in `can_hpmicro.c` | |
| `McanTx` | transmit path of `mcan_hpmicro.c`, several controllers | |
| `DmaChannel` | one channel of `dma_hpmicro.c`, as operators on a record | |
| `UartAsync` | asynchronous API of `uart_hpmicro.c` | two channels of `DmaChannel` |
| `UdcEp` | one data endpoint of `udc_hpmicro.c` | |
| `UdcCtrl` | the control endpoint of `udc_hpmicro.c`, host and stack around it | |
| `McanFilter` | receive filters and receive interrupt of `mcan_hpmicro.c` | |
| `SpiXfer` | synchronous transfers of `spi_hpmicro.c`, both builds | |
| `I2cBus` | transfers, target and interrupt of `i2c_hpmicro.c` | |
| `EthMac`, `EthLink` | frames, and the link, of `ethernet_hpmicro.c` | |
| `CameraQueue` | buffers of `camera_hpmicro.c` behind `video_hpmicro.c` | |
| `SdhcRequest`, `SdhcIo`, `SdhcEvents` | requests, settings and card events of `sdhc_hpmicro.c` | |
| `FlashNor` | `flash_hpmicro.c` | |
| `AdcSequence` | reads of `adc_hpmicro_adc12.c` and `_adc16.c` | |
| `GpioPort`, `GpioEdges` | outputs, and edge interrupts, of `gpio_hpmicro.c` | |
| `Pwm` | set_cycles of `pwm_hpmicro.c`, both controller versions | |
| `Display` | `display.c` and its RGB, MIPI and LVDS files | |
| `MCCanTx`, `MCCanFilter` | instances for TLC | the module of that name |
| `MCCan` | frames, filters and senders of the two CAN drivers | `CanFrame`, `McanFilter`, `McanTx` |
| `MCSerial` | UART and USB endpoint | `UartAsync`, `UdcEp` |
| `MCBuses` | SPI and I2C | `SpiXfer`, `I2cBus` |
| `MCStorage` | storage and USB control | the `Sdhc*` modules, `FlashNor`, `UdcCtrl` |
| `MCDevices` | the other devices | `Eth*`, `CameraQueue`, `AdcSequence`, `Gpio*`, `Display`, `Pwm` |
| `CanProofs` | theorems about CAN frames, MCAN filters and MCAN senders | extends `MCCan` |
| `SerialProofs` | theorems about the UART and the USB endpoint | extends `MCSerial` |
| `BusesProofs` | theorems about SPI and I2C | extends `MCBuses` |
| `StorageProofs` | theorems about SD host, flash and USB control | extends `MCStorage` |
| `DevicesProofs` | theorems about Ethernet, ADC, GPIO, display and PWM | extends `MCDevices` |
| `CameraProofs` | theorems about the camera, and the types of the devices | extends `DevicesProofs` |

Drivers that share no state need no product of their state spaces. The five
modules `MCCan` to `MCDevices` instantiate several components over disjoint variables; a constant
variable `driver` chooses at the start whose behaviour this is, and the others
keep still. Such a run covers exactly the behaviours of each component, at the
cost of their sum. A property there is the component's property of the same
name, or the conjunction of a few that belong together.

Conventions shared by the models:

- A thread has a program counter; an action is the code between two points
  where another thread or an interrupt can make a difference. A thread may be
  preempted between any two actions.
- An interrupt handler runs to completion as one action where it cannot itself
  be interrupted by what it shares state with: the SoCs run these drivers on
  one core. The receive handler of `CanFilter` is split, because frames arrive
  while it drains the buffer.
- Kernel objects (semaphores, mutexes) are modelled by their Zephyr semantics;
  a timeout is possible whenever the object is not available. The CAN, UART and
  DMA hardware is external and modelled from how the drivers use it.
- Variables named *history* record what happened to a request or a frame. They
  occur in properties, and in guards only as a named bound: several drivers
  cannot be followed in any useful way once something went wrong that the code
  does not handle (a late completion, a lost buffer), so that no new call begins
  after it. Each module says which event that is.
- `Bug...` operators next to a definition are variants with a plausible mistake
  in that code; no specification uses them. They serve to check that the
  properties notice.

### CanTx

Threads run `hpm_can_send` and `hpm_can_send_batch`, which share their control
flow from the wait for `tx_sem` on. `pc` is the place in the function: after the
argument checks (`state`), `sem`, `lock`, `load` (batch: STB empty check and
callback), `xmit`, and then `unlock`/`wait` on success or `clear`, `unlockErr`,
`give` on the error paths. `slot` is `tx_cb[0]`, `finSem` `tx_fin_sem[0]`. The
controller is reduced to the number of frames in the secondary transmit buffer
(`stb`), the completion flag (`tsif`), whether it runs (`live`) and the bus
state. `Isr` is the `TSIF` part of `hpm_can_isr` with
`hpm_can_tc_event_handler`. `CtlCall`, `CtlReset` and `CtlMark` are the control
calls: what they are allowed to do, the `can_init`/`can_deinit` they call, and
the `started` flag they set afterwards; one control thread is assumed. A reset
empties the buffer; whether a pending completion flag survives it is left open,
as it depends on the controller. `hpm_can_get_state` leaves its output
unwritten for unknown error flags: the value `send` then compares is a choice.

### CanFilter

`Add*` and `Remove*` are the calls under `inst_mutex` (a recursive mutex, as in
Zephyr, so a leaked lock blocks the other threads only), one action per store
the interrupt can fall between. `Scan`, `Shrink` and `ScanEnds` are the removal
loop; the fields of a moved entry are copied in one step, since only
`LiveIsReachable` speaks of who hears a frame after a removal. `Fill` to `FillRtrMask`
are the stores of an entry that is already counted: until the mask is there it
may let through anything, and until both RTR words are it matches no frame at all
when they differ. `Reinit` is the `can_init` both calls end with. `IsrEnter`, `GetMessage`,
`Drained` and `IsrClear` are the receive part of the handler. A filter is the
set of identifiers it lets through, an unused entry lets through identifier 0.
Each registration has its own callback and user data, so that a mix-up shows.

### CanFrame

Both entry points check the frame, convert it into the transmit buffer and the
receiver builds a frame from what was on the bus. A frame is its flags and its
length code; of the payload the model keeps how many leading bytes survive.
`SendCheck` and `BatchCheck` are the two copies of the validation, which differ
in the condition for ESI. `Wire` is the frame on the bus: a controller in CAN FD
mode is given frames with BRS and without FDF, and a classic frame has no bit for
it, so that the receiver does not report BRS.

### McanTx

`hpm_mcan_send` from the spin on `has_sent_out` on, for several threads on
several controllers. Results the code ignores (the mutex timeout) are ignored.
`gone` counts the tokens that left the system: overwritten, merged, dropped or
refused requests.

### DmaChannel and UartAsync

`DmaChannel` gives each driver call as a function of the channel record: what
the driver notes (`valid`, `busy`) and what the hardware does (`en`, `remain`,
`flags`). `UartAsync` builds the receive path from them: `Flush`, `Release`,
`Requested`, `Disabled` and `Switched` are the functions of the same purpose in
the driver, as functions of the state, because the code calls them one inside
the other with interrupts locked or in an interrupt. The application is the
record `app`: what it owns, how much was written into each buffer, how much it
was told. `rx_buf_rsp` called by a thread is two actions, one per store; called
in the callback it is part of the step that requests. `uart_tx` is three
actions; called from the `UART_TX_DONE` callback it is part of the interrupt.

### UdcEp

`ep` is the endpoint: the driver's queue and `busy` flag, the transfer the
controller is primed with (`hw`) and its stall bit. One call of the stack is
under way at a time; `pc` is its place in `udc_hpm_ep_try_feed` and
`udc_hpm_ep_feed`: `Peek` reads the head of the queue, `Claim` is the part
under `irq_lock`, `Xfer` primes the controller, `Undo` takes `busy` back when it
refused. `Dequeue` and `Unmark` are the two steps of `udc_hpm_ep_dequeue`. The
interrupt handler is one action per event (`TransferDone`, `TransferError`,
`BusReset`), built from functions named after the handlers, because nothing the
driver shares can interrupt it. Of a transfer the model keeps whether it is the
data of a buffer or the zero-length packet behind it (`due` counts what is left
of the two). `odd` records that something happened the properties exempt:
a transfer for a buffer that is not at the head any more (`stale`), a dequeue
under a running transfer (`live`), a refusal (`eio`), a transfer broken off
since the last dequeue (`dead`).

### UdcCtrl

The host is a part of the model: it begins transfers of three kinds, may begin
one before the last has ended, may reset the bus, and polls the stage it is in.
`Setup`, `InDone`, `OutDone` and `BusReset` are the handlers of the interrupt;
`HandlerIn` and `HandlerOut` are `udc_hpm_handler_in` and `_out`. `Refuse`,
`Answer` (the enqueue of the answer), `Peek`, `Claim`, `Xfer`, `Dequeue` and
`Unmark` are the thread of the stack inside the driver's calls, with the same
steps as in `UdcEp`. `udc_ctrl_*` and the stack's thread are Zephyr's and
external. Whether a primed transfer survives an overtaking SETUP is left open.
`soiled` names the directions in which an overtaken, lost or reset transfer may
have left a buffer; the dequeue after a reset cleans IN.

### McanFilter

As in `CanFilter`, one action per store the interrupt can fall between, for two
lists. `Find` and `Shrink` are the removal loop, which looks for the identifier in
the extended and then in the standard list. `IsrReads` takes one message,
`IsrClears` clears the flags read at the start. Filling an entry is one step, as
is the scan. `IDE` is the only flag `add_rx_filter` accepts, so a remote frame
matches no filter. RX buffer and RX FIFO 1 are never used by the filters.

### SpiXfer

A call goes through `Transceive`, `Configure`, `Load` (setting up a chunk),
`Wait`, `Drain` and `Release`; the hardware ends the two DMA sides and the wire in
any order, or asks for FIFO service. `job` is the chunk the hardware has and
whose it is. `Wait` is woken by any completion of any chunk, as the semaphore is;
whose it was is what the property asks. After a timeout nothing is stopped. In the
interrupt build `EndInterrupt` starts the next chunk, which the controller may
refuse (the caller then waits until it gives up), and `FifoFails` is a FIFO word
that is refused, with its buffer pointer advanced and the flag left set.

### I2cBus

A message is its direction and its length in halves of the FIFO. `Isr` is the
handler as a composition of its stages `AddressHit`, `Transmit`, `Receive` and
`Complete` on one snapshot of events. The wire acknowledges or not, moves data,
ends early, or is used by another master that addresses the target. Messages fit
the FIFO counter; a longer second message makes the code wait for ever, as the
refusal of its restart is not looked at. Reads continued without a restart are
left out for the same reason. `Beyond` bounds what `Transmit` loads after the end
of its message, where the code has no bound. A status read after another transfer
began is excused for that one call; the excuses that last are named above
`I2cResultIsOwn`, a registered target among them: registering keeps the mutex.

### EthMac and EthLink

A packet is the thread that sends it and takes one descriptor. `ReadDesc` is the
look at the ring before the mutex, `Lock`, `Send`, `Sent`, `SendTimeout` and
`Unlock` the rest of `eth_tx`. The interrupt is split at the reading of the status
register, because the MAC goes on in between, and acknowledges as the code does,
writing back every bit that is set. `EthLink` is the delayed work, the interface
initialisation and `eth_set_config` as atomic steps with a PHY that changes
freely.

### CameraQueue

`Isr` is the handler over the two queues and the frame buffer register, with the
loop that rotates the queue (`Turned`, `AfterStart`). `FlushTakes` and `FlushPuts`
are the two steps of flush with cancel between which the interrupt may come.
A frame is written where the interrupt at its start put the frame buffer
register; a frame that ends before that interrupt is `late`, which the property
excuses. `SetFormat` and `FormatRefused` are set_fmt: the refusal comes at once,
or from the MIPI bridge or `cam_init` with `cam_buffer` already allocated. That new
buffer is not the frame buffer, so that the next stream goes on writing the
application's buffer it wrote last; the property excuses it (`refused`).

### SdhcRequest, SdhcIo, SdhcEvents

`SdhcRequest`: `Lock` to `Unlock` are the steps of a request; `Poll` and `PollXfer`
look at status bits which `CardEvent`, the interrupt of a card that comes or goes,
clears. `Poll` goes on to `PollXfer` for data and for R1b commands (`Waiting`). The
kinds of requests are what `hpm_sdhc_request` makes of an opcode: `Routed` ones go
to `hpm_sdhc_transfer`; a `stray` one carries data but is not routed, so that it is
sent as a command. `Recover` and the counter of retries follow the loop, below zero
too.
`Faulty` are the controllers whose card misbehaves. `SdhcIo`: `SetIo` is one call,
composed of its stages, each of which may be the last and leave its work half
done: a failed change of the clock leaves the card's clock stopped with the new
divider, a failed switch to 1.8 V the clock or the supply. `PadStates` are the pin
states of the device tree; a timing without one leaves the pads and returns 0.
`ExecuteTuning` leaves the bus power on. `SdhcEvents`: `EnableCallback`, `EnableData`
and `EnableSources` are the three stores of `enable_interrupt`, with the handler
between them; `EnableFails` and `DisableFails` are refusals by the driver of the
detect pin; `Isr` reads the flags and calls, `IsrClears` clears what it read.

### FlashNor, AdcSequence, Gpio*, Pwm, Display

`FlashNor`: a call may find the flash uninitialised; the flag is set before the
initialisation, and another thread may go on in between. Addresses are in words,
memory is erased, programmed or garbled; the ROM may fail at any sector of an
erase (`EraseFails`) and after any part of a write. `AdcSequence`: `Sample`, `Wait` and
`Release` of the ADC context, and the interrupt in two steps, the second of which
is the second clear of the status. `GpioPort`: only the masked write has two
steps, a read and a write. `GpioEdges`: the handler reads, clears what it read
and calls back. `Pwm`: calls one after the other; the model keeps reload and
compare values as extension and count, the four-compare mode of a pair, and what
each channel was last promised. `Four` follows the branch at 249-260:
`pwmv2_get_cmp_working_status` is the controller's and taken as whether the compare
of the even channel still has its reset value, which `Reloads` replaces. `Display`: one write over
all rectangles of a small screen, and the bring-up in the order of each file.

## Runs, bounds and what they show

| Run | Module | Expect | Shows |
|---|---|---|---|
| `cantx_safety` | `MCCanTx` | pass | callbacks, the inductive invariant of the proofs, refinement of `CanTxAbs` |
| `cantx_live` | `MCCanTx` | pass | every send returns |
| `cantx_two_blockers` | `MCCanTx` | violation | two blocking senders: one returns before its frame is sent |
| `canfilter` | `MCCanFilter` | pass | who is called for a frame; list, hardware and mutex agree |
| `canfilter_live` | `MCCanFilter` | pass | every buffered frame is read |
| `canfilter_remove` | `MCCanFilter` | violation | removal moves a list entry but not its callback |
| `can` | `MCCan` | pass | CAN frames arrive as sent; MCAN filters; MCAN tokens and the shared flag |
| `serial` | `MCSerial` | pass | UART reports, releases, stray writes, progress; USB endpoint |
| `uart_torn` | `MCSerial` | violation | a buffer answer torn by the DMA interrupt |
| `buses` | `MCBuses` | pass | SPI chunks and I2C transfers belong to their callers; I2C returns |
| `storage` | `MCStorage` | pass | SD requests, settings, card events; flash; USB control transfers |
| `devices` | `MCDevices` | pass | Ethernet, camera, ADC, GPIO, display, PWM |

Bounds, and why they are enough for the questions asked:

- CanTx: two threads with two calls each, one of them also blocking, batches
  of up to two frames. Two contenders are needed for every race over the token
  (a third only repeats the second); two calls for a request that follows
  another of the same thread; two frames for a batch whose completion comes
  after more than one transmission. The proofs remove these bounds.
- CanFilter: two clients, two filter places, three adds: an add that finds the
  list full, an add into a place that was freed, a removal that moves an entry.
  Filters that let through everything or identifier 0 only are enough for
  overlap. One frame in the buffer and one arriving during the handler.
- CanFrame: all 32 flag sets with lengths 0..16 (one beyond the largest code),
  and batches of 0, 2, 3 and 5 frames of six kinds, valid and not (the limit is four).
- McanTx: two threads on one controller and one on another, so that the shared
  flag has contenders of both sorts. A second call of the first thread is made
  only when nobody else calls (`FewCalls`): it is there for the lead of blocking
  sends, which concerns a sender that is alone.
- McanFilter: one extended and two standard places, two adds, two clients: an
  identifier that both lists hand out, a full list, a removal in the middle.
- UartAsync: buffers of two bytes can be half full; three of them let one be
  filled, one queued and one answered late. Unsigned arithmetic is modulo 256
  in place of 2^32: the buffers are far below both. `irq_rx_enable` is called
  once. With `Errors`, any transfer may fail once it is running.
- UdcEp: one endpoint, IN or OUT, since endpoints share nothing but the
  handler; three buffers, so that two can complete while the call that queues
  the third is between two of its steps.
- `SomeBuffer`, `SomeBuf` and `SomeThread`: progress is checked for one buffer, or
  for the requests of one thread. The buffers, and the threads of `SdhcRequest`,
  are interchangeable in the specification and its initial states, so it holds
  for each.
- UdcCtrl: four control transfers and two things that go wrong: an overtaken
  transfer, the one that overtakes it, and two that show what is left behind.
- SpiXfer, I2cBus: two callers; two chunks or messages, so that there is a first,
  a next and a last; I2C messages of no, half, a whole and one and a half FIFOs.
- EthMac: two senders and two descriptors in each ring: one that is busy and one
  that is free, and the wrap. No new send begins after an event the property
  exempts, other than a packet still in flight or a descriptor read too early;
  no frame arrives after one.
- CameraQueue: three buffers, one being written, one queued and one with the
  application. Only dequeue and flush go on after an exempt event.
- SdhcRequest: two threads and two controllers, one of them with a card that
  misbehaves; reads and writes with one retry and commands with none there, and
  each other kind once on the other controller (`AskedOf`). No request begins once the history notes
  something. Requests already under way go on.
- SdhcIo: two frequencies within the limits, one above, zero; every other
  setting in full; pads for the slow timing and none for the fast. SdhcEvents: one
  client, which may register again while it is registered, so that the callback
  and the data of two registrations are told apart by time. FlashNor: two sectors
  of two words, erases of up to three words from every offset, so that ranges
  begin and end within a sector; one size of writes.
- AdcSequence: two readers, two channels, a repeated sampling. GpioPort: two users
  of two pins, and nothing begins after a write that overlapped a masked one. GpioEdges: two pins.
- Pwm: three channels (two of a pair and one of another), a period that fits the
  counter and one that needs its extension, pulses whose edge falls into the first
  round of the counter and into a later one. Two channels are in use at a time
  (`MaxUsed`), any two of the three: what one request does to another is between two. Display: rows of three and four bytes over
  cache lines of two, so that a row ends inside a line; one write.

Deadlock is not checked where a system may stop: calls are bounded, a display
is brought up once, a UART application may be left with no buffer. It is checked
in `serial` and `buses`.

## Fairness

- A thread inside a call goes on (weak fairness of its next step): Zephyr
  schedules ready threads. In `McanTx` this includes that a spinning sender
  does not starve others, which holds when senders do not outrank one another.
- A pending interrupt is served.
- A loaded CAN frame is transmitted in the end, and a bus that is off comes
  back: strong fairness in `CanTx`, since a bus-off period disables
  transmission. Without a partner on the bus no driver could promise anything.
- CanFilter: the bus goes on delivering frames. The frame that arrives between
  the last look at the receive buffer and the clearing of the flag waits for
  the next one, so `FrameIsRead` does not hold without this.
- UartAsync: bytes keep coming, an empty transfer ends, the DMA interrupt is
  served and a thread inside `rx_buf_rsp` finishes. Nothing is assumed of the
  application or of the receive timeout.
- UdcEp: a call goes on, and the host goes on polling the endpoint.
- UdcCtrl: the thread of the stack goes on, and the host goes on with the
  transfer it is in (it retries a token that is not answered, as USB hosts do),
  but need not give up nor begin another.
- I2cBus: the interrupt is served, the wire ends what it began, and a thread
  whose semaphore is given returns.
- SdhcRequest: a thread inside a request goes on; a card answers in the end,
  except on a controller in `Faulty`, where only the software timeouts help.

The liveness properties are checked without what makes them fail by design:
`cantx_live` allows start only (a reset while a request is outstanding loses
its completion), `BufferTurnsOver` exempts a DMA error, `EnqueuedReturns` what
is in `odd` and a halted endpoint, `I2cReturns` what the module lists as exempt,
`RequestReturns` a card that is gone and a retry counter below zero,
`CtrlCompletes` a direction that an earlier transfer soiled.

## Proofs

Every safety property a passing run checks, invariants and action properties
alike, is a theorem of its specification, for any number of threads, buffers,
frames, pins and so on. Below, the theorem of each such property; the ones in
italics are the inductive invariants they come from.

| Module | Theorem | Property |
|---|---|---|
| `CanTxProofs` | `TypeCorrect`, *`Invariant`* | `TypeOK`, `IInv` |
| | `TokenSafety` | one token: in the semaphore, with one thread, on the controller, or lost with a reset |
| | `CallbackSafety` | a completion finds its own callback; callbacks come once, after the frames |
| | `FailureSafety`, `BatchSafety` | a failed send never reaches the bus; a batch finds the secondary buffer empty |
| | `SlotStability` | the callback slot keeps still while its request is outstanding |
| | `BlockingSafety`, `Refinement` | with at most one blocking sender, a blocking call returns after its frames were sent, and `CanTx` implements `CanTxAbs` |
| `CanFilterProofs` | *`FiltersAreSound`*, `ListStaysSound`, `FramesReachTheirOwner` | `ListIsSound`, `DeliveredToOwner` |
| `CanProofs` | `FramesAreSentAsGiven` | `SentAsGiven` |
| | `McanReachesOwner`, `McanKeeps` | `McanDeliversToOwner`, `McanKeepsRegistrations` |
| | `TokensAreAccounted`, `LoneSenderIsSound` | `McanTokensAccounted`, `LoneSenderIsServed` |
| `SerialProofs` | *`UdcIsSound`*, `EndpointServes` | `EndpointIsSound` |
| | *`UartIsSound`*, `BuffersStaySafe`, `ReportsStayExact` | `RxBuffersAreSafe`, `ReportsAreExact` |
| `BusesProofs` | *`SpiIsSound`*, `SpiTransfersOwn` | `SpiTransferIsOwn` |
| | *`I2cIsSound`*, `I2cResultsOwn` | `I2cResultIsOwn` |
| `StorageProofs` | *`RequestIsSound`*, `RequestsOwn` | `ResultIsOwn` of `SdhcRequest`, `MutexIsReturned` |
| | `OkIsApplied`, `EventsReach` | `OkMeansApplied`, `EventsReachTheirClient` |
| | `EraseErases` | the action property `EraseIsExact` |
| | `StagesOwn` | `CtrlIsOwn` |
| `DevicesProofs` | `EthSends`, `EthReceives`, `LinkIsShown` | `EthSentIsOwn`, `EthFrameIsRead`, `EthLinkIsShown` |
| | `GpioIsServed`, `AdcReadsOwn` | `GpioServesItsUsers`, `AdcReadIsOwn` |
| | `PwmIsApplied` | `PwmOkMeansApplied` |
| | `DisplayWritesExactly` | `DisplayIsExact`: writes with pitch = width and rows of whole cache lines; the divider |
| `CameraProofs` | `CamServesItsUser` | `CamQueueIsSound` |
| each union | `CanIsTyped`, `SerialIsTyped`, `BusesAreTyped`, `StorageAreTyped`, `DevicesAreTyped` (in `CameraProofs`) | `TypeOK` of the union |

The unions (`MCCan` and so on) are proved about by parts: `UnionIsEach` says that
a behaviour of the union is a behaviour of each driver in it, a theorem about
the driver's own specification (`E!Spec => []UdcInv`) is proved as if it were
alone, and the property of the union follows from the two.

### Assumptions

Only what the modules name, evaluated by TLC on every run that extends them:
`ThreadsAssumption`, `BoundsAssumption`, `CtlAssumption`, `NoReqIsNoRequest`
(`CanTx`), `FilterBounds`, `FilterSets` (`CanFilter`), `FrameAssumption`,
`McanAssumption`, `SendAssumption` (`MCCan`), `SerialAssumption` (`MCSerial`),
`SpiAssumption`, `I2cAssumption` (`MCBuses`), `RequestAssumption`, `IoAssumption`,
`EventsAssumption`, `FlashAssumption`, `CtrlAssumption` (`MCStorage`), `EthAssumption`
to `PwmAssumption` (`MCDevices`). They say that a value that stands for nobody
(`NoReq`, `NoThread`, `NoBuf`, ...) is nobody, that sizes are natural numbers and
those of a ring, a list, a sector or a cache line are not zero, and that the
values a device starts with are among the values it can have. Three say more:
`SendThreads` is finite (a count of tokens needs it), a UART buffer is shorter
than the modulus of `size_t`, and the messages of an I2C transfer are directions
with a length. `SoleBlocker` appears as a hypothesis of `BlockingSafety` and
`Refinement` because without it they are false (`cantx_two_blockers`).

### The inductive invariants

Hardly any of the properties is inductive as it stands (those of `Pwm` and
`EthLink` nearly are). What has to be added is in most drivers the answer to one question: what may be assumed of the state the
other side is about to use? A comment before each invariant says it in words.
TLC checked the larger ones on the instances before they were proved.

- `CanTx`, `IInv`. That a completion finds its own callback needs that nobody
  else writes the slot while a request is outstanding, so that the token is
  exclusive (`OneToken`); that callbacks come once needs that a request that is
  being prepared was never loaded before and that call numbers are fresh
  (`CallsInProgress`, `RequestHistory`); that needs what the controller's state says
  of the outstanding request (`ControllerState`). `BlockInv` adds, under
  `SoleBlocker`, that the finish semaphore is up only for the waiting thread whose
  request is done. The refinement maps `told` to the requests that returned or
  were called back; `AbsStep` shows every step to be one of `CanTxAbs` or a stutter.
- `CanFilter`, `IInv`: the mutex has one holder or leaked, the list is filled
  without gaps, the hardware is programmed with it except between the steps of
  the thread that changes it, and callback, argument and RTR bit of an entry lead
  its visibility (`EntriesLead`): an interrupt between two stores then finds the
  new callback with its argument or with none.
- MCAN, `McanInv`: the two lists share places, so that for each place it must be
  known whose callback is in it, which registrations were told, and that only a
  removal can break the pairing. Senders: tokens are counted as a sum over
  threads and buffers, with finite-set lemmas, and `LoneInv` follows one sender
  with the finish semaphore one ahead.
- `UdcEp`, `UdcInv`: a queue without repetition whose members are disjoint from
  what the stack has, and for a claimed endpoint who is going to release it.
- UART, `UartInv`: the state of reception as one record, in phases; how far the
  channel is, how far reports are, and who owns each buffer. The current buffer
  of the driver is the address of the channel as long as reception is on, even
  after a DMA error; without that a late receive timeout could not be placed.
- SPI, `SpiInv`: lock, format, chip select and job belong to one caller until a
  wait was given up, in the DMA build by the order of the two completions, in the
  interrupt build by what is left in the FIFO.
- I2C, `I2cInv`: messages counted by caller, interrupt and wire are in step
  (`InStep`), and fit what was loaded (`Fits`).
- SD requests, `RequestInv`: the thread inside a request has the mutex of its
  host; as long as nothing was excused a controller no thread waits for is quiet
  and one that works does so for the thread that polls it (`Served`), so that a
  completion flag can only be its own; and there is one user of the bounce
  buffer, which holds its data whenever the controller or the copy is about to use
  it (`Bounced`).
- SD settings and events: `Applied` relates each remembered setting to the
  hardware for every value a stage may leave behind; `Wanted` and `Registered`
  say in which step of the registration callback and argument may differ.
- Flash, `EraseErases`: an action property. It needs type correctness and the
  arithmetic of sectors: which ones the loop visits from any offset and for any
  size, and in which order (`Div`, `Mono`, `DivIs`, `SectorsInOrder`).
- USB control, `CtrlInv`: an OUT direction that is not soiled has one buffer
  queued, of the host's transfer, exactly when it is busy, in the stage that
  waits for it; with nothing soiled the request is pending, refused or answered,
  once. OUT is soiled only together with IN, which `Dequeue` and `Unmark` alone
  make exact again, because between the two nothing is queued.
- Ethernet, `EthInv`: who has the mutex and the descriptor, and for a received
  frame who is going to read it (a pending status, a given semaphore or a running
  loop). ADC, `AdcInv`: who has the lock and whether a completion of this
  sequence is still to come. Camera, `CamInv`: each buffer is in one place. PWM,
  display, link, GPIO: the relation between what was promised and the registers,
  with lemmas about rounding, rows and cache lines.

The proofs are laid out alike: the initial state, one lemma per action (with a
step per conjunct the action can disturb), one lemma that puts them together
over `Next`, and a theorem by temporal logic.

### What the proofs showed about the models

- In `McanTx` the obligation to raise the shared flag (`FlagIsOwed`) was nested so
  that an exemption covered more than it meant; in `CanFrame` two `CASE` guards
  overlapped, which TLC resolves by order and the logic does not; in `UdcEp` an
  `@` inside a nested `EXCEPT` meant another field than intended by a reader. All
  three were rewritten.
- `I2cBus`: the index of `Transmit` after the end of a message was undefined. It
  is reachable in the code (see the observations) and now bounded by `Beyond`.
- The instances had assumptions that were nowhere written down, such as that
  clock 0 is a rate of the card. They are named now.

### Only model-checked

The liveness properties: `SendReturns`, `FrameIsRead`, `BufferTurnsOver`,
`EnqueuedReturns`, `RequestReturns`, `CtrlCompletes`, `I2cReturns`. They rest on
fairness, hence on `ENABLED`, which is out of reach of the provers used. No module has a
`RECURSIVE` operator; sums and counts are over finite sets or recursive functions.

## Findings and observations

Findings are runs that violate what a comment or an assertion in the code says:

1. `cantx_two_blockers`: two threads that send with a NULL callback share
   `tx_fin_sem[0]`; one takes the completion of the other.
2. `canfilter_remove`: `hpm_can_remove_rx_filter` moves the last entry of the
   list but not its callback, argument and RTR bit.
3. `uart_torn`: `rx_buf_rsp` from a thread is two stores the DMA interrupt can
   fall between; the assertion at its head then fails at the next call, and one
   transfer runs with length 0.

Seen while modelling, and part of the models, but checked by no run of their
own:

- MCAN's `tx_fin_sem` starts at one, so the first blocking send returns before
  its frame is sent and every later one takes the completion of the frame
  before (`LoneSenderIsServed` bounds the lead to one).
- A filter change or stop while a CAN frame is outstanding drops it: its token
  is not given back, later sends time out (`lost` in `CanTx`).
- An add that finds the filter list full keeps `inst_mutex` (`leaks` in
  `CanFilter`, an exemption in `ListIsSound`).
- A filter matches in software by identifier first and by RTR bit afterwards: a
  frame another registration wants can be dropped (`owed` in `CanFilter`).
- `hpm_can_send` asks for BRS and `send_batch` for FDF before accepting ESI. With the
  controller in CAN FD mode a frame with BRS, or BRS and ESI, and without FDF is
  accepted, and arrives as a classic frame without either.
- A failed MCAN send leaves `has_sent_out` down for all controllers
  (`faulted` in `McanTx`).
- The UART receive timeout may report the last byte of a buffer before the DMA
  interrupt does; the buffer is then switched without being released
  (`dropped` in `UartAsync`). A buffer queued when reception is disabled is not
  released either. With no buffer queued, a full buffer is released twice.
- After a DMA error reception stops without an event, and a later
  `rx_disable` finds the channel idle and does not stop it.
- A USB call looks at the head of the queue and claims the endpoint afterwards;
  if all queued transfers complete in between, it transfers a buffer the stack
  already has back, and an IN completion that then finds the queue empty leaves
  the endpoint busy.
- A USB dequeue under a running transfer returns the buffer while the
  controller still works on it. After a transfer error, a bus reset or a disable
  the endpoint stays busy until a dequeue. An enqueue that returns `-EIO` leaves
  its buffer in the queue.
- With the asynchronous API alone the UART interrupt line is not enabled, so
  the receive timeout works only after a call of `irq_rx_enable`.
- A MCAN filter removal takes an entry of the standard list along when one of the
  extended list has the same identifier; callbacks do not move with their
  entries, so a removal in the middle mixes them up; identifiers may be handed
  out twice; a full list keeps `inst_mutex`. One message is read per interrupt,
  so a backlog in the FIFO never shrinks. All controllers share `s_can_rx_buf`.
- SPI: when the controller refuses a transfer, the DMA build returns 0; errors
  leave the chip select on; a timeout leaves the hardware running; a pair of DMA
  channels of which the second does not start leaves the first armed; with DMA,
  the first side that ends ends the wait, so that the receiving side of a
  transfer in both directions may be cut; bytes left in the FIFO are read by the
  next transfer; a later chunk that is refused in the interrupt build leaves the
  caller to its timeout, and a FIFO word that fails leaves the flag set with the
  buffer pointer advanced.
- I2C: the status is read after the unlock; registering a target keeps the bus
  mutex, refused or not; a FIFO that is full when the transaction completes
  ends the transfer one message early; a device that stops acknowledging data
  goes unnoticed; a receive interrupt after the last message reads beyond `msgs`;
  and when a target was registered and unregistered with an address hit pending,
  the FIFO-empty interrupt is on again after the message, and the loop that
  fills the FIFO writes past its end (`Beyond` in `I2cBus`).
- Ethernet: acknowledging transmission clears every other pending status bit,
  so a received frame may stay in the ring until the next; the descriptor is
  read before the mutex is taken; the interrupt of a send that timed out ends the
  wait of the next; an allocation failure ends the receive loop with frames in
  the ring; the interrupt is enabled before its semaphores are initialised; the
  link work ends for ever when it runs before the interface is set; the carrier
  is reported on at start-up without asking the PHY; `eth_set_config` returns
  an uninitialised value for the types it does not handle.
- Camera: the handler reads `cam_buffer` before testing it; its signal is always
  `VIDEO_BUF_ERROR`; each start of frame rotates the queue; flush without cancel
  waits for ever when the stream is off; the second frame buffer is never used;
  after a refused set_format the next stream writes a buffer that is not queued.
- SD host: the bounce buffer is shared by all controllers while each has a
  mutex; the interrupt clears the bits a request polls, which then times out;
  without retries an error makes the counter wrap, and without a card the loop
  never ends, with the mutex held; a data request whose opcode is not in the
  list of `hpm_sdhc_request` is sent as a plain command and returns 0 with the
  caller's buffer untouched; after a timeout the transfer goes on into the buffer.
  A failed switch to 1.8 V leaves the clock off and the old voltage noted, so that
  going back to 3.3 V does nothing; a failed change of the clock likewise, so that
  asking for the old rate returns 0 with the clock stopped, and at start-up its
  result is not looked at; nor is that of `pinctrl_apply_state`, and
  `snippets/sdhc/boards/hpm6800evk.overlay` defines the default state only.
- SD card events: the callback is stored before its argument; the detect pin has
  one edge; disabling one source of it disables the pin; the SDIO interrupt is
  acknowledged without a call; `enable_interrupt` clears enable bits of other
  sources; a second event of a kind between the reading and the clearing of the
  flags is cleared unheard; with both flags up the insertion is told first,
  whichever came last.
- Flash: the flag is set before the initialisation and its failure is ignored; a
  size below four bytes is an endless loop; with an unknown sector size the erase
  loop may not advance, with interrupts locked. An offset within a sector may leave
  the end of the range as it was, with 0 returned, and the sectors of a failed
  erase before the failure are erased.
- ADC: a hardware trigger that stays connected completes sequences nobody asked
  for: the next read ends early, and results go to a buffer the caller has back;
  the size of the buffer is not looked at; a completion between the two clears
  of the handler is lost, and the reader waits for ever, holding the lock.
- GPIO: a masked write is a read and a write without a lock. Both edges at once
  are refused.
- PWM: version 1 sets output, polarity and waveform up only when the reload
  value changes, which all its channels share (pairs in version 2); after a failed
  set-up the reload stays, so that a second call returns 0 and sets nothing up. A
  period beyond the counter and the compare value are split apart from one
  another, so that the count of the compare may be one the counter never reaches.
  In version 2 the comment at 252 says that an odd channel needs the
  four-compare mode of its pair; the code enables it only while the even channel
  has never had a value take effect, and disables it in every other case: with
  both channels of a pair in use, whichever is set last leaves it off, unless the
  odd one comes before the counter reloads.
- Display: the bring-up ignores failures; when the layer fails, the frame buffer
  is freed and used; a pitch wider than the rectangle copies more than the
  rectangle; the write-back misses the tail of a row that is not a whole number
  of cache lines; the LVDS driver waits for its PLL without a timeout.
- USB control: a buffer that an overtaken transfer left in the IN queue answers
  the next transfer, and so on until a bus reset; the OUT mark survives an
  overtaken OUT stage; `udc_hpm_ctrl_feed_dout` frees a buffer it leaves in the
  queue when the endpoint is busy.

## What is not modelled

Within the modelled drivers:

- UART: polling, configuration and interrupt-driven calls; `uart_tx_abort`, which
  passes the UART's device to the DMA driver, so that its effect depends on
  memory layout.
- USB: suspend, resume and VBUS events, start and shutdown, the bounce buffers;
  on the control endpoint, an allocation failure in the data stage and a refused
  transfer.
- DMA: reload, parameter checks and the choice of transfer widths.
- CAN: set_mode and bit timing beyond their effect of a reset; two control
  threads at once.
- SPI: the asynchronous API and the polled build. I2C: messages beyond the FIFO
  counter, reads continued without a restart, the bytes of the target.
- Ethernet: PHY access, packets over several descriptors, statistics.
- Camera: formats and controls, the MIPI CSI bridge.
- SD host: card_busy, the reset call, host properties. Display: formats,
  capabilities and register settings.
- ADC: asynchronous reads, samplings at intervals (channel set-up keeps no state). GPIO: level interrupts, input
  options. PWM: calls that interleave, and whether an extension of 16 fits the
  field of the register, which is the SDK's.
- Start-up of every driver beyond the values it leaves; clock control, pin
  control, the CherryUSB glue, samples, boards, build files and documents.

## Plan

Modelling: the CDC ACM ping-pong buffers of the CherryUSB glue and the
asynchronous SPI API are the operations left with concurrent state.

Proofs: the safety properties are done. What would say more is, in this order:

1. Abstract specifications and refinement beyond `CanTxAbs`: `UdcEp` as a FIFO of
   buffers that each come back once; reception of the UART as a stream of bytes
   cut into buffers; a lock with one owner for `SpiXfer`, `I2cBus`, `AdcSequence`.
   The inductive invariants have what the step-by-step proofs need.
2. The safety half of the liveness properties, as action properties: what makes
   each wait end is never undone (a measure that no step increases).
3. Exemptions made smaller: several properties excuse all that follows an event
   (`note`, `ethOdd`, `odd`, `soiled`) where a dequeue, a recovery or a new set-up
   makes the driver exact again, as `CtrlIsOwn` already states for the IN direction.
