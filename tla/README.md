# Anacleto: TLA+ models, checks and proofs

Anacleto is a build system and a collection of projects for Zynq boards (Red
Pitaya and others) used in nuclear-fusion data acquisition. Each project pairs
FPGA logic (VHDL, Verilog) with a Linux kernel driver and small programs. This
directory models the parts that carry logic of their own: the transient
recorders' drivers (`rfx_nioadc`, `mit_jasadc`, and the older `rfx_spdgauss` and
`rfx_rpadc`), the recorder itself (`trarec`), the pulse generator
(`w7x_timing`) with its library, the AXI-DMA examples (`rfx_dmatests`) with
their clients, the XADC driver, and what every driver takes and gives back
when it is probed, opened, closed and removed.

## Inventory

Paths are under `src/projects/` unless they say otherwise.

| component | source | state | operations | hard behaviours |
|---|---|---|---|---|
| **rpadc_fifo driver** | `rfx_nioadc/linux/src/rpadc_fifo.c`, `.h`; copy in `mit_jasadc` | ring (`fifoBuffer`, `wIdx`, `rIdx`, `bufCount`, `bufSize`), flags `busy`, `armed`, `fifoOverflow`, `fifoHalfInterrupt`, wait queue; configuration registers; time FIFO | `IRQ_cb`, `device_read`, open, release, poll, about 20 ioctls | handler, readers and ioctls on two cores; a lock that ARM and STOP do not take; order of acknowledge, mask and occupancy read; lost wake-ups; FIFO and ring full; times popped in two reads |
| **acquisition program** | `.../rpadc_fifo_test.c` | which acquisition is running | open, STOP, configure, CLEAR, RESET, ARM, TRIGGER, read loop | what is left of the previous acquisition |
| **AXI-stream FIFO cores** | external | words, status and enable bits | push, pop, clear, interrupt | full FIFO; two cores, samples and times |
| **trarec recorder** | `rfx_nioadc/src/trarec.vhdl` | state machine, circular buffer, time counter | two clocked processes on opposite edges | memory latency of two clocks; wrap; a 64-bit time sent as two words while it counts; trigger during readout; stop in any clock |
| **stream drivers** | `rfx_spdgauss/linux/src/axi_stream_fifo.c`, its template in `src/fpga/hsi/linux-bsp/bsp/axi_stream_fifo/src`, `rfx_rpadc/linux/src/rpadc_fifo.c` | as rpadc_fifo without ARM and STOP | `IRQ_cb`, read, select, open, release, RESET, CLEAR, SET_BUFSIZE | a handler that survives release; overflow that must be told |
| **w7x_timing generator** | `w7x_timing/src/*.vhd`, `w7x_timing/linux/w7x_timing_lib.c` | pulse-program state machine; register buffer in a second clock domain | make clock or sequence, arm, trigger, disarm, reinit | boundary values of delay, burst and repeat; a program of nine writes cut by a trigger |
| **axidma example 6 and client** | `rfx_dmatests/linux/axidma_example6.c`, `test_example6.c` | two rings of buffers shared by mmap, semaphore, two threads | request, release, read_next, write_next, start, stop, poll | producer that may overtake consumer; a flag cleared before a wait |
| **axidma examples 1 and 3** | `rfx_dmatests/linux/axidma_example1.c`, `axidma_example3.c` | two channels with queues, completions, mapped buffers | transfer, mmap, transfer of mapped buffers | a wait with a timeout that leaves descriptors, callbacks and buffers behind |
| **xadc driver** | `mit_jasadc/linux/src/xilinx-xadc-core.c`, `-events.c`, `.h` | shadow registers, alarm and interrupt masks, command FIFO, triggers, buffer | reads, writes, events, thresholds, sampling rate, sequencer, handlers, delayed work | answers one command late; a worker and a handler that share masks; two numberings of alarms; fields that share registers |
| **device life cycle** | every driver above, `rfx_pwmgen`, `rfx_spalk`, `axi_mmio`, examples 0 to 6 | device numbers, class, cdev, mappings, irq, buffers, channels, open counter | probe, remove, open, release | open during probe; two opens; a failure in the middle |
| AXI register slaves, pwm, circular_buffer, vendored cores, build system | | | | not modelled, see below |

How the recorder's parts interact:

    ADC -> decimator -> trarec --samples--> AXI FIFO 0 --IRQ--> IRQ_cb -> ring -> device_read -> program
                          |  \---times----> AXI FIFO 1 <-- LAST_TIME ------------- device_ioctl <-/
                          \<-- command register (arm, stop, trigger) ------------/

Handler and `device_read` share the ring under a spinlock and a wait queue;
`device_ioctl` writes the same fields without the lock; recorder and driver
share only the FIFOs and the command register. Program and driver share the
protocol of calls. The DMA examples share channels and completions with the DMA
engine's tasklet, and in example 6 memory and positions with the program. The
XADC's handler, delayed work, trigger thread and callers share the masks and
registers under a mutex and a spinlock, which cover different parts.

What makes each part correct:

* recorder drivers: no sample lost (but by a full FIFO or ring, and then the
  overflow is told), repeated or reordered; none of the previous acquisition in
  the next; no word without an interrupt coming, no sleeper without a wake-up
  coming; ring arithmetic in bounds; the two words of a time belong together;
* recorder: each frame is complete, in order, and the one asked for; the time
  belongs to the frame; a new trigger does not destroy the frame being read;
* w7x_timing: an accepted program never ends in the error state, its output is
  the schedule asked for, tick by tick, and a half-written program never starts;
* axidma: a buffer belongs to one side at a time; a ring is a queue; what poll
  promises holds; a transfer reported done is the call's own;
* xadc: a read returns the answer to its own command, shadow registers agree with
  the hardware, an event is reported only if it occurred, a masked alarm is
  unmasked;
* life cycle: who has the device open has what it asked for and is alone, and
  what has been taken is given back.

## Modules

| module | models | about |
|---|---|---|
| `RpadcFifo` | `rpadc_fifo.c`, sample path | every access to shared state is a step of handler, reader or ioctl |
| `RpadcControl` | `rpadc_fifo.c`, the rest of `device_ioctl` | configuration registers and the time FIFO |
| `RpadcDriver` | | both halves of the driver |
| `RpadcSession` | `rpadc_fifo_test.c` over `RpadcFifo` | the order of calls of an acquisition program; the driver's promises |
| `SampleStream` | (abstract) | what an acquisition promises: a lossy stream, in order and without repetition |
| `StreamFifo`, `StreamPromises` | `axi_stream_fifo.c`, rfx_rpadc's `rpadc_fifo.c` | the two older drivers, chosen by `kind`; their promises |
| `Trarec`, `TrarecFrames` | `trarec.vhdl` | both processes, edge by edge; history and properties of frames and times |
| `W7xTiming`, `W7xSchedule` | `w7x_timing.vhd`, `w7x_timing_v1_0.vhd`, `w7x_timing_lib.c` | state machine, registers and library; the schedule a program stands for |
| `XdmaRing` | `axidma_example6.c`, `test_example6.c` | both rings, sender and receiver threads, the client's calls |
| `DmaTransfer` | `axidma_example1.c`, `axidma_example3.c`, `test_example3.c` | one transfer out and back, and what is left of earlier ones |
| `XdmaExamples` | | one of the two is loaded |
| `XadcEvents` | `xilinx-xadc-events.c`, parts of `-core.c` | the four numberings of alarms |
| `XadcZynq`, `XadcZynqPromises` | `xilinx-xadc-core.c`, `xadc_zynq_ops` | command FIFO, handler, delayed work |
| `XadcAxi` | `xilinx-xadc-core.c`, `xadc_axi_ops` | sequencer, triggers, buffer, sampling rate, handler |
| `Xadc` | | a device with either set of operations |
| `CharDevices` | probe, remove, open, release of every driver | one table of steps per function |
| `CharDriver` | | runs a driver's tables: loader, driver core and programs |
| `RpadcProofs` (about `RpadcFifo`, `RpadcSession`, `RpadcControl`), `StreamFifoProofs`, `TrarecProofs`, `W7xProofs`, `XdmaRingProofs`, `DmaTransferProofs`, `XadcProofs`, `CharDriverProofs` | | theorems |
| `MC*` | | instances for TLC |

### RpadcFifo

Variables keep the names of `struct rpadc_fifo_dev`. A thread's program counter
and registers are variables of the module: `hpc` of the handler, `rpc[r]` of a
thread in `read()`, `cpc` of the thread in open, release or an ioctl. The labels
cut the code where another core can see or change something:

* `IRQ_cb`: `IrqEnter` (acknowledge), `IrqMask` (disable, read occupancy),
  `IrqCheck` (overflow flag), `IrqPop`, `WriteBufLock`, `WriteBufStore` (one
  iteration), `IrqAbort` (ring full), `IrqExit` (wake, enable).
* `device_read`: `ReadTest`, `ReadWait`, `ReadWoken`, `ReadOcc`, `ReadBufLock`,
  `ReadBufTake`, `ReadReturn`.
* ioctls: one action, or a first action and its continuations (`Arm`, `ArmPop`,
  `ArmIndex`, `ArmCount`, `ArmCmd`, `ArmFlag`; `Stop`, `StopWake`, `StopFlag`).

`writeBuf` and `readBuf` hold a spinlock and still take two steps, load and
store, because ARM and STOP write the same fields without the lock. A word is
the number of the sample, `0` (what an underflow returns) or `Junk` (memory
nobody wrote). `FIFO_LEN`, `BUFSIZE` and the threshold are constants.

The AXI FIFO's interrupt is taken as edge-triggered, as the driver requests it:
`pend` is the latched edge. The recorder is only its three states and a stream
of numbered samples: the frames are the business of `Trarec`.

### RpadcControl

What `device_ioctl` does beside the sample path. `regs` are the mode, pre/post
and decimation registers, packed as the code packs them (a byte has `Byte`
values, a short `Short`). `times` is the second FIFO; LAST_TIME is three steps,
the look at the occupancy and one for each word. The recorder's time stream is
external and taken from `Trarec`: a low word, a clock later a high one, and a
high one again and again if it is stopped in between. RESET, CLEAR and ARM empty
this FIFO each in its own way (ARM pops what it has counted).

Two things the model shows and no property contradicts: LAST_TIME refuses a
*full* FIFO, for ever, until it is cleared; SET_CONFIG is not refused while the
recorder is armed.

### RpadcSession

The program configures and arms only between acquisitions, when the driver has
come to rest (`Quiet`): the test program sleeps for a second after STOP. Without
that a handler that is still copying would mix two acquisitions, which nothing
in the driver prevents. History: `acquiring`, `base`, `delivered`, `lost`.

### StreamFifo

`kind` chooses the driver. They differ in one thing: when the ring is full,
`axi_stream_fifo.c` leaves the handler with the interrupts disabled, rfx_rpadc's
copy drops the word silently and goes on. (Its ring of 1024 is half the FIFO's
2048, so it drops words on every full FIFO.) Programs follow each other:
release may leave the interrupt enabled, so that the next program's RESET or
CLEAR empties the FIFO under a handler (`hist.raced`). `armed` is never set in
these drivers: a read that had to sleep returns 0.

### Trarec

`Rise` is the rising edge: one action of `handle_state` per state, the block
memory, the sample strobe, then the new inputs. `Fall` is the falling edge:
`handle_cbuf`. A sample is its number and whether it is beyond the threshold.
The block memory (two clocks) and the decimator (a sample in `dec` clocks at
most) are external. A word of the time stream has `WordSize` values.

### W7xTiming

`head` and `ctrl` are the two halves of the register buffer, `save` the saved
program of reinit mode, `times` the memory of the times, `fsm` the signals of the
state machine. Each VHDL procedure is a function from the signals to their next
values, so that a chain of calls in one clock (`do_waiting_low` to
`start_waiting_sample` to `start_waiting_repeat` to `start_cycle`) is a
composition, as it is there. One action per state, each a whole tick.

The library's calls put their register writes in `todo` and `Write` does one of
them, between any two ticks: this is where a trigger can find half a program.
`CHECK_INPUTS` and the validation are `Filled` and `Accepted`; a rejected call
writes nothing.

What is assumed: the memory delivers a word one tick after its address (its
output is not registered, `prj_tmp/system_2015.4.tcl:172`); a store of the processor
takes longer than a tick, so `times[0]` has been read when the count is written;
formatting messages and sleeping take the library longer than a tick, which
`reinit` needs between disarming and writing (the pseudo-write `"idle"`); the
bus clock is the faster one, so `update_buffer` acts with the step that causes
it. A program replaces its program before the trigger or during the delay: one
that writes while pulses run is cut off from the properties (`excused`).

`W7xSchedule` counts the ticks since the trigger and knows whether the registers
hold one whole program. A shot whose program has no pulses is excused: the
library accepts `width`, `burst` or `repeat` 0, and the state machine then goes to its
error state or back to `ARMED`. So is one that starts on a time of the shot before
(`Read`; see the findings).

### XdmaRing

A ring is `r_pos`, `w_pos`, the memory `mem` and where each buffer is mapped,
`addr`; `tpc` and `xpc` are the sender's and the receiver's program counters, `ppc`
the client's. A position has one writer, so looking at the other position and
moving one's own is a step (the comment in the module says why). What
`xdma6_release_buffer` does in two places that the sender can tell apart, moving
the position and raising `state_has_txdata`, is two (`Enqueue`, `Tell`), and so
is clearing that flag and sleeping (`TxForget`, `TxWoken`).

The client sets up its rings as `ring_buffer_init` does, buffer by buffer, and
then sends and receives as `try_send_something` and `try_receive_something` do,
in any order, but no more than `Window` messages ahead; the test's loop is
`Window = 1`. Its poll goes on after ten seconds: in the model only if nothing
else can happen. It may be run again, with the semaphore and the flags the last
run has left. History: `queued` and `ready`, what has been put into a ring and
not taken out. Assumed: the ring for receiving has two buffers more than the
window, since the receiver does not look where the reader is; `kthread_stop` of
a thread that has ended returns.

### DmaTransfer

A call goes from place to place of `axidma_test_transfer`: allocate, submit both
descriptors, check, issue both, wait. It waits for the transmitter only, ten
seconds in example 3 and three in example 1, then compares and frees. The
channels' queues (`submitted`, `issued`, `callbacks`) and completions outlive the
call: a descriptor whose submission was refused half way, a transfer that timed
out and a receiver that is late are what the next call finds. `stale` marks the
channels on which something was left. `dma_alloc_coherent` gives the lowest free
address, so that freed memory is soon another call's. The client takes a refused
mmap for a good one; TEST_MMAPTRASFER returns 0 even after a timeout.

### XadcZynq, XadcAxi

On a Zynq every register access is a command in a FIFO whose answer comes with the
*next* command; a caller sleeps until the handler completes it, at most a
second, or until a signal. What a caller does under the mutex is a sequence of
accesses (`call.todo`); what the spinlock covers is one step; the handler reads
status and masks before it takes the lock, the worker before and after. On the
AXI cores an access is immediate, so that a function under the lock is a step;
the buffer's set-up is a sequence of register updates, between which others run.

The models keep what the code does, odd as it is: both triggers write
`XADC_CONF0_EC`, a bit of CONF0, into CONF1, where it disables vccpint's alarm;
`xadc_parse_dt` uses `reg` before it has read it; the handler acknowledges after it
has served, so that an event in between is lost.

### CharDevices, CharDriver

`CharDevices` has for each driver's four functions the sequence of what it takes,
tests, counts and gives back, with what it gives back when a step fails.
`CharDriver` runs these sequences step by step: the loader and driver core, and
two programs. Several drivers share a table where their text is the same. The
exceptions in the properties are the drivers' own: an open refused with EPERM
leaves the counter raised (pwm, mmio) so that the device stays busy for ever, or
leaks ring and interrupt (ring drivers); the ring drivers reset `busy` before they
test it; `axi_mmio` takes interrupt and mappings before it tests; a failed probe
undoes nothing; the cdev drivers never give their numbers back; example 1 gives
its channels back twice.

## Runs

| run | instance | shows |
|---|---|---|
| `fifo` | 1 reader, FIFO 1, ring 2, 2 samples, any order of calls; time FIFO 4, 3 triggers, four configurations at the limits of every field | ring arithmetic in bounds whatever ARM, STOP, CLEAR and SET_BUFSIZE race with, no interrupt edge missed; times stay in step, GET_CONFIG answers what SET_CONFIG was given |
| `session` | 1 reader, FIFO 2, ring 2, 3 samples, both interrupt modes | no underflow, no lost wake-up, and `RpadcSession` implements `SampleStream` |
| `shared` | 2 readers (symmetric), FIFO 1, ring 2, then 1 | samples are conserved for two threads on one descriptor and a ring resized between acquisitions |
| `live` | as `session`, 2 samples, first-sample mode, fairness | delivery, and STOP releases a sleeper |
| `stream` | both drivers, FIFO 2, ring 2, then 1, 3 samples, fairness | conservation over several programs, an overflow is told, delivery |
| `trarec` | buffer of 6, five configurations, 8 samples, words of 2 bits | contents, length and completeness of frames, times, and when a frame is not truncated |
| `w7x` | memory of 2 times, times up to 9, three programs (one of them rejected) and reinit | every tick of an accepted program is the schedule's; it ends on time; no error, no half program, no shot that was not asked for |
| `w7x_delay` | the same | finding 1 |
| `xdma` | rings of 3 and 5, window 3, 6 messages, DMA faults, any number of runs of the client; or memory for 3 buffers and 2 transfers | both rings are queues, no buffer has two users, poll's answers hold, STOP returns; a transfer reported done is the call's own, with its own data |
| `xdma_lost` | window 1, 3 messages, no faults | finding 2 |
| `xadc` | Zynq: temperature and vccpint, thresholds 0 and 1, 2 calls; AXI: vccpint, two channels from the device tree, two scan masks, two rates, 2 calls beside the buffer | reads, shadow registers, scans, events, unmasking |
| `drivers` | every driver, two programs (symmetric), 4 opens and loads, one kind of failure | who holds the device has it, alone, and everything is given back |

Bounds. With 2 words the FIFO can be empty, half full, full and overflow, and
the ring can wrap, fill and abort the handler; 3 samples fill both places and
wrap the ring, and are split over two acquisitions. A time FIFO of 4 holds two
times and can be full in the middle of a third. In `trarec` the buffer wraps in
each configuration, frames overlap (samples in two frames), and 8 samples are
enough for two triggers; the configurations are one with `post > trig`, one with
`post` = `pre`, one whose `pre` is the buffer less one with decimation 2, one
with the truncation bound reached, and the streaming mode. In `w7x` the programs
have no delay or one, a first pulse at 0 or later, one pulse a burst or two, pauses
between bursts and cycles or none, and a repetition; each counter takes the value at which it is compared, and a
program can be replaced by another at every tick of the delay. In `xdma` the
sending ring is full with one message waiting, the receiving ring goes round
with 6, and the window is the largest it allows; memory for 3 buffers is one more
than a call needs, so that a late receiver meets the next call's buffers. In
`xadc` two alarms are enough for one to be masked while the other is reported,
and two calls for one to find what the other has left. In `drivers` one program
is open while the other tries, and the module is loaded a second time.

Bounds on counters are `MaxSamples`, `MaxTriggers`, `MaxMsgs`, `MaxTransfers`,
`MaxCalls`, `MaxOps` and `MaxFaults`; every other variable is bounded by the code.
Deadlock is checked in all runs but `drivers`, where nothing is left to do once
the calls are used up.

Fairness. `RpadcSession` and `StreamFifo`: weak fairness of the handler, of calls
already made, of each thread inside `read()` and of calling `read()` again,
because the kernel schedules runnable threads and serves interrupts; no fairness
of samples, triggers, signals, STOP or release. `Delivery` does not hold in
half-size mode by design: fewer words than the threshold wait for more.
`XdmaRing`: kernel threads run, transfers and timeouts end, calls return; none of
starting a transfer, a run or STOP. `XadcZynq`: interrupts are served, the
delayed work runs once it is due, and a call goes on; none of alarms or calls.

## Findings

Shown by a run:

1. `w7x_delay`: "If the device is not configured before the end or delay, it
   should return to armed state (i.e. if count=0 or repeat=0)"
   (`doc/timing-board.tex:197`), but with a delay of 0 the short cut
   (`w7x_timing.vhd:252`) starts a cycle without looking at either.
2. `xdma_lost`: the sender clears `state_has_txdata` (`axidma_example6.c:530`)
   after it has found the ring empty; a message enqueued in between wakes nobody.
   The client waits for its answer, times out, and its request fails and keeps
   the semaphore: no later request succeeds. `test_example6.c:174` treats a
   failing request as an error.

Known from the models, and excepted by the properties where they matter:

* the branch of `readBuf` marked "Should never happen" (`rpadc_fifo.c:114`)
  happens when STOP stores `bufCount = 1` (574) under a reading loop;
* if `STATE_TRIGGERED_WAIT_POST` (`trarec.vhdl:338`) lasts a single clock, bit 1
  of the time mask stays set and the time FIFO is filled with high words;
* a trigger takes `trig_samples + 2` samples beyond the threshold
  (`trarec.vhdl:315`), not `trig_samples` as `rpadc_fifo.h:116` has it;
* `start_cycle` takes its short cut for a first pulse at 0 by what the memory
  delivers (`w7x_timing.vhd:154`), and the memory follows `sample_count` a tick
  later. After a shot that was cut short, a trigger that is held when the
  generator is armed meets a later time of that shot: with a delay of 0 the pulse at
  the sequence's start (`doc/timing-board.tex:109`, 117) is lost, and the shot
  ends with an error;
* in reinit mode the FPGA restores the saved program while it is armed, so writes
  of a call that the trigger cuts in two are lost in the first half only
  (`program = "mixed"`).

Seen in the code and not modelled: the XADC's clock divider is computed as a
division by zero if the core's clock is below 26 times the rate; ending its
delayed work does not wait for it.

## Proofs

The first part of `RpadcProofs` is about the driver alone, for any number of
readers, any sizes and any order of calls, from `FifoAssumption` (sizes are positive):

* `TypeCorrect`: `Spec => []TypeOK`. The count is a natural number although
  `readBuf` decrements what it loaded and ARM and STOP overwrite it: the loaded
  value is tested before. The invariant adds `LoopBound`: a thread in `readBuf`
  has an iteration left.
* `InterruptLatched`: `Spec => []EdgeLatched`. Inductive by itself: every step
  that raises the line goes through `SetBits`, and the only step that clears
  `pend` clears the status bits too.
* `RingBounded`: `Spec => []RingBounds`, for programs that do not resize the
  ring. `Bounded` adds the values in the registers of a core in its locked
  section: they are in bounds when loaded and when stored back, so a store of
  ARM or STOP in between is harmless for the bounds (though not for the data).

Its second part: a session is first shown to be a behaviour of the driver
(`SessionTypes`), so that `TypeCorrect` carries over. `OrderInvariant` holds of
every session: the spinlock excludes (`Mutex`), nobody is in a closed device
(`Closed`), ARM finds the driver at rest (`Arming`). Then, for any FIFO, ring and
number of samples, if the ring is as long as the FIFO and keeps its size
(`FifoLen <= BufSize`, `BufSizes` adds no other):

* `WakeupKept`: `SessionSpec => []NoLostWakeup`, for any number of threads. The
  invariant `RingRoom` says what the property alone cannot: what is loaded from an
  empty ring is 0 (`Loaded`), and above all `Asleep`: while somebody sleeps, what
  the handler has still to store fits into the ring (`Roomy`), so that it cannot
  leave by the return that wakes nobody. A thread goes to sleep only on an empty
  ring, and there `FifoLen <= BufSize` gives the room; readers only make more.
* `NeverEmpty`: `SessionSpec => []NoUnderflow`, for a single reading thread. While
  the acquisition runs (`Running`) no call that stores the count is under way, and
  what a core has loaded in its locked section is the count; so the loop has no
  more iterations left than there are words (`Counted`). With two threads or with
  STOP it does not hold.

The third part of `RpadcProofs` is about every session, from
`FifoAssumption` only: any number of threads, any sizes, a ring resized between acquisitions, shorter than the FIFO or
not. The ring is read as a sequence: `ListsStore` and `ListsTake` say that
`writeBuf` appends to it and `readBuf` takes its head, modulo arithmetic included.
The invariant `FInv` is what makes the two true while handler and threads work on
the ring: ARM leaves FIFO and ring empty before the command (`Starting`), a core
in its locked section has loaded the very count and index (`Loads`), the words are
the slots from `rIdx` to `wIdx` (`Circle`), the handler finds in the FIFO as many
words as it has counted (`Enough`). `Onward` then lists what one step of a running
acquisition does to the words on their way: append, lose, drop, deliver, nothing.

* `Conserved`: `SessionSpec => []Conservation`. What was delivered and what is on
  its way are consecutive numbers from the arming on (`Tally`).
* `Implements`: `SessionSpec => StreamSpec`, the refinement of `SampleStream`: the
  initial states map to its initial states, every step to one of its steps or to a
  stutter.

The last part of `RpadcProofs` is about `RpadcControl`, for a time FIFO of any length,
any number of triggers and any requests, from `ControlAssumption` (a byte has a positive multiple of 8 values, a
short a byte's square; what is asked for fits into the fields of the structure):

* `InStep`: `ControlSpec => []TimesInStep`. The words in the FIFO are consecutive
  from the one owed to the one the recorder puts out next (`Run`); nobody but
  LAST_TIME takes any while it is between its two pops (`Popping`); ARM counts
  right because the recorder is at rest (`ArmCounts`).
* `ReadsBack`: `ControlSpec => []ConfigRead`. GET_CONFIG takes apart what
  SET_CONFIG has packed, whatever is interleaved: `Written` says how far
  SET_CONFIG has come, and the lemmas on fields (bits, bytes and shorts of a
  register) that each is found again where it was put.

`StreamFifoProofs`, for both older drivers, FIFO and ring of any size, requests of
any length, any number of samples:

* `OverflowIsTold`: `Spec => []OverflowTold`. A loss that nobody has been told of
  finds the FIFO still full, and the handler has seen that or will (`Told`).
* `SamplesAreKept`: `ASSUME Careful PROVE Spec => []Conservation`, `Careful` being the
  constant of a program that resizes the ring only while the driver is at rest,
  which `SET_BUFSIZE` needs and does not test; the run has it too. `Circle` keeps the ring's indices and count together, `Stages` says where
  the program is and what it has read, and `Kept` that the words delivered, in the
  ring, in the handler's hand and in the FIFO are one ordered row of numbers
  without those known to be gone. Each step moves a word from a part of the row to
  the next, or takes the words that are gone off it.

`TrarecProofs`, for a buffer and time words of any size, any configuration with
fewer pre and threshold samples than the buffer has places, any inputs and any
number of samples, from `TrarecAssumption`. A place of the buffer is a number
modulo its size (`At`); `Places` says that two numbers less than a buffer apart
share none, `Back` that the start address is the place of the first sample.

* `FramesAreLong`: `FrameSpec => FrameLength`. `Counting` relates the state machine's
  counter, which is reset, reused and compared in three states, to the samples since
  the first one beyond the threshold.
* `TimesAreTrue`: `FrameSpec => TimeWords`. `Clock` says what `trigger_time` counts,
  `Times` what mask, counter and last word say of the words still owed (`High`: the
  counter may be one ahead of the low word that is out).
* `FramesAreTrue`: `FrameSpec => FrameContents`, and `FramesAreWhole`: `FrameSpec =>
  []FrameComplete`. `Memory` says where the sample is that was taken last (on its way
  to port A, or in the buffer) and that the buffer holds the last `CbufSize` samples
  at their places (`Stored`). `Reading(r, e)` says that the words owed are those in
  the two stages of the memory (`Flight`) and the samples from `r`, where the read
  pointer is, up to `e`, where the frame ends for now; `Span` that none of them has
  been overwritten. It holds until a trigger comes before the frame is read.
* `NoFrameIsCut`: `FrameSpec => []NoTruncation`, when such a trigger cannot come. The
  samples to be read and those the frame may still append are no more than the
  clocks there are until the next trigger can be validated (`InTime`); this starts
  as exactly the hypothesis of `NoTruncation` on pre samples and decimation.

`W7xProofs`, for any arguments of the calls, any memory of times, any number of calls
and ticks, from `W7xAssumption` (at least one time; arguments and times are natural
numbers, delays of `reinit` within `MaxTime`):

* `Invariance`: `SchedSpec => []W7xInv`, in two parts. `Registers` is about the library.
  Whatever is left to write (`todo`) is a suffix of one call's stores: in it the words
  of the program are followed by its count and, if the count has yet to be taken away,
  all of them are there (`Queue`). So in every state either the registers hold a
  program that was accepted (`Valid`), or its count is 0 and every word is written or
  waiting (`Progress`). `reinit` saves only a program without repetitions, and only
  while the generator is idle (`Still`, `Saved`), so what the FPGA restores never
  counts as a program with pulses.
* `Shots` is about the state machine: in which cycle it is (`Round`), how far in it, and
  what the counters say of that place: in a pulse, before a time, or after the last
  (`InPulse`, `InWait`, `InPause`); and that the memory's output, which is a tick late,
  is the next time as soon as it is compared. One lemma per procedure leads a place to
  the next, to the next cycle, or to the end (`Leads`). What the library has checked,
  each time at least a burst after the one before and the cycle at least a burst after
  the last, is what keeps every counter from passing its mark. `TimesApart` carries
  it from neighbours to any two times, by a least counterexample.
* `OnTime`: `SchedSpec => []Schedule`. A place belongs to one cycle only (`OneRound`)
  and to one pulse at most (`CyclePulse`), so the schedule, which does not know the
  counters, says the same of the tick.
* `ArmedAtEnd`: `SchedSpec => Rearmed`: a shot that goes on is before its end
  (`ShotBeforeEnd`). `ErrorsAreExcused`: `SchedSpec => ErrorExcused`.
* `NoPartStarts`: `SchedSpec => NoPartialProgram`, and `OneShotACall`: `SchedSpec =>
  OneShot`, from the registers alone.

`XdmaRingProofs`, for rings of any size, any window and a DMA engine that fails,
from `XdmaAssumption` (rings of two buffers or more):

* `SenderExclusive`: `Spec => []SenderApart`, program and sender are never on the
  same buffer. While streaming the invariant is `Apart`, the two positions
  differ: each side looks at the other's before it moves, and what it has seen
  only gets better. It does not hold while the client sets up the ring, where the
  writer goes round twice, past the reader; `Laps` says where it is meanwhile, and
  so that it ends where it began, and `Quiet` that no sender runs. It rests on
  `AfterTx`, the arithmetic of a ring's successor.
* `RingsAreQueues`: `Spec => []RingIsQueue`, what lies between reader and writer of
  a ring is the sequence of messages on their way. `Wired` and `Lending` add the
  receiving ring, the memory map and the semaphore: a buffer in hand is the one
  asked for (`Hand`), and all addresses are known once the rings are used
  (`Mapping`). `Flow` counts the messages over both rings and the line
  (`LoadBound`): the client's window (at most the receiving ring's size less 2, by
  `XdmaAssumption`) bounds their number, so its writer never meets its reader.
* `ReceiverExclusive`: `Spec => []ReceiverApart`, from the same invariant.
* `PollIsKept`: `Spec => PollHolds`. What a poll has announced is still there when
  it is asked for (`Told`), as nobody else takes it.

`DmaTransferProofs`, for any memory and any number of transfers, from no
assumption on the constants:

* `OwnDone`: `DmaSpec => []OwnCompletion`, a wait that ends before its timeout has
  waited for the call's own transmission, unless an earlier call left something on
  the channel. Once issued, descriptor, callback and completion together are at
  most one thing (`OneThing`), because `init_completion` comes before the engine is
  started (`Reset`); taking the completion leaves nothing (`Nothing`).
* `DataIsOwn`: `DmaSpec => []OwnData`. Every descriptor of the call points to the
  buffers its handles point to (`Pointing`), which stay allocated as long as it
  lasts (`Holding`); if nothing is left of an earlier call, what the line and the
  receive buffer carry is the call's (`Carried`, `Answered`).

`XadcProofs`, for any channels, top value, device tree, clock and number of calls,
from `ZynqAssumption` and `AxiAssumption`. A lemma `...Does` states what an action
does to each field; the invariants are about the fields.

On the AXI core `AxiInv` is five parts: the alarms (`Truth`), the registers several
callers write (`Together`), how far the buffer's enabling or disabling has come
(`Stages`: what is still to do, done at once, would leave the sequencer as it should
be), and the trigger handler (`Scanning`).

* `ScanInPlace`: `Spec => []ScanPushed`. The buffer's scan does not change while the
  handler runs, and the channels it has still to do are those of the scan above the
  ones done; their number is that of the memory left.
* `RegistersAgree`: `ASSUME ClockInReach PROVE Spec => []AxiConfig`. The hypothesis
  is about the clock of the core: 150 kSPS must be no more than its 26th part and
  no less than that divided by 255, as it is from 3.9 to 994.5 MHz (the core is
  specified for far less than the upper end; below the lower one the driver
  computes a divider of zero). Only the part on the rate needs it.

On the Zynq:

* `EventsTrue`: `Spec => EventTruth`. `Raised` says of every place where an alarm
  can be on its way to the handler (the status register without what is masked, the
  copy the handler has read, before and after it has masked it) that it holds alarms
  that are due. `ClearDoes` is what makes it inductive: clearing a status bit whose
  condition is still present leaves it set.
* `ReadsTrue`: `Spec => []TrueReads`. While no access has been given up, `InStep`
  lists where an access is: commands in the FIFO, answers in the other, and the word
  in the latch that comes with the next command. Between accesses both are empty and
  DFIFO_GTH is masked, and the handler has nothing of it in hand (`Caught`).
* `ConfigIsTaken`: `Spec => []ConfigTaken`. A write of a call that gave up may stay in
  the FIFO for any time, so the invariant is about all of the FIFO: for a register
  that is neither given up nor still to be written by the call (`Pending`), the
  *last* write on its way has the driver's value, and if there is none the
  hardware has it (`Comes`). Every write of CONF1 keeps the sequencer's mode as
  long as all reads were true (`Sound`). `Opens` relates the interrupt mask to the
  enabled alarms.

`CharDriverProofs`, for every driver of the table, any number of programs, calls and
refusals, from `DriverAssumption`:

* `OpenerHolds`: `Spec => []HeldWhileOpen`, and `OpenerIsAlone`: `Spec => []Alone`.
  The table enters through three facts here: every open asks for what it needs, tests the
  counter, counts it and asks for the permission, in this order (`OpenShape`); no
  removal gives back what the driver's open asks for (`RemovePuts`: here the order of
  the steps does not matter, only what they are); example 1 and the XADC never make
  a char device (`NoFileSteps`). The properties are not inductive, as they say
  nothing of an open under way. `Apart` adds it: a program whose calls overlapped no
  others and that opens is beside one that has the device at most, and beside nobody
  once it has passed the test; one that has the device is beside opens that have not
  passed it (`Early`) and that do not reset the counter. `Places` says what each
  thread may still have to do: an open the rest of its table, a removal only steps
  that leave alone what opens ask for. An open step only ever adds to what is there
  or known to have failed (`OpenStep`), which is why an open that is refused takes
  nothing from the program that has the device.
* `AllIsGivenBack`: `Spec => []GivenBack`. `GivenBack` speaks of the end, when the
  module is removed (drivers of which a probe failed half-way excepted, but for the
  XADC, whose error paths undo what it did); the invariant, `Whole`, says at every step what is still to be
  given back and by whom. From the table it takes that a probe takes nothing
  twice and nothing an open asks for, that its error paths and the removal give back
  what it has taken, but for what `Excused` and `Leaked` name (`ProbeShapes`), and
  that a release drops the counter and, if it is the last, gives back what the
  open asked for (`ReleaseShape`). `Whole` adds four parts to the invariant of the
  other two theorems. `Load`: what probe and removal hold is what their functions have
  still to give back. `Quiet`: as long as no calls overlapped, a close finds everybody
  else out, the counter at 1 and all that it gives back held; probe and removal find
  everybody out, because the cdev of such a driver names its owner. `Due`: while
  nobody was denied the device either, the interrupt and the ring are taken once at
  most, exactly if their variables say so, and then somebody is there to give them
  back. `Tidy`: what was given back without being held is excused.

Only model-checked: all liveness, which is beyond the prover. Every invariant and
action property of the runs that pass is stated by a theorem. Where a property says
"while nothing was spoiled" or "gap", the theorem says the same: what holds
afterwards is left to the runs.

## Not modelled

* `rpadc_fifo`: poll, which reads `bufCount` and changes nothing; a second program
  that holds the device while the first acquires (`CharDriver` has the opens);
  reports (GETSR, OVERFLOW, GET_BUFSIZE) of the stream drivers.
* `w7x_timing`: output inversion, gating and the external clock switch, reading
  the status, and a 64-bit word written in two halves.
* `axidma`: `XDMA_REL_RINGS`, a client that is killed, two clients at once;
  TEST_TRASFER while a mapping exists, a length changed between mmap and munmap;
  the fill thread of example 4 and the ioctls of example 5, which use a device
  pointer that nothing sets.
* `xadc`: conversion of raw values to units, the strings of sysfs.
* read, write and ioctl of `w7x_timing`, `pwm` and `axi_mmio`: single register
  accesses.
* `rpadc_fifo_buffered.c` and `rpadc_fifoOLD.c`: in no Makefile, and the first does
  not compile. `circular_buffer.vhd`: instantiated by no design any more.
* AXI register slaves (generated handshakes), the pwm's counter, vendored 8b/10b
  and UART cores, decimation filters, autotools, kconfig and Vivado scripts.

Worth doing next: a killed client of example 6 and its successor.
