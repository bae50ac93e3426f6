# Formal models of ibex_axi4l

This directory holds TLA+ models of the Ibex SoC with AXI4-Lite bus that this
repository describes in SystemVerilog, of the programs that run on it (the
blinky `sw/led/led.c` with its timer, the benchmarks and the startup code), of
the JTAG driver that debugs it in simulation, the TLC configurations that check
the models on small instances, and proofs about them that TLAPS checks for
every value of their parameters.

1. [The system](#1-the-system): what there is, its state, its operations
2. [How the models are written](#2-how-the-models-are-written)
3. [Modules](#3-modules): which module models which part, and how
4. [Runs](#4-runs): what each run checks, its bounds, why they are enough
5. [Fairness](#5-fairness): what is assumed and why the code justifies it
6. [Proofs](#6-proofs): theorems, assumptions, the inductive invariants
7. [Disagreements found](#7-disagreements-found)
8. [What is not modelled](#8-what-is-not-modelled)
9. [Order of the work](#9-order-of-the-work)

Source paths are relative to `src/`; `arty/` is short for
`soc/fpga/arty-a7-100/`.

To check: `tlc -config X.cfg M.tla` for the runs of section 4 (`PROJECT.json`
names the module of each; where a constant needs a definition it is `MC_...`),
`tlapm M_proofs.tla` for the proofs of section 6.

## 1. The system

```
   Ibex instr port --core2axi4l--+                 +-- axi4l_dpramx32   memory
   Ibex data port  --core2axi4l--+-- axilxbar -----+-- axi4l2core --- debug module (slave)
   debug module    --core2axi4l--+  (3 masters,    +-- axi4l_gpio       SW
     (system bus)                    7 slaves)     +-- axi4l_gpio       LEDRGB
                                                   +-- axi4l_gpio       LED
                                                   +-- axi4l_gpio       BTN
                                                   +-- axi4l_timer ---> irq_timer of Ibex
```

Everything on the chip runs on one clock. Parts interact over wires only: the
core memory port of Ibex (req/gnt, then rvalid, `rtl/core_if.sv`) and the five
valid/ready channels of AXI4-Lite (`rtl/axi4l_if.sv`). Software interacts with
the timer and the pins by reads and writes and by the timer interrupt.

### Inventory

| Part | State it keeps | Operations | What makes it correct |
|---|---|---|---|
| `rtl/core2axi4l.sv` | FSM of 5 states; no payload | put a read or a write on the bus, remember which half of a write the bus took, grant, pass the response on | one beat of each kind per request, with the request's payload; no response lost; valid wires held; every request granted and answered |
| `rtl/axi4l2core.sv` | FSM of 7 states, buffers for the two responses | choose a read or a write, ask the core side, keep its answer until the master takes it | each transaction asked once; the answer of one cycle survives any delay; requests and responses held; reads and writes served |
| `rtl/axi4l_dm_top.sv` | none of its own | ties axi4l2core to the debug module, which has no handshake | one request cycle per transaction, read data taken in the right cycle |
| `rtl/axi4l_ibex_top.sv` | none of its own | two core2axi4l on the ports of Ibex | as core2axi4l |
| handshake logic, repeated in `arty/rtl/axi4l_{dpramx32,led,gpio,timer}.sv` | ready, valid registers and one buffer per channel | take a beat, keep it while its other half or a response is waited for, perform, answer | no beat lost, used twice, invented or mixed up; every access answered |
| `arty/rtl/axi4l_dpramx32.sv` | memory, read register | write lanes, read a word | a linear order of accesses, each with its own address, data and strobes |
| `arty/rtl/axi4l_led.sv`, `axi4l_gpio.sv` | output and direction registers, synchronizer | write lanes, read, report a wrong address | as the memory; reads show the pins of one moment, as the interrupt wire does |
| `arty/rtl/axi4l_timer.sv` | 64-bit counter, 64-bit compare register | count, write halves of the compare register, read halves of either | as the memory; reading and writing do not disturb the time; the interrupt is level triggered |
| `arty/rtl/axi4l_interconnect.sv` | in axilxbar (submodule) | decode an address, arbitrate, answer unmapped addresses | a response returns to its master; the map has no overlap |
| `arty/rtl/ibex_soc.sv` | none of its own | wiring, address map, LED read back | the map and the read back loops |
| `arty/rtl/sync_data.sv`, `sync_reset.sv`, `crg.sv` | shift registers | synchronize pins and the reset | a reset is released at a clock edge |
| `arty/sw/led/led.c` | ticks, deadline, the timer's registers | set the first deadline; per interrupt: light LEDs, count, set the next deadline | the deadline is put together from one instant, no drift, no early interrupt, no missed one |
| `arty/sw/*/crt0.S`, `link.ld` | memory | clear BSS, jump to main | all of BSS is cleared, and no more than the word in which it ends |
| `arty/sw/nettle-aes/nettle-aes.c` | contexts for both directions, source and destination | expand a key, invert the subkeys in place or by copy, encrypt, decrypt | the cipher of FIPS 197 for each key size; the two inversions agree; bad arguments are refused |
| `arty/sw/crc_32/crc_32.c` | the running checksum | update by an octet, with a table | the checksum is that of the shifted register |
| `arty/sw/crc_32/beebsc.c`, `nettle-aes/beebsc.c` | a heap pointer, the sum of the requests, a seed | malloc, calloc, realloc, free, check, random numbers | until a block is granted whose end wraps, blocks stay inside the heap and apart and keep their contents, and the check tells a failed request |
| `arty/sw/*/main.c`, `support.h` | a result | warm up, run, verify, wait | the result is verified |
| `arty/sw/fib/fib.c` | two numbers | add | no number wraps |
| `arty/sim/debug/src/driver.cpp` | state of a JTAG driver, two counters | walk the TAP controller, shift registers, idle | it stays in step with the TAP controller, which it never looks at |
| `arty/sim/debug/src/sim_main.cpp` | queue of transactions, time, resets | clock, reset, pop, stop | the whole session fits into the time, if the driver's memory leaves it time; no request comes before the last answer |

### What is hard in it

* **Skew.** Address and data of a write are independent channels: a slave, or
  the bus, may take either first, any number of cycles apart. Both bridges and
  the four slaves must pair what belongs together.
* **Answers that last one cycle.** The core port has no way to refuse an
  answer. core2axi4l must be able to hand over a response in the cycle it
  comes; axi4l2core must keep what the AXI master does not take.
* **Stored nowhere.** core2axi4l keeps no payload, it relies on the core to
  hold its request until the grant; so the moment of the grant is critical.
* **Junk in buffers.** The slaves latch what is on the wires in every cycle
  with ready high, valid or not.
* **Waiting on both sides.** core2axi4l waits until both halves of a write are
  taken; axi4l2core takes neither half before both are there.
* **Resets.** Some registers have a reset, synchronous or asynchronous, others
  have none; writes are not gated by it.
* **64 bits in two accesses.** The program reads a running counter, and sets a
  compare register while it is compared, a word at a time.
* **Two state machines without a wire between them.** The JTAG driver and the TAP
  controller agree only if they agreed at the start, and the driver's memory is
  not initialized.
* **Tables and overlapping copies.** 2304 table entries written by hand; a key schedule
  inverted in place; a realloc that does not know how long the old block is.

The `hazards` of `PROJECT.json` name them at their lines, with the properties
that cover each.

## 2. How the models are written

**One step is one clock cycle** in the models of the hardware. A hardware module is
written as the design writes it: registers and input wires are variables,
output wires are operators over them, `Edge` is the rising clock edge with one
disjunct per branch of the FSM's case statement, `Reset` is the reset. A module
`M` says nothing of its environment. A module `M_tb` adds the environment and
the specification:

    Clock == M's edge /\ counters and history /\ the next inputs, chosen freely
    Next  == Clock \/ TBReset

The environment follows the assumptions (`ASM_...`) of the formal testbench
that the repository has for that module (`fv/sby/*/tb.sv`): valid wires are held
with their payload, ready wires are free, responses answer what was sent.
The counters `f_...` of those testbenches are variables of the models as well.

**A channel is one value**: the payload while its valid wire is high, `NONE`
while it is low. What a wire carries while valid is low is left out, except
where the design latches it: there `NONE` in a buffer stands for what must not
be used, and `JunkNeverUsed` says that it is not.

**Payloads** are members of small sets (model values where they are only moved).
A write carries its data word and the lanes its strobes select. Protection bits
are constant in the design and left out.

**Resets** come in any cycle and take one step, whatever number of clock edges
they last: the state after it is any that a reset of one or more edges may leave,
with a master that lets go of the bus at once or at the last edge. Registers
without reset keep their value or take what the write in progress gives them.

**Wrong versions.** Definitions named `X_something` before a definition `X`, with a
comment that starts "Wrong version", are not used by the models: each is `X` with
a plausible mistake in it, and the property it is listed with in `PROJECT.json`
fails when it takes the place of `X`.

**Abstract specification.** `AxiDevice` says what a device on the bus promises:
five queues and the contents. A beat that is taken enters a queue; in any cycle the
oldest address and the oldest data may be paired and performed on the contents, and
a read may be performed on the contents of that cycle; responses leave in order and
stay up until taken. It is parameterised by what a write does (`Written`), what a
read may return (`ReadBeats`), the response codes, and what the contents may do on
their own (`Own`: time passes, pins change). Memory, LED, GPIO and timer are each
shown to implement it; the mapping makes a queue of a buffer and its ready wire,
for example `awq <- IF awready THEN <<>> ELSE <<pre_waddr>>`.

**Models that share a run.** In `peripherals` the variable `device`, in `programs` the
variable `program` is chosen in the first state and says what a behaviour is about; the
variables of the others do not move. It is one model with independent parts, not a
composition: the peripherals do not see each other, and one program is in the memory.

**The programs.** A step is one round, one group of subkeys, one octet or one call of a
function: the pieces whose order or arguments could be wrong. A 32-bit word of AES is four
bytes and one of the CRC or of `fib` two halves, as TLC has 32-bit signed integers;
the table entries are those of the source. `fips197` is the reference: the
definition of the standard in the field GF(2^8), without tables, written for these
checks.

## 3. Modules

| Module | Models | State and actions |
|---|---|---|
| `axi4l_pkg`, `core_if` | `axi4l_pkg.sv`, `core_if.sv`, `axi4l_if.sv` | response codes, requests, channels; no state |
| `core2axi4l` | `rtl/core2axi4l.sv` | `state`; one action per branch: `Idle`, `SendWrite`, `SendRead` (IDLE), `SendData` (WRITE_DATA), `SendAddr` (WRITE_ADDR), `WriteResponse`, `ReadResponse` |
| `core2axi4l_tb` | `fv/sby/core2axi/tb.sv` and the bridge in it | counters of the testbench; the payloads seen on the bus; the request granted |
| `axi4l2core` | `rtl/axi4l2core.sv` | `state`, `bbuf`, `rbuf`; `Idle`, `StartRead`, `StartWrite` (IDLE), `Read`, `ReadAnswer` (READ_WAIT0), `ReadKept` (READ_WAIT1), and the same for writes |
| `axi4l2core_tb` | `fv/sby/axi4l2core/tb.sv` and the bridge in it | counters; the request under way and its answer |
| `bridges` | core2axi4l and axi4l2core, each by `INSTANCE`, and a bus between them | the bus holds at most a beat per channel and takes and shows it when it likes. The bus stands for axilxbar, which is a submodule (external) |
| `axi4l_dm_top` | `rtl/axi4l_dm_top.sv`, slave side | axi4l2core with `gnt` and `rvalid` tied high, read data different every cycle |
| `axi4l_slave` | the handshake that the four slaves repeat | `awready`, `wready`, `arready`, `pre_waddr`, `pre_w` (data and strobes), `pre_raddr`, `bvalid`, `rvalid`; each register's next value is an operator |
| `axi4l_slave_tb` | `arty/fv/sby/axi4l_dpramx32/tb.sv` | the master, counters that wrap as those of the testbench do |
| `AxiDevice` | - | the abstract device |
| `axi4l_dpramx32`, `axi4l_dpramx32_tb` | `arty/rtl/axi4l_dpramx32.sv` | `mem`, `rdata` |
| `axi4l_registers` | what LED, GPIO and timer add to the handshake in the same way | `bresp`, `rresp`, `rdata`; `check`, the byte-wise write |
| `axi4l_led` | `arty/rtl/axi4l_led.sv` | `led_reg` |
| `axi4l_gpio` | `arty/rtl/axi4l_gpio.sv`, `sync_data.sv` | `gpio_o`, `gpio_en`, the pins, two stages of synchronizer |
| `axi4l_timer` | `arty/rtl/axi4l_timer.sv` | `mtime`, `mtimecmp` |
| `peripherals` | LED register, GPIO and timer (`arty/rtl/ibex_soc.sv`), each by `INSTANCE` | `device`; the actions of the one at hand |
| `led` | `arty/sw/led/led.c` on the timer and its interrupt wire | below |
| `debug_defs` | `arty/sim/debug/src/debug_defs.hpp`, `transaction.hpp` | the registers as sequences of bits; no state |
| `driver` | `arty/sim/debug/src/driver.cpp` | `state`, `bits`, `idle`, `rdy`, `past_tck`; one action per case: `Reset`, `Idle`, `Select`, `Move`, `Shift`, `Exit1`, `Update`, `Default` |
| `dmi_jtag` | the TAP controller and its access to the debug module (external) | the 16 states of IEEE 1149.1, the instruction, the register in the scan path, what the debug module was asked, the cycles until it answers |
| `sim_main` | `arty/sim/debug/src/sim_main.cpp` with both | `time`, `TCK`, the queue; a step is one unit of time |
| `words32`, `nettle_aes_tables`, `nettle_aes` | `arty/sw/nettle-aes/nettle-aes.c` | `at` (what is to be done next), contexts, the state of the block; `SetKey`, `ExpandKey`, `SwapKeys`, `MixKeys`, `InvertKey`, `Check`, `Load`, `Round`, `FinalRound` |
| `fips197` | - | the reference |
| `crc_32` | `arty/sw/crc_32/crc_32.c`, `rand_beebs` | `Octet`, `CrcReturn` |
| `beebsc` | `arty/sw/crc_32/beebsc.c` and a client (external) | `malloc_beebs`, `calloc_beebs`, `realloc_beebs`, `free_beebs`; the client writes its blocks |
| `main`, `fib`, `crt0` | `main.c`, `fib.c`, `crt0.S` | one action per phase; `FibStep`; `Start`, `ZeroLoop` |
| `programs` | all of them | `program` |
| `*_proofs` | - | theorems about the module of that name. `core2axi4l_proofs` and `axi4l2core_proofs` are about the `_tb`, the latter about `axi4l_dm_top` as well; `axi4l_dpramx32_proofs` begins with the handshake (`axi4l_slave_tb`) |
| `MC_*` | - | values of constants for TLC |

`axi4l_slave` is written once because the four files have the same lines; `map`
names them in `axi4l_dpramx32.sv`. What differs is in the module of each slave:
the memory resets its ready registers asynchronously and notes no response code,
the peripherals reset theirs at a clock edge and note the code of a write as soon as
its address is there.

`led` and `sim_main` are different kinds of model. A step of `led` is one access of the program to a
register (or a tick of the counter): `KeepsPromise` of the timer says that an access
takes effect at one instant between request and response, and the core has one access
under way at a time, so any number of ticks may fall between two steps. `pc` names
the next access. `main` and the interrupt handler share `SetFull`, `SetHigh`,
`SetLow`, three lines that the source repeats. Interrupts are masked inside the
handler, and main only waits once they are enabled, so they form one sequence.
Words have `Radix` values instead of 2^32, so that both words change within
a run.

A step of `sim_main` is an iteration of the loop in `main`: time passes, clocks and resets
change, the driver is called, the design is evaluated. The driver and the port change in the
same step where an edge of TCK falls into it, in the order of the source. All is
deterministic but for the first state: `DriverInit` takes every state of the driver, values
that are none of them, and what the counters may hold.

## 4. Runs

Each run asks one question of one model; "violation" runs are in section 7.
The slowest run takes about three minutes on two cores.

| Run | Question | Bounds |
|---|---|---|
| `core2axi4l_requests` | Does the bridge turn each request into the right beats, each response into one answer, and does every request end? | 2 addresses, 2 write payloads, 2 read payloads |
| `axi4l2core_transactions` | Is each transaction asked once, answered with its answer, and served? | 1 address, 1 write payload, 2 read payloads |
| `axi4l_slave_beats` | Does the handshake lose, repeat or invent beats, and does it end? | 1 address, 1 payload |
| `axi4l_dpramx32_device` | Is the memory an `AxiDevice`? | 2 words of one lane; writes to both, reads of both, one through an alias of its address; 2 values; writes with and without strobe |
| `peripherals_devices` | Are LED register, GPIO and timer such devices, each with its own registers, while pins change and time passes? | 1 lane of 2 values. LED register: writes at a wrong address, reads at the right one. GPIO: writes of the direction, reads of the pins. Timer: a counter of 2 bits that carries and wraps; writes of zero to the low half and to an address without register; reads of the high half |
| `bridges_path` | Do the two bridges work back to back? | 1 address, 2 write payloads, answers with and without error |
| `axi4l_dm_top_port` | Does axi4l2core work on a port without handshake? | 2 addresses, 2 payloads each way |
| `led_ticks` | Does the program keep time? | words of 7 values, a period of 3 ticks, 32 ticks: the low word wraps four times, about ten deadlines, the LEDs change at every second one; 2 buttons |
| `sim_main_debug` | Is the driver in step with the port, does the debug module get the session's requests, does the session fit? | the session and the times of the source; every start state of the driver; counters that start at 0, below, between and above the numbers they are compared with; a debug module that answers in 9 cycles of TCK |
| `programs_run` | Do the programs compute what their references say, and end? | the keys and texts of the benchmark and of FIPS 197, C.1 to C.3; key sizes that are cut down and that are refused, two blocks, none, and half a block; the CRC over 1024 octets; a heap of 3 bytes at address 2, numbers of the type size_t that wrap at 10, blocks of 0, 1, 2 and 9 bytes (9 is the greatest size) and all products of these, 4 calls; warmed up or not; a BSS section from 8 to every end up to 20 |

**Why the bounds are enough.** The bridges and the handshake have finite control
and hold at most two beats per channel; all their reachable control states are in
the runs, which have no bound on time: the graphs are finite and complete.
Payloads are moved and never computed with (the only comparison is of addresses with
register numbers), so two values tell any two apart, and where a run has one value
a proof covers the payload: all safety properties of bridges, handshake, memory and peripherals are
proved for all payloads, those of `led` and of the heap for all sizes, those of AES and the CRC
for all inputs (section 6). The device runs keep addresses and data
few because each step of them is a cycle in which seven wires change freely and
the abstract device is evaluated on every transition; out of reset the ready wires of the
master are fixed, as no response is there to take; the lanes of a word are
written by one expression over the set of lanes, so that one lane stands for
four. The bounds on counters are `Top` (a testbench counter wraps there; `SlaveTypeCorrect` proves that
none gets beyond 2), `MaxTime` (time stops there in `led`), `MaxCalls` (of the heap's client) and
`Wrap` (2^32 in the code, where addresses and sizes wrap). `End` is the 10000 units
of time of the source. The deadlock check is off in `sim_main_debug` only, as the loop of
`sim_main.cpp` ends; `led` and `programs` stop where the program waits for ever, by a stuttering
action of their own (`TimeIsUp`, `Wait`), so that a stop anywhere else is a deadlock.

The texts of `programs_run` are few, but the comparison is not one of texts: `SubkeysAreFips`
compares the key schedule after each group, and `CipherIsFips` also all 2304 table entries with the
field arithmetic they stand for, and the state after each round with the state of the
standard. That a round is right for every text once its tables are is proved. The session of
`sim_main_debug` is the one of the source, so there is nothing to bound but the memory
the driver starts in. The counters are compared with 8 and with the lengths of the registers
(up to 41) only; `Garbage` has values on both sides of each, zero, the last number that leaves time
for the session and the next one that does not (-23 and -24), and numbers so far below zero that the driver
does not come to a scan. The client of the heap fills its blocks with one mark; it shows which bytes
a block shares or loses, as cleared and unwritten bytes differ from it. With four calls two blocks are
there, one is copied, and a fourth call follows; a request ends before the end of the heap,
at it, and a byte behind it.

What the safety properties say:

* `OneBeatEach`, `BeatsMatch` (core2axi4l): a granted request has put its own beats on
  the bus, once each and with its payload; half of a write may be out before the
  grant, and belongs to the request that is still there. `AnswersPassedOn`: every
  response is taken in its first cycle and goes to a core that waits. `ErrIsOwn`:
  the error flag, an OR over both response channels, is that of the access answered.
  `AxiStable`: valid wires are held with their payload.
* `AskedOnce`, `AnswerIsTheCores` (axi4l2core): what the bus waits for is either with the
  core side or answered, never asked again, and the answer is the one of that cycle
  however long the master takes. `RequestHeld`: a read that comes late does not push
  aside a write that waits for its grant. `ResponseHeld`: AXI stability.
* `BeatsAccounted`, `JunkNeverUsed`, `StallKeepsBeats` (handshake): the number of beats
  taken and unanswered on each channel is what the buffers and the response hold; an access is
  performed with real beats only; under a stalled response nothing is dropped.
* `BeatsServed` (handshake): every beat that is offered is taken, every access answered.
* `KeepsPromise` (memory, LED, GPIO, timer): the refinement to `AxiDevice`.
  `IrqAgreesWithRead` (GPIO): the wire that bypasses the bus agrees with what the bus shows.
* `TargetAskedTheSame`, `CoreAnsweredTheSame`, `NothingLeft` (bridges): end to end, from
  core port to core port.
* `OneRequestCycle`, `AnswerIsTheNextCycles` (dm_top): a debug module that acts on every
  request cycle acts once; the data, valid in one cycle, is the data returned.
* `TimeIsExact`, `NoDrift`, `NeverEarly`, `LedsCount` (led): see the comments there.
* `InStep`, `DebugModuleSees`, `SessionFits` (sim_main): from the third transaction on, the
  driver's state is the port's; the debug module has been asked for exactly the requests of the
  session so far, with every field in its place; the queue is empty when the loop ends and no
  request met a debug module that was still busy, for every memory that the driver may be made in
  except those that have it idle with a counter below -23 (`LeavesTime`), which TLC starts from as well.
* `SubkeysAreFips`, `CipherIsFips`, `DecryptionRetraces` (nettle_aes): subkeys, tables and the
  state after each round are those of the standard; decryption goes back through the states of the
  encryption.
* `CrcIsReference` (crc_32): after each octet the checksum is that of the register
  shifted bit by bit.
* `BlocksKept`, `CheckHeapTells` (beebsc): the client may ask for any size. Up to the first block
  that is granted although its end wraps, its blocks are inside the heap, apart, and hold what it
  wrote or what realloc and calloc promise; up to there, and as long as the sum of the requests does not wrap,
  the check tells whether one has failed. What comes after such a block is in section 7.
* `ProgramsSucceed` (programs): where a program ends, its result is verified, its text is back, the
  bad argument was refused, or BSS is clear.

## 5. Fairness

A cycle is `WF(Clock)`: the clock runs (in the theorems `ClockRuns`, which is `[]<><<Clock>>`). Nothing is assumed of the design itself:
its part of a step is a function of the state. What else is assumed is about
partners, in the form "again and again, if it is asked, it does", which is what
the protocol and the parts on the other side promise:

* `SlaveFairness` (core2axi4l): the slave does not keep a valid wire waiting for ever and
  answers what it took. The handshake of this design's slaves does so: `BeatsServed`.
* `PartnerFairness` (axi4l2core): the core side grants and answers (the debug module
  does at once), the master takes responses (core2axi4l takes them in their first
  cycle: `AnswersPassedOn`).
* `MasterFairness` (handshake): the master takes responses and sends the second half of a
  write whose first half is out. core2axi4l offers both halves together and
  holds them.
* `BusFairness`, `TargetFairness` (bridges): each channel of the bus moves again
  and again.
* `LiveSpec` of `led`: the clock runs and the core executes (in the theorem `ProgramRuns`: it does while it is
  not waiting for an interrupt that is not there; that the clock runs is not needed there).
* `sim_main` and `programs` have no liveness property and need no fairness: each ends within the
  bound that its safety property or the deadlock check shows.

Writes are not served in every fair behaviour of axi4l2core: reads have priority in
IDLE, and a master that keeps reading starves them. `WriteServed` therefore has the
assumption that an idle cycle without a read comes again and again. Each master of this
SoC waits for the answer to its read before it asks again, which leaves a gap; that the
crossbar leaves one too when several masters read is not shown here (section 8).

The liveness runs allow resets at any time, so each property has a way out: the thing
waited for is gone because a reset took it. A reset in every second cycle prevents
nothing else, as `WF(Clock)` asks for clock cycles and those happen.

## 6. Proofs

TLAPS proves the following for every set of addresses, payloads and data, and for every
size of words, periods, bounds, heaps, keys and texts. The assumptions are those on the constants,
which TLC evaluates in the runs:

* `NoneAssumption`: `NONE` is none of the payloads. `TopAssumption`: the counters of the testbench of
  the handshake wrap at 3 or later. `MasterAssumption`, `DpramAssumption`: the master uses addresses
  of the design; addresses are numbers, there is at least one word, a write carries a word and some
  lanes. `PeripheralsAssumption`: the same for the peripherals; and the powers
  of the number of values of a lane are positive numbers.
* `LedAssumption`: word size, period and `TICKS` are positive numbers, and time stays two periods
  below the wrap of both words. `HeapAssumption`: the heap is some bytes at some address other than 0 whose
  end does not wrap; the client asks for any numbers of the type size_t. `BssAssumption`: the section begins at a word
  and ends behind its begin.
* `LatencyAssumption`, `GarbageAssumption`, `EndAssumption`: the debug module needs at least one cycle,
  the counters hold integers, the simulation ends at a number.
* `JobsAssumption`: texts and keys are octets, a key has as many as its size says, if the library takes that
  size at all. `AnswersAssumption`: the `answer` that a job is compared with is the ciphertext that
  FIPS 197 gives for it; for the benchmark's job that is a fact about the literals of
  `nettle-aes.c`, for the others it says what the word means.
* `TableAssumption`, `TablesAssumption`: facts without any parameter, about the
  256 entries of the CRC's table and the 2304 of AES (each is what it stands for, on
  each octet; InvMixColumns undoes MixColumns on each octet at each place).
  `ChecksumAssumption`: the definition of the checksum, without the program's table, loop or calls, gives the
  number that `verify_benchmark` compares with. They are statements about
  literals of the source, long for a prover and nothing for TLC, which evaluates them before
  the run. Everything that is about the program is proved from them.

| Module | Theorems | For |
|---|---|---|
| `core2axi4l_proofs` | `TypeCorrect`, `ExactlyOneBeat`, `BeatsAreTheRequest`, `NoAnswerLost`, `ErrorIsOwn`, `BeatsAreStable` | all safety properties of `core2axi4l_requests` |
| | `EveryRequestServed` | `RequestServed`, as long as the clock runs |
| `axi4l2core_proofs` | `TypeCorrect`, `EachAskedOnce`, `AnswersAreTheCores`, `RequestsAreHeld`, `ResponsesAreHeld` | all safety properties of `axi4l2core_transactions` |
| | `EveryTransactionServed`, `EveryWriteServed` | `TransactionServed`, as long as the clock runs, and `WriteServed` |
| `axi4l_dpramx32_proofs` | `SlaveTypeCorrect`, `NoBeatLost`, `NoJunk`, `StallsAreSafe` | all safety properties of `axi4l_slave_beats` |
| | `EveryBeatServed` | `BeatsServed`, as long as the clock runs |
| | `MemoryIsADevice` | the refinement that `axi4l_dpramx32_device` checks |
| `peripherals_proofs` | `PeripheralsTypeCorrect`, `PeripheralsKeepThePromise`, `IrqIsReadable` | all properties of `peripherals_devices`, the refinement among them |
| `bridges_proofs` | `AskedTheSame`, `AnsweredTheSame`, `NothingIsLeft` | all safety properties of `bridges_path` |
| | `EveryAccessServed` | `Served`, as long as the clock runs |
| `axi4l2core_proofs` | `OneCycleEach`, `AnswersAreTheNextCycles` | all properties of `axi4l_dm_top_port` |
| `led_proofs` | `TimeIsOneInstant`, `NoDriftEver`, `LedsCountAlways`, `NeverTooEarly` | all safety properties of `led_ticks` |
| | `EveryDeadlineServed` | `DeadlineServed`, as long as the core executes |
| `sim_main_proofs` | `DriverInvariant`, `DriverInStep`, `SessionInvariant`, `DebugModuleIsAsked`, `SessionFitsInTime` | `InStep`, `DebugModuleSees`, `SessionFits` of `sim_main_debug` |
| `programs_proofs` | `HeapInvariant`, `BlocksStay`, `CheckTells`, `ProgramsKeepBlocks` | `BlocksKept`, `CheckHeapTells` of `programs_run`, for the heap alone (`HeapSpec`) and beside the programs |
| | `TableStep`, `ChecksumIsShifted` | `CrcIsReference` |
| | `AesFactsHold`, `SubkeysFollowFips`, `CipherFollowsFips`, `DecryptionGoesBack` | `SubkeysAreFips`, `CipherIsFips`, `DecryptionRetraces` |
| | `MainFindsBssClear`, `ProgramsEndWell` | `ProgramsSucceed` |

**The arguments.** None of the invariants is inductive by itself: the counters and
histories are related to each other only through the state of the FSM. The
strengthened invariant `IInv` of the bridges says, per state of the FSM, what every
counter is, which history is set and what it equals, and which input may be there:
in `WRITE_DATA`, for instance, one address is out, it is the address of the request
that the core still holds, no data is out and nothing is granted. With that, each branch
of the FSM is a separate lemma: the state it starts in fixes the counters, the branch
fixes the wires, and the environment's action the next inputs. `IInv` implies each
property, and the action properties follow from `IInv` and one step.

For the handshake, `IInv` adds to `BeatsAccounted` only that a buffer behind a low ready
wire holds a real beat (`Buffered`). `BeatsAccounted` itself is what the testbench calls
its induction hypotheses; the proof shows that they are inductive with the registers
and needs no unrolling. `ClockWires` computes all wires of a cycle once; the lemmas for
types, buffers and counters rest on it.

`MemoryIsADevice` is a step simulation on top of it. In each cycle a queue of the abstract device is
empty or holds one beat: `Arrived` and `Left` say which, in terms of the wires of the design.
`WriteSide`, `ReadSide` and `ResponsesOffered` then show, one case per kind of cycle (performed,
stalled, waiting for the other half), that the registers move as the queues may, and
`ResetIsReset` that a write caught by a reset is one the device allows. The contents agree because
the bits of the address that the design looks at are the number of the word (`IndexIsTheWord`,
arithmetic of quotients) and its lanes those of the write (`WriteIsMeant`).

For the path of two bridges, `IInv` says where an access is: an access is in one place at
a time (with the core, half on the bus, on the bus, in the target, in the buffer of
axi4l2core, on the bus back), and in each phase all other places are empty. The five
branches of either FSM that can fire in a phase each lead to one other phase; `NothingLeft` is what the
phases say when the core is in IDLE again. For the debug module's port the phases are those
of axi4l2core, and the history `answer` lags the wire by the cycle in which `fresh` holds.

For `led`, `IInv` has four parts. `Reads`: while the program reads the counter, the high word it
holds is not above the high word of now, so that finding it unchanged pins both words
to the moment at which the low one was read. `Deadlines`: while the compare register is written,
the new deadline is one period after the one that has passed; outside that, both words together are
the deadline. `Counts`: `led` and `ticks` are quotient and remainder of the handlers
served. The rest is arithmetic of quotient and remainder by a number that is not
known, which the prover is led through in lemmas (`Quotient`, `Factors`, `QuotientUnique`,
`QuotientMonotone`, `QuotientOfNext`).

For the heap, `HeapInv` has two parts. `Numbers`, the types, hold for ever. `Sound` holds until a block has
wrapped: the pointers are inside the heap and in order, every block is below the pointer, any two
blocks are apart; a request that is granted then takes bytes above all of them, and realloc's copy writes into
those only. `wrapped` is never reset, as a block that was given with an end that wraps may reach over anything.
A product of calloc that wraps counts as such a block, as it is smaller than what was asked for.

For the peripherals the step simulation of the memory is done once for all three: what a cycle does to
queues and responses (`Handshake`, `WriteQueues`, `ReadQueues`, `ResponseQueues`) is proved of the
handshake alone, `Slave`, as the three share it; each device then adds its registers (`LedCycle`,
`GpioCycle`, `TimerCycle`) and its reset. `IInv` is types, and a beat behind each low ready wire. The
wire `irq_o` needs no more than the registers of one state.

For the driver, the invariant follows a pair: the state the driver takes the port to be in, and
`Coming`, the state that the port will be in after the next rising edge. At first the second may be
anything. `First`, `Second` and `Scan` say for each state of the driver where the port may be
in the first transaction (a reset by ones from any state, and a scan), the second, and later
ones, where the two agree; each is kept by an edge (`FirstStep`, `SecondStep`, `ScanStep`), whatever
the counters hold, and at the end of a transaction the pair is one from which the next may start. The
rest (`Clock`, `Starting`, `Waiting`) is where the reset, the clock and the queue are when
the first edge comes.

For the session, `SessionInv` adds to this the bits. The registers are again those after the coming rising
edge (`ComingSr`, `ComingIr`, `ComingSeen`, `ComingError`), so that all that happens between two edges
leaves them as they are (`StaysStep`). While a scan has shifted `b` bits, the driver holds the rest of the request
(`Left`) and the last `b` bits of the register are its first ones (`Arrived`); when the port leaves the
shift state, `b` is the length of the request (`Scanned`, `BitStep`). This is claimed only where it `Matters`:
in a scan of the instruction, or when the instruction selects the register of 41 bits. The argument
then goes along the queue:

* In the first two transactions the port may be anywhere, also in an update of a register that nobody
  meant. What gets into the instruction register is the instruction of the first transaction, or five bits of the
  second whose last one is zero (`Zeros`, `SmallInstruction`); neither is that of the debug module
  (`InstructionBefore`), and nothing is asked.
* The third transaction writes that instruction (`InstructionWritten`).
* At each later update the register holds the whole request. `RequestsAre` decodes it, through the bits of
  `Bits`, `number` and `ones`, to the request that is next in the session (`AskedRequest`).
* If the debug module is still at the last request, the error sticks and nothing more is seen: what was seen
  stays a beginning of the session (`Told`).

That the session fits (`SessionFits`) is counted in falling edges of TCK: `Edges` are those that
the session still takes, from any state of the driver (471 for the ten scans, two more from a number that is no
state, one for each that a counter is below zero), and each falling edge takes one (`AheadStep`). Beside it, `Rested` says
that the debug module, busy for 9 cycles at most, has answered when the driver is through with idling and comes
to capture the next scan; so no error can stick, and what was seen is the whole session. The theorem states
what it needs of the simulation as `Enough`: 478 periods of 20 units before the end, and latency 9. What it needs of
the memory that the driver is made in is the premise `LeavesTime` of the property itself: if it has the driver
idle, the counter leaves 476 of the periods, and its increment is defined. For the 10000 units of the source that is a counter
from -23 up. The bounds are tight: TLC finds the property violated if the premise admits a counter of -24, and
for a latency of 10.

For the CRC, shifting is linear (`HalfXor`, `ShiftedApart`): the register is the exclusive or of the part that
an octet selects and the part that only moves down. Eight shifts of the first are the entry of the table, eight
of the second a move by an octet, which is what UPDC32 does (`TableStep`). That linearity comes
from the bits: the model computes an exclusive or by a table of 16 by 16, its bits are proved
by cases, and everything on octets and words from the bits.

For AES, the invariant `AesInvariant` says at each step of the C code what has been made so far:

* while keys are expanded they are a prefix of the schedule (`KeyWords`), and `rp` is the number of
  constants used, `(index - 1) \div Nk`, which ties the running pointer of the code to the
  quotient of the standard;
* while they are swapped in place, the groups of both ends up to `index` have changed places and those in the
  middle have not (`Swapped`): the number of rounds is even, so the middle group is its own mirror;
* while they are unmixed, the words up to `index` are unmixed mirrors, the others mirrors (`MixedTo`);
  swapping in place and copying from the other context both end there;
* in the rounds of the encryption the four words are the block of the standard after `index - 1`
  rounds; in those of the decryption, that block with SubBytes and ShiftRows done (`Covered`), which is
  what remains of the next round back after its key and its columns are undone;
* the texts put out so far are, block by block, the cipher's and the plaintext.

A round of the code is four lookups per word. `TableRound` and `TableRoundBack` turn them into MixColumn by
splitting a column into its octets; this needs that the product of the field distributes over sums
(`TimesAdds`: by the eight steps of a product, each additive), and so that mixing is linear
(`MixAdds`). The same linearity carries "InvMixColumns undoes MixColumns" from single octets to
columns (`Unmixed`), and makes the equivalent inverse cipher of the code, which unmixes keys and
state apart, the inverse of the cipher (`RoundBackIs`). An exclusive or with the same key twice cancels
(`XorTwice`).

The ends of the programs (`ProgramsEndWell`) rest on one invariant for each, `EndsInv`:

* crc_32: while crc32pseudo runs, its seed and register are those of the reference after `octets` octets
  (`CrcRun`). The reference is cut into 32 lines of 32 octets, as TLC evaluates it; `Position` counts through
  them and `PositionGoesOn` shows that the lines join. So what the loop returns is the number
  of `ChecksumAssumption`, and `CrcMainInv` follows it through main: the pass whose result is verified is the
  last, and it has ended, however often the caches were warmed.
* nettle-aes and its library: a schedule of the first words of a key is unique (`ScheduleIs`), so the keys that
  `AesInvariant` describes are those of `AnswersAssumption`; the blocks make up the text (`SameText`). With
  `DecryptionGoesBack` this is what `DoneIsRight` says of a call that ends; one that does not end there was refused by
  one of the two checks (`AesEnds`). `AesMainInv` does for main what `CrcMainInv` does.
* fib: the numbers are those of the table `Fibs`, whose neighbours add up (`FibsAdd`); the sum of two words by
  halves with a carry is their sum, as none of these wraps (`Carry`, `SumIs`).
* crt0: `CrtInv`, the cleared bytes are those below the pointer.

Progress is proved from the same invariants. What waits is in one of a few places: a state of the FSM with the
request held, a beat behind a low ready wire alone or with the other half of its write, a phase of the path, an
access of the handler. For each place there are three facts about one step: it stays there or comes to a later
place (`[Next]_vars`, so through pauses and resets), a cycle in which the partner does its part brings
it on (`<<Clock>>_vars`), and `IInv` says that the partner is asked. The temporal part is then propositional, one
lemma per place, from the last place back to the first. The fairness of section 5 is used as it stands,
"again and again, if it is asked, it does": what a partner does in one cycle stays on the wires until the
edge, and the edge comes as the clock runs. Three cases are less obvious:

* core2axi4l offers both halves of a write, and the bus may take the address in one cycle and the data in another
  (`WriteGranted`). That the two are ready again and again is not that both are ready at once; the edge
  after the first one takes the write to a state that offers the other alone.
* A beat alone in its buffer (`AddressMeetsData`) is freed by the other half. The counters say that the master owes it
  (`BeatsAccounted` makes `SentAhead` true), and if it comes in a stall it fills the second buffer, where the pair
  waits for `bready`.
* `WriteServed` needs no clock: once the gap between the reads has come, the write is offered until it is granted.

Facts about functions that are defined by recursion on a number, or by a fold of fixed length, are proved
from the library's theorem that a set of numbers has a least element (`Induction`, `Recursion`), as the theorems
with an operator as parameter cannot be used.

**Only model-checked:**

* that `WF(Clock)` makes the clock run, and `WF(Program)` the core execute: the runs assume weak
  fairness, and check the same properties (`RequestServed`, `TransactionServed`, `BeatsServed`,
  `Served`, `DeadlineServed`) with it. The theorems assume `ClockRuns`, `ProgramRuns` instead. Between the two is one fact
  about each model, that such a step is possible (`ClockRunsIfItCan`, `ProgramRunsIfItCan` say which), and
  nothing that has ENABLED in it can be proved with this prover;
* the ground facts of `TableAssumption`, `TablesAssumption`, `ChecksumAssumption` and, for the jobs of the run,
  `AnswersAssumption`.

## 7. Disagreements found

* `core2axi4l_back_to_back`: the comment in the IDLE branch of `rtl/core2axi4l.sv:35`
  says that the same logic is in READ_WAIT and WRITE_WAIT. It is not: in the cycle of a response
  a waiting request is not put on the bus; each access costs one cycle more. It is
  a matter of speed and of the comment, no property above depends on it.
* `axi4l_led_jasper`: `arty/fv/jasper/axi4l_led/fv_axi4l_led.sv:23` assumes, under a name for
  assertions, that an address that is offered and not taken is followed by an OKAY response.
  The device has behaviours in which it is not: the address waits in the buffer for
  its data. As an assumption it hides them from the tool.

Seen on the way, and consistent with the properties checked here:

* The testbench of axi4l2core assumes that `rvalid` and `gnt` come only when asked
  for (`fv/sby/axi4l2core/tb.sv:140-148`), which axi4l_dm_top, the bridge's only user, does
  not do: it ties both high. `axi4l_dm_top_port` checks the bridge without that assumption.
* `axi4l_led` performs a write at a wrong address, and reports an error for it.
* Reading back LEDRGB returns the green LEDs (`arty/rtl/ibex_soc.sv:219`). No program reads it.
* The driver of the simulation starts with uninitialized memory (`arty/sim/debug/src/driver.hpp:14`).
  From every state that memory may hold, the first two transactions (a reset by five ones and the first scan)
  bring it in step. If the memory has it idle with a counter below -23, the session does not end in time:
  the loop cuts it off or ends before it starts. In all other cases it does, in up to 9560 of the
  10000 units of time (more if the counter is a little below zero).
* The heap grants a request whose end wraps (`arty/sw/crc_32/beebsc.c:97`, `:138`: the end is compared
  after the addition, and nothing bounds the size), and `calloc_beebs` one whose product wraps (`:114`).
  The first moves `heap_ptr` back, by one byte for the greatest size, so that later blocks lie over earlier ones or
  in front of the heap; the second gives a block smaller than what was asked for. `check_heap_beebs`,
  which by the comment at `:71` reports whether malloc "did not reqest more than was available", may answer
  that it did not after either. Without the premise `~wrapped`, TLC finds `BlocksKept` and `CheckHeapTells`
  violated after one such call; C leaves the wrap of a pointer undefined, and this is what the
  target does. No program here calls the heap.
* The BSS loop of `crt0.S` clears the whole word at `_bss_end` when that is aligned
  (`ble` after the increment). The linker script puts nothing behind BSS in that region.

## 8. What is not modelled

* The submodules: Ibex, the debug module (riscv-dbg), the crossbar axilxbar (wb2axip).
  They are not in this repository. Their contracts are taken from how the code here
  uses them and from the testbenches' assumptions: `Carry` and `BusReadies` in
  `bridges`, `DebugModule` in `axi4l_dm_top`, `dmi_jtag`.
* With the crossbar go the decode of addresses, the arbitration between the three masters and the
  answer to unmapped addresses: `axi4l_interconnect.sv` connects wires and passes base
  addresses and masks on as parameters, and nothing in the repository says by which rule they are
  applied or which master comes first. A contract written here would prove itself.
* Clock domains and metastability: one clock; a synchronizer is two registers and a pin
  that changes at an edge is seen old or new. `sync_reset.sv` has nothing but its two
  flip-flops against metastability; `crg.sv` is a vendor macro. All parts have the same reset.
* The loop from LED outputs to LED inputs: `++(*LED)` is atomic in `led`. The read passes through
  a synchronizer of two cycles, and the only earlier write to the port is a whole number of periods
  of the timer before it.
* `dpramx32.sv` is not instantiated. The default simulation drives clock and reset only; the
  debugger testbench shifts the same registers as the JTAG driver; scripts and
  generated files have no behaviour in the system.
* What the simulation shifts out of the port (the answers of the debug module): nothing looks at it.
* In `led`: the CSR writes, the encoding of colours into bits, DEBUG builds. In the benchmarks: the
  board support (no effect on the state), timing.

## 9. Order of the work

The bridges came first, as every access passes through them; then the handshake and the abstract
device, where every access ends; the devices; the path of two bridges; the debug
module's port; the blinky program on the timer; and the proofs of bridges and handshake. After these:
the JTAG driver beside the port it mirrors, the benchmarks and their heap, the startup code,
the three peripherals in one model, and the proofs of the path of two bridges, the debug module's
port, the blinky program, the heap and the memory's refinement. Then the proofs about the peripherals, the
driver and its session, the startup code, the CRC, AES and the ends of the programs, and last the
proofs of progress.

What is left to do needs the sources of the crossbar: three core2axi4l in front of it and the slaves
behind it, and the end-to-end statement that a core port reads what was written last.

Runs of liveness and safety of one model are kept in one configuration, so that a model is
explored once.
