# TecPlusRV-Insight: TLA+ specifications and proofs

TecPlusRV-Insight is a small RISC-V system on an FPGA board: Verilog for the
SoC (`rtl/`), C firmware for it (`firmware/`), and Python tools for the host
(`scripts/`).  This directory holds TLA+ modules that model its parts, TLC
configurations that check them on small instances, and theorems that TLAPS
proves for all values of the parameters.

## 1. Inventory

| Part | Code | State | Operations | Talks to |
|---|---|---|---|---|
| SDRAM data controller | `rtl/soc/sdram_data_ctrl.v` | FSM state, wait counter, refresh age, two refresh flags, latched request, two captured half words, output registers | one FSM step per clock edge; reset | MiniSoC (request/response), SDRAM chip (command and DQ pins) |
| SDRAM chip | `sim/sdram_x16_model.v` | cells, open row, read pipeline, DQ driver | one command per cycle | controller |
| MiniSoC bus | `rtl/soc/tecplus_minisoc_top.v`, `tinybus_decode.v` | pending request, last request and its response, `ifetch_pending`, `sdram_req_sent` | start, respond, replay | CPU, BRAM, SDRAM, MMIO peripherals, bootloader |
| CPU wrappers | `darkriscv_adapter.v`, `picorv32_adapter.v` | none or one mux | translate the native bus | cores, MiniSoC |
| CPU cores | `rtl/core/` | registers, pipeline | instructions | wrappers |
| UART | `rtl/periph/uart_rx.v`, `uart_tx.v` | holding register, sticky overrun and framing flags, frame in flight | bit clock, `data_ready`, clear | bootloader, MMIO, the line |
| UART bootloader | `rtl/soc/bootloader_ctrl.v` | FSM state, field being collected, lengths, CRC register, timeout counter, clear index, reply | one FSM step per clock edge; reset | UART, BRAM port, SDRAM mux, CPU reset |
| Host loader | `scripts/uart_loader.py` | chunk position, attempt number, bytes read | send chunk, read response, retry | serial line |
| Machine timer | `rtl/periph/machine_timer.v`, `firmware/drivers/machine_timer.c` | 64-bit `mtime`, `mtimecmp` | tick, reads and writes of 32-bit halves | MMIO, CPU interrupt |
| FreeRTOS port | `firmware/freertos/` | `freertos_yield_pending`, `trap_depth`, saved frame, next compare value | trap, yield, critical section, tick | kernel, timer, trap entry |
| GDB stub | `firmware/gdb/` | parser state, last reply, `debugger_attached`, `resume_pc_explicit`, the trap frame | stop, byte received, command, ack, retransmit, resume | UART driver, debugger |
| Runtime | `firmware/runtime/` | heap offset; trap frame | allocate, copy, trap | firmware |
| Media player | `firmware/apps/freertos/bad_apple_full.c` | pause and active bits, stream cursors, note queue, key samples | validate, play, pause, resume, sample KEY1, show the beat | FreeRTOS, drivers, SDRAM |
| Acceptance test | `firmware/apps/freertos/freertos_acceptance.c` | counters, flags and kernel objects of the test | start workers, wait for what they leave, judge | FreeRTOS |
| Other applications | `firmware/apps/` | | demonstrations | FreeRTOS, drivers |
| Accelerator | `rtl/accel/dot4_int8.v` | result and tag | start, ack | CPU |
| Video, sound, lights | `rtl/periph/vga_*.v`, `buzzer_pwm.v`, `traffic_light_gpio.v` | counters, frame buffer | write, scan | MMIO |
| Probes | `rtl/probe/` | test FSMs | self-test of SDRAM and buzzer | SDRAM controller, UART |
| Tools | other `scripts/`, `sim/` | files | build, test | |

How they interact.  One clock drives every RTL part; parts exchange registered
signals, so each sees what the other did one edge ago.  The CPU sees one bus
with one outstanding request; the bootloader owns BRAM, SDRAM and UART until it
releases the CPU.  The host is asynchronous: it only has a serial line without
flow control.  Inside the firmware the concurrency is interrupts against tasks.

The hard behaviours, part by part, and what makes each part correct:

* **SDRAM controller.** A refresh may become due in any cycle of a handshake;
  reset may come in the middle of an access, and the chip on the board is not
  reset with it.  Correct: no accepted request is lost, reads return the bytes
  last written, commands keep the chip's spacing, DQ has one driver, refresh is
  never postponed beyond its bound, and every request is answered.
* **Bootloader, UART and loader.** Bytes arrive at the rate of the line whether
  or not the board is ready; any frame may be garbled; reset may come at any
  byte; responses of an abandoned attempt may still be under way.  Correct: the
  CPU runs only the complete image; no write leaves its memory; nothing of an
  older program is left in BRAM; a reported success is real; the board always
  comes back to listen and the loader always ends; a clean line needs no retry.
* **MiniSoC bus.** DarkRISCV holds a request until data and instruction
  acknowledges meet, so the bus sees the same request again and must recognise
  the repetition.  Correct: each load and store of the program takes effect
  exactly once, and the core sees the value of that effect.
* **Timer and port.** 64-bit registers behind a 32-bit bus; yields requested in
  critical sections; ticks that fall behind.  Correct: no torn value, no early
  and no lost tick, no lost yield, and no switch inside a critical section.
* **GDB stub.** A lossy line in both directions, retransmission, one byte of
  buffer at a stub that transmits while the debugger may send.  Correct: it acts
  on nothing that was damaged, replies stay matched to requests, a continue
  runs the program once, and one fault does not cost the session.
* **Media player.** A frame counter of 16 bits that wraps, a key that bounces,
  a button task that preempts a round between any two of its accesses and holds
  it up while it prints, a queue between tasks of different priority.  Correct:
  picture and sound belong to the same logical time, validated data never stops
  the player (but for what comes too close to the end), and low priorities run.
* **Acceptance test.** It judges the kernel by orders of events and counts, so
  it must itself be free of races, end, and give back all it took.

`PROJECT.json` lists each component with its status and each hazard at its line.

## 2. Plan

The order is by importance: memory that loses data makes everything else
wrong; then the way programs get onto the board; then the bus, the interrupts,
the debugger, and the applications.

| Step | Modules | Checks and proofs |
|---|---|---|
| 1 (done) | `SdramCtrl`, `SdramChip`, `SdramSystem`, abstract `WordMemory`, `SdramSystem_proofs`, `SdramMemory_proofs` | data, timing and liveness runs; theorems on the handshake, the refresh bound, the legality of commands, and the refinement of the word memory |
| 2 (done) | `UartPort`, `BootCtrl`, `BootHost`, `BootLink`, `BootLink_proofs` | load, image, clean line, liveness; retry finding; theorems on the wiped BRAM, the place of every write, what the CPU runs, what success means and that a clean line needs one attempt |
| 3 (done) | `MiniSocBus`, `MiniSoc`, `MiniSoc_proofs` | exactly-once accesses, program order of memory, progress; a finding; theorems on all its safety properties |
| 4 (done) | `MachineTimer`, `ReadyLists`, `FreeRtosPort`, `FreeRtosPort_proofs` | critical sections, deferred yields, ticks made up, no torn reading; theorems on all its safety properties |
| 5 (done) | `GdbPacket`, `GdbStub`, `GdbLink` over a lossy line, `GdbLink_proofs`, `GdbReplies_proofs` | parser resynchronisation, retransmission; theorems on the bounds of writes, the packets served, where the program goes on, whose reply is taken, how often it runs and what a fault costs |
| 6 (done) | `BadApple`, `BadApple_proofs`, `RtosKernel`, `Acceptance` | media player, with theorems on all its safety properties, and acceptance test |
| 7 | `Dot4`, `RtAlloc`, `RtString`, buzzer player, bit-level `uart_rx` | pure algorithms against references |
| proofs | after each step | done: every safety property of SDRAM, download, bus, port, debugger and player.  Left to TLC: liveness, and the acceptance test, a fixed program |

## 3. SDRAM: `SdramCtrl`, `SdramChip`, `SdramSystem`, `WordMemory`

`SdramCtrl` has one action per state of the controller's FSM, each a whole clock
edge: the default assignments at the head of the `always` block (command NOP,
`req_ready` low, refresh age), the state's own branch, and the registered pins.
`Clock(r, dq)` is their disjunction for the request `r` and bus value `dq` of
the cycle; `Reset` is the synchronous reset.  Data is abstracted to half words
of two bytes from a small set `Byte`, strobes to sets of byte numbers; the
address keeps its arithmetic (row, bank, column, misalignment).  Counters keep
16 bits (`Cycles16`).  The debug outputs are left out.

`SdramChip` is the repository's simulation model: one open row, CAS latency,
write masks, DQ driver.  A read of a bus nobody drives gives the model value
`X`.  `since` is a history variable: cycles since the last command of each
kind, cut off at `Horizon`; it influences nothing.

`SdramSystem` puts controller, chip and a host on one clock.  The host follows
the MiniSoC's ready-first rule (`READY_FIRST = TRUE`: raise `req_valid` only
under `req_ready`, keep `sdram_req_sent` until the response) or holds
`req_valid` as it likes (`FALSE`, the pressure case of the testbench).
`SystemReset` may happen at any edge and resets the chip or does not: the
simulations reset it, the board cannot.

`WordMemory` is what the pair promises: a memory of 32-bit words with byte
strobes and one outstanding request, in which a misaligned request is answered
with an error and has no effect, and a reset during a write leaves each strobed
byte old or new.  `ImplementsWordMemory` is its specification under the
mapping of two cells to a word.

| Run | Question | Bounds, and why they are enough |
|---|---|---|
| `sdram_data` | refinement of `WordMemory`, which a capture of DQ in the wrong cycle breaks; no request lost | two words in two rows (so a stale open row shows), one misaligned address, full and partial strobes, byte values 0 and 1; delays of 1 to 2 cycles, a refresh every 12 cycles, so that refreshes hit every stage of an access |
| `sdram_timing` | command spacing, refresh bound, meaning of `req_ready`; accepted requests are answered and refreshes starve nobody | the delays of `sim/tb_sdram_data_ctrl.v`; one byte value; a host that may hold `req_valid` for ever; `Horizon` beyond every spacing and beyond an overdue refresh; weak fairness of the clock for the two liveness properties |

Deadlock is checked in both.  The refresh age is bounded by the
controller itself, so no bound is added to the model.

### Proved

`SdramSystem_proofs` proves, for all parameters satisfying `SdramBytes`, `SdramData`, `SdramTimes` and
`SystemParams`, any set of requests and both host disciplines:

* `HandshakeInvariance`: `Spec => []HandshakeInv`.  The invariant has the types
  of the registers involved, `busy` exactly during an access, `req_ready` only
  in an idle state with no forced refresh, and a request sent is in service or
  being answered.  `NoLostRequest` alone is not inductive: the step from "ready
  shown" to "accepted" needs that no overdue refresh can appear in that very
  cycle, which is a statement about the refresh age against the deferral; this
  is the strengthening.
* `NoRequestIsLost`: `Spec => []NoLostRequest`, and `ReadyHonoured`: `Spec =>
  []ReadyIsHonoured`, both from that invariant.

`FsmTypeOK` in that module is the type invariant, proved with the rest.

`RefreshedOnTime`: `Spec => []RefreshOnTime`, in the same module and for the same
parameters.  A refresh only waits for the access on its way, so the bound
needs to know how much of it is left: `CyclesLeft(state, wait_count)` falls with
every edge of an access (`AccessMoves`), and `RefreshInv` says that it never
carries the time since the last refresh over the limit.  Before a refresh is
overdue that time follows `refresh_age`, but for the cycles of the
initialisation that are not counted (`AgeInv`).

It also proves `CommandsAreLegal`: `ResetIsLong => (Spec =>
CommandsLegal)`.  `CommandInv` says for each kind of command in which states its
delay is over and in which the timer still counts it (`SpacingInv`), and where
the row is open, closed or unknown (`RowInv`).  After a reset the controller has
forgotten what it issued last and the chip keeps the row open, so the first
PRECHARGE ALL is legal only because the power-up wait is not shorter than tRFC
and tWR: this is the assumption `ResetIsLong`, which every instance in the
repository satisfies (4 against 3 and 2 cycles in the testbench, 10000
against 7 and 3 on the board).  Its second half is about the history variable
alone: `Horizon` is far enough to tell.

`SdramMemory_proofs` proves the refinement, `IsAWordMemory`: `OneWindow =>
(Spec => ImplementsWordMemory)`, for all delays, hosts, strobes, misaligned
requests, refreshes and resets.  Its invariant `MemoryInv` follows an access
through the pins:

* `RequestInv`: what is latched is the request the abstract memory serves, and
  from the first column command the open row is the one of its address;
* `ReadInv`: while the controller waits out the CAS latency the chip counts the
  same number for the same cell (`Coming`), and in the cycle of the capture the
  chip drives DQ and the controller does not (`OnBus`);
* `WriteInv`: which of the two halves of the word is stored already, and that
  the pins hold data and mask of the half whose WRITE goes out.

Each clock edge is then a step of `WordMemory` or none: `RespondStep` gives the
answer, `StoreStep` the write, both together at the edge after the second
WRITE, and a reset in between leaves each strobed byte old or new
(`ResetRefines`).  Two cells of different words must differ in the chip, which
decodes 25 address bits (`sdram_data_ctrl.v:382`): `OneWindow` says that the
addresses lie in one window of 32 MiB.  The SoC sends no others (`is_sdram` and
`SDRAM_SIZE`, `tecplus_minisoc_top.v:53` and `:221`).

Model-checked only: liveness (`ServesForever`, out of the prover's reach).

## 4. Download: `UartPort`, `BootCtrl`, `BootHost`, `BootLink`

`UartPort` is `uart_rx` and `uart_tx` seen per frame: a byte is delivered at the
end of its frame into the one-byte holding register, `overrun` and
`framing_error` are sticky until cleared, the transmitter is busy for
`FRAME_CYCLES`.  The bits of a frame are not modelled.

`BootCtrl` has one action per state of the bootloader, again each a whole clock
edge with the outputs registered: magic matching with restart, header fields,
range checks, BRAM and SDRAM payload, CRC, wipe, replies.  Every multi-byte
integer has `FIELD` bytes instead of four and the BRAM `BRAM_WORDS` words.  The
CRC register is the sequence of bytes fed to it and `Crc` an ideal checksum:
the model does not claim that CRC32 finds errors, it says what follows if it
does.

`BootHost` is the loader's transfer: write a chunk, wait for it to leave, skip
noise, read READY, ACK or NACK, retry, give up.  `BootLink` composes them with
the line, the SDRAM port, the button and the released CPU, which may store
anything in BRAM.

| Run | Question | Bounds, and why they are enough |
|---|---|---|
| `boot_load` | offered BRAM is wiped; the CPU runs only the image; success is real; the board listens again; the loader ends | a LOAD_AND_RUN packet that starts like the magic inside its payload, two chunks, one garbled frame of any junk value, one reset, one retry: a failure in the first attempt can meet the second |
| `boot_image` | no write outside BRAM, segment or window (`WritesStayInside`); a clean line needs no retry | a LOAD_IMAGE packet with firmware and asset; the junk bytes turn lengths into zero, too short, unaligned and too long ones; SDRAM writes take up to nine cycles at a six-cycle frame, the longest that the one byte of the receiver covers (with ten the property fails); inter-byte timeout off, as between chunks the host may take any time |
| `boot_retry` | "a NACK can be retried at once" (fails) | one fault, two retries, no reset |

With `MAX_FAULTS` and `MAX_RESETS` used up the line is clean, so longer fault
sequences add only repetitions of an attempt.  The frame is three cycles in
most runs: the board's answer to a byte may take one or two, so that being in
time and being late both happen.

**Fairness.**  The clock ticks (weak fairness of `ClockTick`).  The loader is a
running process (weak fairness of `HostSteps`).  Its long deadline is far above
anything the board needs, so `HostTimesOut` is enabled only when the board has
nothing left to say, and then it does pass (weak fairness).  Nothing is assumed
of the button, of faults or of the CPU's stores.

**Finding.**  `boot_retry` violates `RetryRecovers`, which states
`docs/BOOTLOADER_PROTOCOL.md:133`: after a NACK the host can retransmit at once.
When the failure happens in the middle of a chunk, the rest of that chunk
overruns the holding register while the board wipes and answers.  `MAGIC`
neither tests nor clears the sticky flag, so the next packet is refused as soon
as its magic has matched, and the rest of its chunk raises the flag again.

### Proved

`BootLink_proofs` proves `BramOfferedClear`: `Spec => []OffersClearedBram`, for any
BRAM size, field width, packet, checksum, faults and resets.  The property says
something of `MAGIC` only; `WipeInv` says how it comes about: in `CLEAR` the words
below `clear_index` are zero, a response that is not ACK leaves with all of them
zero, ACK ends in `RUN`, and the CPU, the only other writer, needs `RUN`.

`WritesInsideTheSegments`: `Spec => []WritesStayInside`, whatever faults and
resets make of the stream.  `PlaceInv` (theorem `PlaceInvariance`) says in which
state which length has passed its check and how far index and word address have
come: an index is below the length it was compared with, `sdram_index` is a
multiple of four exactly when a word is complete, and the sum of address and
length stays below the limit, which the code guarantees by comparing a
difference.  Field values are sums over the table `Weight` of the four powers
of 256, so that no induction over the width of a field is needed.

`OnlyTheImageRuns` (`RunsOnlyTheImage`) and `SuccessMeansLoaded`
(`SuccessIsReal`), both under the hypothesis `IdealChecksum`: of all streams
only the one the host sends has a trailer.  That is the abstraction of CRC32
stated as what it is; without it no board can tell a garbled image from a good
one.  `ParseInv` (theorem `ParseInvariance`) ties the registers, the BRAM and
the SDRAM to the bytes that the checksum has absorbed: header fields are those
at their place in the stream (`HeaderRead`), each payload byte that was taken is
where the header says (`BramRead`, `SdramRead`), and the trailer compares with
the checksum of just these.  So a stream that is accepted is the host's, and
what it left in memory is the image (`StreamIsImage`).  `AckInv` adds the way
back: no byte of an ACK is at the board, on the line or in the loader's buffer
before the board has loaded this image, although NACK and READY of earlier
attempts may be.  `PacketCarriesImage` (assumed in `BootLink`, evaluated by TLC)
says that packet and image belong together, as `uart_loader.py` builds them.

`OneAttemptIsEnough`: `Spec /\ []~Silent => []CleanLineNeedsNoRetry`.  The
receiver holds one byte and nothing tells the loader to wait, so this is about
the cycles of every byte.  `CleanInv` says, while there was neither fault nor
reset, where the bytes of the packet are: the board has taken the first
`BoardRead`, at most one is in the holding register, at most one on the line
(`OnLine`), and what was taken is absorbed as the beginning of the body
(`Absorbed`).  Hence no check of the header can fail, and the trailer is the
checksum of the whole body.  `InTime` relates the time a word has been waiting
for the SDRAM to what is left of the frame: a wait begins with a whole frame
ahead of it, so a byte that is held is taken before the next one ends.  On the
way back, the board has said READY and nothing else when the packet starts, and
ACK and nothing else when the loader listens (`Talk`).  Its hypotheses:
`BuiltPacket`, what `build_packet` and `build_image_packet` check and put there;
`WordInTwoFrames`, `SDRAM_CYCLES < 2 * FRAME_CYCLES - 2`, which the board meets
by far (a frame is 4340 cycles at 50 MHz and 115200 baud) and which is sharp: TLC
finds the overrun at one cycle more; `IdealChecksum`; and that the timer between
two bytes does not run out (`~Silent`; it is one second, and the loader only
pauses to write its next chunk).  `PausesNeedNoRetry` is the case that the timer
is off, in which `~Silent` holds by itself.  `MCBoot` makes TLC evaluate
`BuiltPacket` and `WordInTwoFrames` for each of its packets.

Model-checked only: `BoardListensAgain`, `LoaderEnds` (liveness).

## 5. Bus: `MiniSocBus`, `MiniSoc`

`MiniSocBus` has the registers of the bus and its combinational signals under
their names.  A clock edge does one of four things, the branches of the
`always` block: `Respond`, `Start`, `SdramFires`, `BusWaits`.  Each fixes
`mem_ready`, the remembered request and the latched one together.  Of the MMIO
registers the two of the UART are modelled as they are (`UartPort`), because
reading one consumes a byte and writing one may stall; every other register is
written under the same gate, `MmioEffect`, and reads have no effect there.

`MiniSoc` puts around it:

* the core by its data pins.  `op` is the load or store in the execute stage.
  DarkRISCV (`IDREQ`) moves on only when `mem_ready` and the fetch acknowledge
  are both there (`Halted` is its `HLT`), and its next access may follow in the
  next cycle; `Adjacent` says which pairs the program may have so close.
  PicoRV32 fetches over the same pins and lowers `mem_valid` after every
  acknowledge: `IDREQ = FALSE`, `Adjacent = {}`.  The write data of a load is
  arbitrary, as the comment in `tecplus_minisoc_top.v` says of DarkRISCV.
* the SDRAM controller as its host sees it: a request raised under `req_ready`
  is accepted and answered once, at most `SDRAM_CYCLES` later, and `req_ready`
  may be withdrawn.  Section 3 shows that the controller does this.
* the BRAM with its second port, the serial line, and the reset button.

`effects`, `seen` and `shadow` are history: how often the access on the pins was
executed, what it read then, and the memory as the program has it.

| Run | Question | Bounds, and why they are enough |
|---|---|---|
| `bus_memory` | what a program loads is what it stored, byte by byte, whatever is replayed or merged; the core moves on | one BRAM and two SDRAM words, full and partial stores, all pairs back to back; SDRAM latency 0 to 2, so that acknowledges fall on both phases of the fetch port; weak fairness of the clock |
| `bus_mmio` | each peripheral access is executed exactly once, each acknowledge belongs to the access on the pins; PicoRV32 gets what its access took | either core; UART loads and stores mixed with both memories; for DarkRISCV pairs as the drivers produce them (`uart.c` reads the status between two accesses to the data register), for PicoRV32 every gap |
| `bus_replay` | a load of the receiver returns the byte it took (fails) | UART accesses, two byte values |

**Finding.**  `docs/MEMORY_MAP.md:10` says that a read of UART DATA reads and
consumes one byte.  `bus_replay`: when the first answer to a load of UART DATA
misses the fetch acknowledge, the replay reads the register again; if a frame
ended in between, the core gets the next byte, twice, and the consumed one is
lost.

**A limit of the exactly-once property.**  `Adjacent <- DriverPairs` of
`bus_mmio` is needed.  `same_as_last_req` (`tecplus_minisoc_top.v:266`) compares
address, strobes and data only, and `last_req_valid` is cleared only by a cycle
without `mem_valid`.  DarkRISCV puts its next access on the pins in the cycle
after the acknowledge, so the second of two equal stores in a row (two `sw` of
the same value to UART DATA) is taken for a replay of the first and dropped, and
the second of two equal loads of UART DATA consumes nothing.  With `AllPairs`
TLC shows it as a violation of `ExecutesEach`.  The drivers poll the status
register in between and do not meet it.  For the memories merging two equal
neighbours is harmless, which is what `bus_memory` shows with `AllPairs`.

### Proved

`MiniSoc_proofs` proves for all parameters satisfying `MiniSocParams` and
`UartFrame` (any program, core, memory map, SDRAM latency and frame time):

* `ReplayInvariance`: `Spec => []ReplayInv`.  `AtMostOnce` is not inductive: that
  a second execution is impossible depends on where the first one is kept.  The
  invariant says so: an executed access is either out at the SDRAM with
  `sdram_req_sent`, or latched as a replay, or acknowledged and remembered; a
  latched request and an acknowledge always belong to the access on the pins.
  The lemma `PinsRepeat` is where the arbitrary write data of loads matters.
* `ExecutedAtMostOnce` and `AcknowledgesTheAccess`: `AtMostOnce` and
  `AnswersTheAccess` from it.

* `ExecutedEach`: `NoMmioRepeats => (Spec => []ExecutesEach)`.  The hypothesis is
  the limit described above: a program shows no access to a peripheral twice in
  a row without a gap.  `Fresh` says why that is enough: an access that was not
  executed yet is neither latched as a replay nor remembered as answered.
  `SinglePort` is the part for PicoRV32, which never meets a replay.
* `MemoryIsInOrder`: `Spec => []MemoryInOrder`, with no such hypothesis.
  `MemoryInv` says that a memory is ahead of the program by at most the access
  on the pins (`shadow` with that store merged in), that the SDRAM works on what
  is latched and on nothing else, and that the data the bus remembers of an
  access is what the memory still holds, so that a replay returns it
  (`RespondData`) and a store merged with its equal neighbour is the same store
  (`StoredTwice`).  Words of BRAM and SDRAM are kept apart by `MiniSocParams`:
  the SDRAM begins above the BRAM, on a word (`tinybus_defs.vh`).

Model-checked only: `CoreMovesOn` (liveness).  `ReturnsWhatItTook` is refuted for
DarkRISCV by `bus_replay`; for PicoRV32 it is part of `ExecutesEach`.

## 6. FreeRTOS port: `MachineTimer`, `ReadyLists`, `FreeRtosPort`

`MachineTimer` is the 64-bit counter and compare register in halves of `HALF`
values, and both functions of the driver access by access:
`machine_timer_now()` with its repeated high half, `machine_timer_set_compare()`
with its three writes.

`FreeRtosPort` models `port.c`, `portmacro.h` and what `trap_entry.S` does to the
interrupt mask.  The processor has `mstatus.MIE` (`mie`), the timer enable
(`mtie`), and one trap at a time; `mpie[t]` is the interrupt mask in the frame
of task `t`.  `DispatchEcall` and `DispatchTimer` are the two branches of
`trap_dispatch`, `SetComparePart`, `Tick` and `Restore` go on from there.  The
end of a critical section (`ExitCritical`, `Enable`, `CheckPending`,
`ClearPending`, `Yield`) is taken apart instruction by instruction, because the
timer may interrupt between any two of them once interrupts are enabled.

The kernel is a submodule, so it is modelled from its interface and marked
external: `ReadyLists` has the circular ready lists with their index,
`vTaskSwitchContext`, `xTaskIncrementTick`, `vTaskSuspendAll`/`xTaskResumeAll`
with pended ticks, a call that blocks, a notification that wakes.  They are
there because what the port defers or suppresses only shows in who runs next.

| Run | Question | Bounds, and why they are enough |
|---|---|---|
| `port` | type invariant; critical sections exclude; the highest ready task runs outside the kernel and one that blocked does not (`HighestRuns`); ticks are never early and are made up; a reading of the timer is not torn | an urgent task, two equal ones that share time slices, and idle; at most 1, 2, 1 and 1 kernel calls, nesting 2; `HALF` = 4 so that the low half wraps twice before `MAX_TIME` = 7, a tick every 3 counts, so two ticks may come due in one critical section |

**Fairness.**  The processor executes: a trap goes on (`TrapStep`), the interrupt
is taken when it stays enabled, a task in a kernel call goes on.  Nothing is
assumed of what tasks do between calls, nor of how fast time passes.  The run
does not check for deadlock, because with all calls spent and time at its bound
the model stops, which the program does not.

### Proved

`FreeRtosPort_proofs` proves `CriticalSectionsExclude`: `Spec =>
[]CriticalIsExclusive`, for any set of tasks, priorities, tick length, time and
nesting.  The property is not inductive.  A yield inside a critical section does
trap, and the dispatcher decides by the saved mask whether to switch; so the
invariant `CriticalInv` (theorem `CriticalInvariance`) says that a task with a
positive nesting count is the current one, at a place of the kernel inside of
its section, with interrupts masked outside of traps, and that in a trap, which
can then only be its own `ecall`, the mask is kept in its frame.

It also proves `TicksNeverAhead`: `Spec => []NeverAhead`, for any period, start
and width `HALF` of the timer's halves.  The invariant `TickInv` says that
`next_compare` is one period for each tick counted ahead of the start (two from
the dispatch of the timer up to the tick), that the time has come for all but
the last of these, and that the compare register equals `next_compare` whenever
its three writes are done, so that an interrupt means what it says.  Times are
compared by the lemmas `CountOfSum`, `CountOrder` and `TicksElapsed`.

`HighestAlwaysRuns`: `Spec => []HighestRuns`.  The property says that a yield that
was put off is never lost, and its invariant `ScheduleInv` says where the reason
for a yield is kept meanwhile: the current task is ready and of the highest
priority, or `freertos_yield_pending` is set, or a trap is on its way to the
switch, or the scheduler is suspended with a pended yield (`Reason`).  It needs
the rest of the scheduler: `PlaceInv` (which flags go with which place of the
current task), `ReadyInv` (each ready list is a circle that holds the ready
tasks of its priority once each) and `WaitInv` (a task that waits for an event
or a tick is in none of them).  The lists are moved by lemmas about the
operators of `ReadyLists`: `AdvanceList`, `AppendList`, `UnlinkList`,
`MakeReadyLists`, `SwitchLists`.  The task `Idle` never blocks
(`configUSE_IDLE_HOOK` is 0, `FreeRTOSConfig.h:20`), so that there is always
one to run.

`TypeCorrectness`: `Spec => []TypeOK`, from `ScheduleInv` and the bound of the
nesting.  `ReadingsAreWhole`: `Spec => NowNotTorn`: `NowInv` says of a task in
`machine_timer_now()` that what it has read so far is the half of a time between
the beginning of the call and now, and when both readings of the high half are
equal the low half between them belongs to them.

Model-checked only: `CatchesUp` (liveness).

## 7. Debugger: `GdbPacket`, `GdbStub`, `GdbLink`

`GdbPacket` is `gdb_packet.c`: one action per state of the parser, `Feed` with
the restart at every `$`, and the framing with its checksum over character
weights modulo 256.  Characters no property tells apart are one `Char`.

`GdbStub` is `gdb_stub.c` on the polled UART of `uart.c`: `Stop` (the head of
`trap_dispatch` and the report to a debugger that is attached), `CheckErrors`
and `HandleByte` (the loop), one operator per command.  A command carries what
its text means; addresses and lengths are numbers modulo `WORD`.  `uart_putc`
waits, so the stub is deaf while it sends and the receiver holds one byte.

`GdbLink` adds the line, which may garble a byte, flag a framing error or lose a
byte of the stub, and a debugger that sends one request at a time, repeats it on
`-` and on a timeout, asks for a reply again, and gives up after `MAX_TRIES`.
The debugger is external: it does what the remote protocol prescribes.

| Run | Question | Bounds, and why they are enough |
|---|---|---|
| `gdb` | the stub acts only on what was sent; replies match; writes stay in the buffer and the windows; each continue runs once and resumes where it should; one fault does not cost the session; on a sound line every request is answered | any first request of 13 (all commands, well-formed and refused: outside the windows, across their end, wrapping, an odd address) and a second that reads, asks or continues; a packet of 4 characters, so that some overflow; one fault anywhere; two breakpoints and an illegal instruction |

**Fairness.**  The processor runs, the line carries what was sent, and the
debugger reads and keeps its timer; faults need never happen.  Deadlock is not
checked: a session ends.

**What the properties had to exclude.**  `RepliesMatch`, `RunsOnce` and
`SurvivesAFault` assume `NaksMeant`, because the stub takes a `-` for a nak in
two cases that none is meant:

* A byte its receiver flags outside of any packet is answered with `-`
  (`gdb_stub.c:313`), which the debugger takes for the nak of a request it has
  sent in the meantime: a continue then runs twice, or replies are one request
  late.
* `gdb_packet.c:44` takes any `-` outside of a packet for a nak.  In `Hc-1` or
  `Hg-1`, whose `$` was hit, that is a character of the payload; the stub sends
  its last reply again and overruns the rest.  The plan
  `docs/superpowers/plans/2026-07-12-issue-23-gdb-stub.md:235` speaks of a `-` at
  the top level only.

Apart from these only a lost acknowledgement makes a continue run twice, which
`RunsOnce` counts.

**What only the checksum keeps out.**  `gdb_stub.c:313` clears the error flag of
the receiver before the byte that waits in front of the loss is read.  Is that
byte a `$`, the parser takes it for the beginning of what comes after the gap:
the packet then lacks its first characters, and `OnlyIntact` holds because their
weights are no multiple of 256.  With a command whose first character weighs 256
(two of code 128, which the protocol does not use) `OnlyIntact` fails.

### Proved

`GdbLink_proofs` proves `StubWritesInBounds`: `Spec => []WritesInBounds`, for any
commands, packet capacity, windows that fit the address space, and faults.  Its
two halves are independent: `BufferFeed` (the parser stores only below its
capacity, from whatever state a lost `$` leaves it in) and `MemoryWrite`, which
rests on `SpanInRange`: in a range that `RangeInside` accepts no address wraps
modulo `WORD`.  The sum of an address and a length may wrap, which is why the
code compares differences.

`GoesWhereTold` is `Spec /\ OnlyIntact => ResumesAsAsked`: in a session in which
the stub acts only on what was sent, for any commands, traps and faults, the
program goes on where it was told to.  `TalkInv` (each byte under way to the board
carries the number of a request that was asked; what the stub says are
sequences) makes the request served the one its bytes carry; `ResumeInv` then
says that the flag `resume_pc_explicit` knows of the pc what the history `wrote`
does: at a stop the pc is `stopped_pc` and the flag down, after a `G` it is the
one written and the flag tells whether that is elsewhere.  A `G` that writes the
same pc lowers the flag again, so the flag must be computed and not only set.
`StubParams` assumes of the commands that their texts hold no `$` or `#` and that
a text has one meaning, which is so because the parser of the stub is a function.

`ServesOnlyIntact` proves that hypothesis: `OneFault /\ ChecksumTells => (Spec /\
[][SparesStarts]_vars => OnlyIntact)`, for any commands, scripts, weights and
tries, with any number of bytes lost in the receiver besides the fault;
`ResumesOverABadLine` joins the two.  The argument:

* What is under way to the board is a chain (`ChainIn`): each byte is at a place
  of the frame of its request, the next byte at the next place, and behind the
  end of a frame or a mark comes a `$` or a mark.  The debugger appends whole
  frames and marks (`ChainExtends`), the line takes away from the front
  (`ChainTail`).
* `ParserAt(t, k)`: the last byte the parser took was at place `k` of request
  `t`.  Inside a packet the buffer holds what follows the first `j` characters of
  the text, `j > 0` when the beginning was lost, and the checksum is the difference
  of two partial sums; one character may have been hit, which shifts the checksum
  by a difference of weights.  A parser that has run past a lost `#` is `Astray`:
  it meets the next `$` before another `#`.  `FeedLinks` shows that reading the
  byte that follows keeps this.
* `LinkInv`: the byte in the receiver follows the parser, and the line follows
  that byte.  Where a byte is missing the receiver has flagged it: in front of the
  loop (`gdb_stub.c:313`) the parser is reset; behind it, in `uart_getc`, one byte
  may be read across the gap (`Gap`), and as that byte is not a second digit it
  completes no packet.  This is why clearing the flag before the read is sound in
  the middle of a packet.
* `WholePacket`: at the second digit the two sums agree, so by `ChecksumTells` no
  beginning was lost and no character hit: the buffer holds the text.

`ChecksumTells` says of the constants that no beginning of a text weighs nothing
modulo 256, that no character of it, nor one together with a lost beginning, may
be exchanged for the garbled one, and that a garbled byte has no meaning to the
framing.  TLC evaluates it on the run (`MCChecksum`).  `SparesStarts` excludes a
garbled `$`: behind a loss, marks and the digits of one frame could then precede
the text of the next in the buffer, and there is no bound on the marks.  The run
has that fault among the others.

`GdbReplies_proofs` proves `RepliesAreOfTheirRequests`: `ForeignJunk => (Spec =>
[]RepliesMatch)`, and `RunsOnceForEachContinue`: `ForeignJunk => (Spec =>
[]RunsOnce)`, for any commands, scripts, causes and tries, and for any number
`FAULTS` of bytes garbled or lost.  `ForeignJunk` says of the constants that a
garbled byte reads neither as framing nor as a character of a request; the
checksum is not assumed to tell anything.  `NaksMeant` stays a hypothesis of both
properties, for the reasons above.  The argument:

* `TurnInv` (theorem `TurnInvariance`) says whose turn it is to speak.  `Inbound`
  is what is under way to the stub with the byte in its receiver, `Sent` what is
  under way to the debugger with the stub's output.  A request and a nak hand
  over the turn, and at most one of them is under way (`LineShape`).  While a
  request is coming the debugger waits for its acknowledgement and the stub is
  silent; while the stub speaks, or the program runs, nothing that is still under
  way to the stub makes it answer (`Turns`).  So what the debugger collects is
  the answer to its last request (`SentShape`), and `RepliesMatch` follows.
* A timeout is the hard step: the debugger sends again because a byte was lost.
  It does so only when both lines are empty (`Silent`), so the second request is
  again the only one, and the parser, wherever the first one left it, restarts at
  the `$`.
* For a request to be run it must be the last one that was asked.  `Tracks` says
  that what the parser collects is the beginning of the last request, or holds a
  character that was hit (`Following`).  As no request holds that character, the
  stub knows no command in a packet that was hit.
* `Owed` is 1 from the moment a continue is asked to the moment its
  acknowledgement is on its way.  `resumes + Owed <= Continues + lost` is
  inductive: asking raises both sides, running moves one from `Owed` to `resumes`,
  and a continue is owed again, at a timeout, only if its acknowledgement was lost.

It also proves `FaultsAreSurvived`: `ForeignJunk /\ TextsFit /\ MAX_TRIES >= 1 =>
(Spec => []SurvivesAFault)`.  `TextsFit` says that requests keep to the `PacketSize`
the stub tells (`gdb_stub.c:261`): a longer one it would nak for ever.  Over any
number of faults, `PatienceInvariance` says more: a debugger that gives up has seen
more faults than `MAX_TRIES`.  The argument:

* A try must be paid for by a fault: `tries <= faults`.  That is inductive only with
  what happens between the tries (`Patient`): either a fault is still unpaid (`tries <
  faults`), or the conversation is `OnTrack` and will reach the next request without
  another try.
* `OnTrack` follows it byte by byte.  Waiting for the ack, the rest of the frame is
  on its way to a parser that has its beginning and the sum of it (`Arriving`), or
  the ack is on its way with the whole reply or the promise of a stop behind it
  (`Acking`).  Waiting for the reply, its rest is on its way and what was read is
  its beginning (`Replying`), or the nak is that makes the stub repeat it, or the
  program runs and its debugger will be told (`Stopping`).
* On track no timer expires, as the lines are never both empty, and no nak is
  sent: the parser's two digits agree with its sum, and a reply that was read
  whole is `Intact`.  Off track a fault is still unpaid; the next try pays it and
  puts the conversation back on track.
* A nak of a reply is heard only while the parser waits for a packet.  It does from
  the moment the ack is sent (`AckedInv`), so that a resend never falls into
  `DISCARD`.

Model-checked only: `AllAnswered` (liveness).

## 8. Applications: `BadApple`, `RtosKernel`, `Acceptance`

`BadApple` is the full player.  A step is what a task does up to its next access
to shared state.  The playback, audio and LED tasks take one only when no task of
higher priority is ready (`Scheduled`).  The button task has the highest
priority and is not held up by them: `Sample`, a toggle of the pause included, and
the frame counter go in between any two steps, so a pause begins and ends
between the looks at the counter and at the pause bit, in the loops over frames
and notes, before the sleep and at the end of the stream.  What stays in one step
is the drawing of one frame and the playing of one note, which read nothing that
another task writes but the room of the queue (the audio task empties it first).
Validation is an operator over the stream, run once; the tasks keep their places
in `pb`, `audio_queue`, `count`, `led`.  The traffic lights, the LED pattern, the
number of the beat and what the texts say are left out.

**Time.**  A text counts by the VGA ticks (16.8 ms) it takes at 9600 baud, 1.04 ms
for a character:

| Constant | Code | At 9600 baud |
|---|---|---|
| `ROUND_TICKS` | a round of the loop: up to 96 words a frame, a progress line of 5 to 9 ms, a delay of 1 ms | 1 |
| `PRINT_TICKS` | `print_pause_state`, 18 characters in a critical section, 18.75 ms | 2 |
| `WATERMARK_TICKS` | `print_stack_watermarks`, more than 70 characters, once a stream, with a message that interrupts it: about 94 ms | at most 8 |

A round (from one look of the loop's condition to the next) takes at most
`ROUND_TICKS`, and one message on top, since two presses are at least 60 ms apart;
`spare` is what it may still take.  `Progress` prints once per second and lets
the round with the watermarks take `WATERMARK_TICKS` more.  Outside the rounds,
and between the reading of `pause_start` and its use, any number of ticks passes.
The history variable `played` counts the ticks of the stream.  `VgaTick` and
`VgaReady` are the counter and the ready flag of `vga_bitmap_1bpp.v`.

| Run | Question | Bounds, and why they are enough |
|---|---|---|
| `media` | what validation lets pass is played to its end but for what is due in the last ticks; picture, note and buzzer belong to the logical time; pauses cost no logical time; a press toggles once; the stream ends; low priorities run | a stream of 3 ticks with two frames, a note at its start and one with a beat a tick before its end, where it may be lost, and six faulty streams, one for each check of `validate_asset`; a frame counter of 8 values, more than twice the longest stream as in the code, that starts at 6 and so wraps in the stream and any number of times in a pause; message and watermarks of one tick each, so a round of up to three ticks, and a second of 4/3 ticks, so the watermarks may fall into the last round; two equal samples for a level (three in the code), so the key may bounce |

What these bounds do not reach (three samples, a message of two ticks, watermarks
of eight, streams longer than a second) the theorems below do, for all four
safety properties.

**Fairness.**  Ready tasks run, delays expire, the display gets ready and the
frame counter goes on (weak).  KEY1 need never be pressed.  The LED task, of the
lowest priority, runs if it may again and again (strong fairness of its two
steps), which is what the others sleeping in between gives it.  The subscripts of
`Fairness` are what every step of the action changes.  Deadlock is not checked:
a player that failed stops.

**Where a valid stream stops the player.**  `validate_asset` lets notes pass up
to the last tick, but what falls due in the ticks of the last round is never
looked at again, and `fail(0xba0b, "stream did not finish")` at line 435 finds it
missing; the run has such behaviours, by a message as well as by the watermarks.
The comment at line 137 and `docs/BAD_APPLE_FUTURE.md:167` consider only a progress
line, which takes less than a VGA tick; the line of a pause and the watermarks
take longer. `FailsOnlyAtTheEnd` leaves no asset out: it says that this is the
only way to fail, and that everything `DueInTime` has been shown by then: in a
stream longer than `LONGEST` = `ROUND_TICKS` + `PRINT_TICKS` = 3 ticks all that
is due as many before its end, or `WATERMARK_TICKS` earlier if it comes after the
first second of a stream so short that the round with the watermarks may be its
last (`WatermarksEarly` does not hold: below about 74 ticks). A frequency above
the limit is first noticed when its note is played (the code `"hz"`).

### Proved

`BadApple_proofs` proves the four safety properties for any assets, width of the
frame counter, frame period, length of the queue, of the button filter, of
messages, watermarks and seconds that satisfy `MediaAssumption`: a round with all
that may come in it is shorter than half the counter, and a second is at least a
tick.

* `KeyToggles`: `Spec => OneTogglePerPress`.  `KeyInv`: the last `count` samples
  are equal and the one before them is not, unless the key was never seen
  pressed, for then `count` starts at 0 behind an unknown past.
* `TimeOfTheStream`: `Spec => LogicalTime`.  The player only has differences
  modulo `W`.  What passes between two steps of the player, of ticks, messages
  and toggles, is one relation (`Elapse`, by `TimePasses`).  `ClockInv` bounds
  what was played and what the round may still take, at each place of the round
  (`PlayedBound`), so with an accepted duration below half the counter the
  difference never laps (`PlayedFits`, `SinceLater`); and moving `start` by the
  length of a pause keeps it (`SinceMoved`), however often the counter wrapped.
* `PlayerFailsOnlyAtTheEnd`: `Spec => []FailsOnlyAtTheEnd`.  `CursorsWalk` and
  `CursorsFit`: in a valid asset the cursor fits in front of every frame and is
  behind the last word after the last, so the decoder meets what validation
  saw; `NoBadEvent`: nor does the check of a note's tick (0xba16) ever fail.
  `SoundInv`: the audio task preempts the player, so the queue holds at most one
  note.  `StreamInv` says of each place how far the played time may be ahead of
  the time that was read: `LONGEST`, and `WATERMARK_TICKS` more only behind the first
  progress line, which comes less than two rounds after the first second.  `EndFindsAll`: so what was due in time was shown by the last look.
* `PlayerStaysInSync`: `Spec => []InSync`.  `StreamInv`: nothing shown is ahead of
  the time that was read (`NotAhead`), nothing due is left behind the loops
  (`AllDrawn`, `AllPlayed`), at each place of the round against the time that
  counts there.  `TicksInOrder` turns the check of neighbours in
  `validate_asset` into an order of all events.

`PlayerInvariance` is their common invariant.  Recursion over the frames is a
recursive function, and `IntervalInduction`, with the predicate given as a set,
stands in for induction.

Model-checked only: `StreamEnds`, `LowPriorityRuns` (liveness), and the
acceptance test, whose program is fixed.

`RtosKernel` is the kernel as an application sees it: ready lists with time
slices, delays, timeouts, inherited priorities.  `Acceptance` has each task of
the test as a program, a sequence of instructions, with one action per kind of
instruction; increments outside a critical section are a load and a store.
The heap checks before the scheduler starts, the texts and message contents are
left out.  The watchdog's 1500 ticks never pass before the test ends.

| Run | Question | Bounds, and why they are enough |
|---|---|---|
| `acceptance` | the test ends; a pass leaves nothing behind; it fails only where it races with itself | the test's own numbers (13 workers, queue of 4, 8 messages, 4 turns, timers of 2 and 3 ticks); between two ticks any number of steps above 4 on a busy processor |

**Fairness.**  The processor executes and the timer ticks.  Deadlock is not
checked: the test ends.

**Where it may fail although the kernel is right** (`FailsOnlyForARace`):

* `0xfa015000`: `yield_done++` (`freertos_acceptance.c:205`) is outside a critical
  section, and a tick between load and store loses the other worker's count.
  `tests/freertos_yield_smoke.c` (`done_mask |=`) and `tests/freertos_queue.c`
  (`queue_states |=`) have the same pattern.
* `0xfa030013`: `mutex_mid` is preempted before its first spin.  It takes a tick
  every few steps, as in a simulation where a tick is 4000 cycles; with
  `STEPS_PER_TICK` = 6 only the first remains.

## 9. Reading the results

Every property has a variant of the code, marked "Variant" in its module, that
breaks it: a dropped guard, a missing reset, a swapped order.  `PROJECT.json`
pairs them under `mutants`.

Liveness and `ENABLED` are out of the prover's reach and rest on TLC.

## 10. What is not modelled

The CPU cores are vendored.  Fonts, reporters, asset and build scripts are
data or pure input and output.  Of the bus, the `mem_wait` counter and the
outputs of write-only registers are left out, and instruction fetches only
appear by the timing of their acknowledge.  The bits of a serial frame are not
modelled, nor is CRC32 itself.  The trap handler saves registers one by one; of
the frame only the interrupt mask and the pc matter to the properties.  The
fatal hooks of FreeRTOS stop the system and have nothing after them.  The other
applications use the drivers in a straight line.  The probes are test equipment with
fixed scripts.  `PROJECT.json` gives the reason for each component.
