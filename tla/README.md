# TLA+ models of libnile

libnile is the C and V30MZ assembly library that programs for the WonderSwan
use to talk to the *nileswan* flash cartridge: an SPI controller in the FPGA
that serves three devices (an SPI flash, an MCU and a TF card), and on top of
the TF card a block device for the FatFs file system. These modules describe
the library as state machines that TLC explores and TLAPS proves theorems
about. Every definition that stands for code is tied to the lines it models in
`PROJECT.json` (`map`).

## 1. The system

One CPU, no threads, no interrupts that call the library. The concurrency is
between the CPU and the hardware: the SPI controller runs a transfer while the
CPU goes on, and the devices answer when they like or not at all.

| component | state | operations | interacts with |
|---|---|---|---|
| SPI driver `src/core/spi`, `src/include/nile/spi.h` | `CNT` (START/BUSY, buffer index, device, clock, mode, length), two transmit and two receive buffers, the bank registers it borrows, the timeout | `nile_spi_wait_ready`, `_abort`, `_tx_async_block`, `_tx_sync_block`, `_rx_async`, `_rx_sync_block`, `_rx_sync_flip`, `_xch`, `_xch_block`, `_set_control`, `_set_device`, `_set_speed`, `_flip_buffer` | called by everything below; shares buffers with the controller |
| TF sector cache `src/storage/tfcache.c` | eight slots (data, sector, valid, used_at), a 16-bit use counter | get, invalidate, invalidate_many, invalidate_all | called by the block device; off outside color mode |
| TF block device `src/storage/diskio.c` | `card_state`, the transfer the card is in, the call in progress | `disk_read`, `disk_write`, `disk_initialize`, `disk_status`, `disk_ioctl` | FatFs above; cache, command layer below |
| TF command layer `diskio.c:109-147`, `nile_tf_cs_low_high.s`, `nile_tf_wait_ready.s` | chip select, busy wait | `nile_tf_command`, `nile_tf_cs_high`, `_low`, `nile_tf_wait_ready` | SPI driver |
| TF read pipeline `nile_disk_read_inner.s` | the two receive buffers, ROM bank 1, `EMU_CNT` | three variants of the block loop | writes `CNT` directly |
| Card life cycle `diskio.c:149-336`, `ipc.h` | card power, `card_state`, the status byte in IPC memory that survives a program | `disk_initialize`, `nilefs_eject`, `nilefs_ipc_sync` | command layer, power register |
| Card geometry, FAT time `diskio.c:616-737` | none of their own; the kind of card in `card_state` | `disk_ioctl`, `nilefs_read_card_sector_count`, `_block_size`, `get_fattime` | command layer, MCU |
| Flash driver `src/core/flash` | the chip's write enable latch and busy time | read, write page, erase, status registers, ids, `nile_flash_wait_ready` | SPI driver, writes `CNT` directly |
| Flash layout `src/core/flash_layout` | none | version comparisons | flash driver |
| MCU native protocol `src/core/mcu/*native*`, and the commands built on it, `src/include/nile/mcu` | the response in flight | send_cmd_async, recv_cmd, recv_cmd_start, recv_cmd_finish; commands for the system, EEPROM, clock and USB | SPI driver, writes `CNT` directly |
| MCU boot loader protocol, reset `src/core/mcu` | the boot loader's dialogue, the reset and BOOT0 pins | commands, data, acknowledgement; reset | SPI driver |
| FPGA banks, soft reset `src/core/fpga` | bank masks | `nile_bank_clear_mask`, `_unlock`, `_lock`, `nile_soft_reset` | registers only |

Vendored or out of the tree: FatFs (a submodule, absent), the WonderSwan
toolchain headers (`ws.h`, `wonderful.h`).

### What is hard here

* **CPU against controller.** `nile_spi_tx_async_block` copies a block into the
  visible buffer *before* it waits for anything, while the previous block may
  still be leaving the other one. That is right only while a transfer in flight
  always works on the hidden buffer, whichever call timed out or was aborted.
* **Timeouts that leave a transfer behind.** `nile_spi_xch` gives up without an
  abort; `nile_spi_abort` clears START on a transfer that may be ending. The
  late answer must never become the answer of the next call.
* **Borrowed banks.** Each routine maps the SPI buffers over the application's
  cartridge banks and must put them back on every path out.
* **A slot that is valid before it is filled.** `nile_tfcache_get` marks the
  slot valid at the lookup; `disk_read` fills it much later, or fails.
* **Numbers that wrap.** The cache orders slots by differences of 16-bit
  counters.
* **Error paths that meet.** `disk_read_stop` and `disk_read_end` are reached
  by success and failure alike.
* **State that outlives a program.** Card power and the IPC status byte.
* **Two protocols with one MCU.** Each side counts on the other being at the same
  place of the dialogue; a wait that times out in the middle of a command ends
  that, until the reset.
* **A window that is being changed under the code.** The bank masks are edited
  through the windows that the code runs from.

`PROJECT.json` lists these hazards with their lines and the properties that
cover them.

### What makes each component correct

* SPI driver: CPU and controller never meet in a buffer; blocks arrive whole,
  once, in order, at the selected device; a receive never hands out another
  call's data; banks come back; a call always returns.
* Cache: at most one slot per sector; a lookup in color mode always gets a
  slot; the least recently used one goes.
* Block device: RES_OK means the data was transferred, cached or not; the card
  is not left in a multiple transfer; a valid slot holds what the card holds.
* Life cycle: a usable status implies a powered, initialised card.
* Flash: an erase or a write that returns true has been enabled, sent whole and
  executed, and the chip is ready; it is deselected between calls, and every call
  returns to its caller.
* Geometry: a size that is reported is the size of the card that is there.
* MCU: the answer belongs to the command; what a boot loader call reports as done
  was done, exactly; a reset makes both sides agree again.
* Banks: no window shows another bank, before, between and after the steps.

## 2. Modules

| module | models | extended by |
|---|---|---|
| `NileSpi` | the SPI driver and its controller | `MCNileSpi`, `NileSpiProofs` |
| `TfCache` | the index of the sector cache; also the abstract specification `DiskIO` implements | `TfCacheHistory`, instantiated by `DiskIO` |
| `TfCacheHistory` | `TfCache` with a history variable: how long ago each slot was used | `MCTfCache`, `TfCacheProofs` |
| `BlockDevice` | nothing: the abstract specification of a disk that does not fail | instantiated by `DiskIO` |
| `DiskIO` | `disk_read`, `disk_write`, over the cache and a card that fails at will | `MCDiskIO`, `DiskProofs` |
| `ReadPipeline` | the three block loops of `nile_disk_read_inner.s` against the controller and a card that answers late, wrongly or never | `MCReadPipeline`, `ReadPipelineProofs` |
| `CardLifecycle` | `disk_initialize`, `nilefs_eject`, `nilefs_ipc_sync` over a card, its power and the IPC byte, with restarts | `CardGeometry` |
| `CardGeometry` | `disk_ioctl`, the register reads and what is made of the registers, in the life of the card | `MCCardLifecycle`, `CardProofs` |
| `FlashDriver` | the flash calls and the stack of `nile_flash_wait_ready`, over the controller and a flash chip | `MCFlashDriver`, `FlashProofs` |
| `SpiLink` | the SPI driver in outline, for the routines that talk to the MCU | `McuNative`, `McuBoot`, `Mcu` |
| `McuNative` | the native protocol, its callers and the firmware | instantiated by `Mcu` |
| `McuBoot` | the boot loader protocol and the boot loader | instantiated by `Mcu` |
| `Mcu` | `nile_mcu_reset`, and the composition of the two protocols | `MCMcu`, `McuProofs`, `McuBootProofs` |
| `Banks` | the bank masks of the FPGA | instantiated by `CardProofs` |
| `FlashLayout` | the tests of a firmware's version | `FlashProofs` |
| `FatTime` | the time stamps of files | `DiskProofs` |

### NileSpi

Two processes. The CPU runs one driver call at a time: `pc` is the instruction
group it has reached, each group an action (`TxOpen`, `TxCopy`, `TxWait`,
`TxStart`, `TxClose` are the five parts of `nile_spi_tx_async_block.s`). A group
holds one access to the controller at most, so every interleaving that can be
told apart is a behaviour of the model. The controller has two actions:
`HwComplete` ends a transfer at any time, or never; `HwStop` ends one half-way,
once its START bit has been cleared.

`cnt` is the register field by field (`len8` is the ninth bit of the length,
the only part of the length that `nile_spi_abort` can return by accident);
`bank` and `saved` are the bank registers and the stack copies of them. A block
is named by the number of the call that sends it, or is answered by it; 0 is
what no call produced. A wait times out whenever BUSY is set: the length of
`__nile_spi_timeout` is abstracted away, and a wait with BUSY clear succeeds.

External, modelled from how the code uses it: the controller works on the
buffer that is not visible, and latches device and mode when START is written.

### TfCache

One action per function. The scan of `nile_tfcache_get` is described by what it
computes: the first hit; else the last invalid entry; else the first of the
entries with the greatest age, where ages are differences modulo `CounterMod`
and an age of zero is never chosen. `Invalidate` touches the first entry that
*names* the sector, valid or not, as the code does. `tfcache.c:23` defines
`TFCACHE_DEBUG`, so `InvalidateAll` clears everything, counter included.

`TfCacheHistory` adds what the code does not keep: `since` counts the lookups since
each slot was used, and stops at `CounterMod`. No step depends on it. With it
`EvictsOldest` can say what replacement promises, without the counter that wraps: which
slot *was* used longest ago, not which one looks so.

### DiskIO

One step per exchange with the card or piece of code between two of them. A
block's contents are the pair of its sector and the number of the write that
stored it. `Faults` says which exchanges may fail; a command that fails may have
reached the card. `ReadStop` sets `result` to RES_OK for every path that reaches
it, as line 482 does. `Address` is the variable `sector` after line 402, in
bytes on standard-capacity cards, and `ReadEnd` hands that very value to the
invalidation, as line 491 does.

`open` is what the card is in the middle of. A write that loses a block on its way
may leave the card waiting for a token, still taking the block in (it has the token
but not all the bytes), or storing it; the loop around the stop token
(`diskio.c:563-576`) then meets that card, and `AfterToken` is what the token does to
it: a card that waits for a token stops, one that takes a block in swallows the token as
data, and one that is storing may not see it. The code leaves the loop at the first 0xFF, which
says only that the card is not storing. External: the card's part in that, and that a
card left in the middle of something and deselected fails the next command or has given up
by then.

Two abstract specifications are refined. `ImplementsCache` maps the cache index
to `TfCache`, under all failures and mode changes. `ImplementsDevice` maps the
whole to `BlockDevice`, which has no cache: the card is its store, each block
written is a `Replace`, and every step of a read but its end is a stutter. It
says that the cache cannot be seen, and is checked where that is so (see the
known limits).

### ReadPipeline

One step per access to the controller or per copy, so that a transfer may end
between any two of them. The three routines share the way they wait for a start
token and count blocks, and differ in what they ask for: `movsw` reads a block
as 144 bytes and 370 (the rest and the CRC) and copies each part while the next
one arrives; `lodsw` and `gdma` read 512 bytes and 2, and copy a block while
the next one arrives, through the trick of `EMU_CNT` that makes the cartridge
store what is read. The `lodsw` and `gdma` loops differ in who reads, the CPU or
the DMA unit, and are the same steps.

What a buffer holds is a chunk: a block's number, the byte it begins at (-1 is
the token) and a length. `dest` observes the caller's buffer: the number of
bytes stored in order and each in its place, or `Wrong` as soon as one is not,
comes from a buffer in use, or lies behind what arrived. `stream` is what the
card sends next; a wait ends with the token, with an error token, or never.
`ok` is AL as the loop leaves it. The streaming routines then pop the saved
`EMU_CNT` over it (`result`); `disk_read` sets RES_OK on both of its paths
(`diskio.c:482`), which is why nobody notices.

`DiskIO` uses the outcome (`ReadBlock`, `ReadBlockFails`). `nile_tfcache_copy`,
at the end of the same file, is a plain copy and part of `ReadEnd` there.

### CardLifecycle

One step per command to the card or per access to what outlives the program, so
that `Restart` may come between any two of them. `card_state` belongs to one
program and is zero when the next one starts; the power register, the card and
the IPC byte go on as they were, except that `nile_soft_reset` rewrites the
power register with its unlock value, whose TF bit is clear. The three loops
that wait for the card keep their counter (`retries`), with the pre-decrement of
`while (--retries)`; a loop that finds an error in the first way of initialising
the card goes on to the next one. Five kinds of card (none, MMC, SDSC of either
version, SDHC) answer each command as their standard says; an exchange in
`Faults` may fail, before or after it reached the card. The IPC byte is
assumed to be within reach: these functions select its bank at 1000:0000 but
not, as `m_open_sram_ram_bank` does, that SRAM is mapped there. Cards are
exchanged only while the slot has no power.

The cache invalidation of `disk_initialize` is in `DiskIO`.

### CardGeometry

Adds `disk_ioctl` to the life of the card, one step per exchange. A register is
an array of bytes, filled by the card as the standard of its kind says
(`Csds`, `Ssrs`, `ByteOf`; bits that belong to nothing here are all zeros or all
ones), and decoded by the code's own shifts and masks (`SectorCount`,
`BlockSize`), with products that wrap at 32 bits. `GeometryRight` compares what
comes out with the capacity and the erase size the card meant. Since resets and
exchanged cards go on all the time, it is also about the kind of card that was
found being the kind of card there is. A capacity of 2^32 sectors, all
bits of C_SIZE set, wraps to 0 and is an error; `SectorsCountable` leaves it out. TLC
counts in 31 bits, so that the run stops at 2097150, the proof goes up to the limit. A transfer that was lost, and whose
loss went unnoticed, is remembered in `lost`.

### SpiLink, McuNative, McuBoot, Mcu

`SpiLink` is the SPI driver with its two pairs of buffers and its transfer in
flight, but a wait and the step behind it are one action, and a call of the
driver is not split further: `NileSpi` does that. A buffer holds one word that is sent, or
a sequence of units that was received; headers, arguments and blocks are tagged
with the call they belong to.

`McuNative` has one action per access to the controller of
`__nile_mcu_native_send_cmd_async`, `nile_mcu_native_recv_cmd`, `_start` and
`_finish`. The inline functions of `mcu/system.h`, `eeprom.h`, `rtc.h` and `cdc.h`
differ in whether they have an argument and a block, how much they make room
for, and what they make of the answer: `Calls` is the set of those kinds. A byte
is one unit and a longer value two. `get_fattime` is one of them, with the
`CNT` it saves and restores. The firmware (external) hears a word for each
transfer, answers when it has all of a command, with any length, as an error or not, and
may be sent to another mode, in which it hears nothing.

An answer's header has ten bits of length, one for an error and five more, which the
code ORs into the number it returns (`nile_mcu_native_recv_cmd.c:56,88`). `Flags` are the
values of these five as a signed number (-16 to 15), `Received` is the number the callers
see, and `Given` makes their tests of it, not of the length. An error answer may have data
behind its header as well; `recv_cmd` does not read them (`:42-43`), and they stay where they
are (`HeaderError` ends `intact`).

`McuBoot` has a call's remaining exchanges in `todo`: the routines call
each other, and stop at the first that fails. `SendData`, `RecvData`, `WaitAck`,
... are those routines, as sequences. A checksum is named by what it covers. The
boot loader (external) knows what it expects next; what is not that makes it
`lost`, and then it may answer anything. It refuses wrong checksums, and whatever
it likes.

`Mcu` composes both over one link with `nile_mcu_reset`. The reset may be called
between any two calls, whatever was cut off before; it does not abort what is in
flight, so that it can itself time out.

`intact` is a history variable: since the reset, no call was given up half-way. After
that the models only allow the reset, as nothing can be said of the rest: that is
what the reset is for.

### Banks, FlashLayout, FatTime

`Banks` has each function of `nile_bank.c` one register access at a time; a
register is the set of its bits. `Shows` is what a window shows (external: the
FPGA). It has no run: a run with registers of nine bits is beyond TLC, and the
theorem is about all of them. `FlashLayout` has the two comparisons, `FatTime` the conversion of
the clock's date, as operators; what is proved of them is in `FlashProofs` and
`DiskProofs`.

### FlashDriver

One step per access to the controller with the wait before it. `Timeouts` names
the places where a wait may run out while a transfer is in flight; the transfer
goes on. The calls share their actions as they share their code: a command is
`CmdLow`, `CmdSend`, `CmdSent`, `CmdHigh`; an erase, a page and a status register
write are a WREN command and then `Low`, `Send` (`SendData` for a page), `Sent`,
`High`, the wait and `Exit`; a read is `Low`, `Send`, then `Recv` and `Received`
for each block. `read_id` stands for all calls built on `nile_spi_xch_block`. The UUID is a read of one
block.

`nile_flash_wait_ready` writes `CNT` itself, and keeps words on the stack:
`stack` is the return address, DS, and then the port and bank of
`m_push_sram_bank_state`, replaced before the loop by the saved ROM bank 1.
`PollLeave` takes three words off it and interprets them, as lines 91 to 103 do;
`pc = "lost"` is a return to something else than the caller. BX still carries
START then, so deselecting the chip starts a transfer to no device (`Dummy`),
which the next call waits for.

External, modelled from how the code uses it: the chip collects
a command while it is selected and carries it out when it is deselected (also
half of it, when the chip select is taken back during a transfer); erases and
writes need the write enable latch, which they clear; while busy it ignores
everything but the status register, asleep everything but the wake command.
The status byte received is the one of the moment the transfer ends. Addresses,
data and block protection are left out. `LIBNILE_CLOBBER_ROM1` is not set.
Between two calls the program may leave a transfer to the TF card in flight.

## 3. Runs

Deadlock is not checked in the runs of `NileSpi`, `DiskIO`, `FlashDriver` and `Mcu`,
whose clients stop after `MaxCalls` calls, nor in `read_pipeline`, which is one call. It is
checked in the others.

| run | question | bounds |
|---|---|---|
| `spi_safety` | all properties of the driver, and does every call return? | 4 calls, 2 devices, color |
| `spi_rx_result` | does a receive that returns true store data? **no** | 2 calls |
| `cache_lookup` | uniqueness, room, replacement order | 3 slots, 4 sectors, counter modulo 5 |
| `disk_clean` | is the disk a block device, cache or no cache, without failures and with writes of several sectors? does every valid slot hold what the card holds? | 7 calls, 2 slots, 3 sectors from 0, block addressing |
| `disk_faulty` | with everything failing: the cache's index, transfers left open, are the blocks on the card, what the card itself is read for, where a call can be held up | 4 calls, 2 slots, 3 sectors from 0, byte addressing, mode changes |
| `disk_stale` | is a single-sector write seen by the next read? **no** | 7 calls, nothing fails |
| `read_pipeline` | do copy and transfer stay apart, is success the whole truth, does the loop return? | 3 routines, calls of 1 to 3 blocks, either buffer visible first |
| `card_life` | is the IPC byte trustworthy and is 0 from `disk_initialize` true, with resets anywhere? is addressing right? are the sizes? does every call return? | 5 kinds of card, 3 retries, every exchange may fail; 4 capacities of each form of the CSD, 3 block lengths, all units of the SSR |
| `disk_short` | does RES_OK mean that the data came? **no** | 2 calls, missing data |
| `flash_ops` | does true mean erased or written, and ready? is the chip deselected and are the banks back? does every call end? | 3 calls, reads of up to 2 blocks, every wait may time out |
| `flash_early_exit` | does `nile_flash_wait_ready` return to its caller? **no** | 2 calls, its first waits may time out |
| `mcu` | are answers those of their own command? was what is reported as done done? do both sides agree where they are, and does a reset make them? does every call end? | 2 calls and any resets before the second, SPI and caller's buffers of 3 units besides the fixed ones of 0 to 2, answers of 0 and 2, header bits of 0, 1 and -16, erases of 2 sectors and of all |

Why the bounds suffice. A hazard of the SPI driver involves the call in
progress, the transfer in flight (of an earlier call) and at most one more block
waiting in a buffer; four calls let a timed-out call, an aborted one and two
successful ones follow each other in any order, with all thirteen routines. The
proofs lift the bound anyway. Three slots and four sectors force evictions, and
a counter modulo 5 wraps within a handful of lookups, with ages both smaller and
larger than the number of slots. Three retries are the fewest with which a loop
succeeds, fails and runs out after it has waited; the card's life has no other
counter, and its runs are not bounded in the number of calls. Three blocks are a
first one, one between others and a last one, which is all the block loop tells
apart; either buffer may be visible first. Seven calls on the disk fill both slots, evict,
write over and read back. Three flash calls are one that fails half-way, one that meets
what it left (a transfer, a busy chip, a latch that is set), and one after it.
An answer of the MCU is empty, shorter than the room for it (3), just as long (2), or longer
(1 and 0), so that the rest or all of it is skipped; the bits of its header are not set, make the
number larger, or make it negative; two calls are one that leaves something behind (the rest of an
answer, a transfer to the TF card, an answer still to be fetched) and one that
meets it. `RetryMod = 3` has the boot loader polled until the counter runs out.
The capacities have ones and zeros in each of the bytes they are put together from, and
the largest of each form.

Properties that are proved in general and were implied by others that are run are not
run any more: the type invariants of `NileSpi`, `TfCache`, `CardLifecycle` and
`ReadPipeline`, and their inductive invariants.

### Fairness

`WF_vars(DriverStep)`: the CPU executes its next instruction group. The
controller has no fairness at all: `CallReturns` of the driver holds because every wait is
bounded. In `DiskIO` the loop that sends the stop token of a multiple write
(`diskio.c:563-576`) has no bound, and nothing is assumed of the card that would end
it: `disk_write` may not return, which is a limit of the code. `CallReturns` says
that this is the only place: a call returns, or is in that loop for ever (`InStopLoop`). In
`CardLifecycle` every loop is bounded, and `WF_vars(DriverStep)` is enough. In
`ReadPipeline` the waits for data have no timeout: `WF_vars(DataArrives)`, the
controller clocks in as many bytes as it was told to, card or no card. A wait for
a token has no fairness, the card may be silent; that wait is the one with a
timeout. `FlashDriver` has `WF_vars(HwEnds)` and `WF_vars(ChipDone)`: a transfer of
a given length ends, and so does what the chip is doing. The loop that polls the
status register has no bound of its own, so without the second a call may not
return; the SPI timeout limits each exchange, not their number. In `Mcu`
`WF_vars(DriverStep)` is all: nothing is asked of the controller, the firmware or the
boot loader, since every wait is bounded and so is the number of polls.

The busy wait of the TF card, `nile_tf_wait_ready`, polls the controller itself
without a timeout, for transfers of a given length whose end is the hardware's to keep.
`DiskIO` and `CardLifecycle` take that wait as a step that succeeds or fails.

### What the violation runs show

* `spi_rx_result`: `nile_spi_rx_sync_block` ends with `nile_spi_abort` on every
  path and returns its result. A receive that timed out returns true when the
  controller becomes ready during the abort.
* `disk_stale`: the invalidation stops at an invalid entry that still names the
  sector, and the valid one survives the write.
* `disk_short`: a read whose data never came reaches line 482 and reports
  RES_OK.
* `flash_early_exit`: the two waits before the loop of `nile_flash_wait_ready`
  leave with the saved SRAM port and bank still on the stack. The end takes the
  bank for ROM bank 1, the port for DS, and returns to the saved DS.

### Known limits of the code that bound the passing runs

`CacheCoherent` and `ImplementsDevice` are checked without failures, with writes of several sectors and
without mode changes, because they do not hold otherwise: a single-sector write
may miss the valid entry (`tfcache.c:109`); a failed command invalidates by the
first entry that names the sector, and on byte-addressed cards by a shifted
number (`diskio.c:402,491`), leaving a valid slot that was never filled; a write
in mono mode invalidates nothing (`tfcache.c:105`). `WriteOkMeansStored` does not
hold when a block is lost on the way (`diskio.c:537`): its premise excludes that
case, which the history variable `lost` remembers, and no other. `OkClosesTransfer` has the
same premise for writes: the card that has the token but not all of the block takes
the stop token for data, answers 0xFF, and RES_OK is returned while it is still receiving
(`diskio.c:537-547, 563-572`). A block that is refused leaves the card receiving too
(`:554, :558`), but there RES_ERROR is returned. `AddressingRight` says only that a
byte-addressed card is never addressed in blocks: a high-capacity card whose OCR
cannot be read stays addressed in bytes (`diskio.c:263`), and one whose answer to
the first initialisation is lost can be taken for an old one. A failed initialisation
leaves `CNT` zero, with the other clock than it found, and a timeout of 1 ms
(`diskio.c:306`): neither is state of the model. `nile_spi_abort` with nothing in
flight returns the high byte of `CNT`, which may be zero (`nile_spi_abort.s:33`),
although `spi.h` reserves false for a timeout.

`TrueMeansDone` of the flash is about calls that found the chip idle and got it
selected each time (`clean`). Otherwise true may mean nothing: a call that comes
while an earlier erase, given up after a timeout, still runs has its commands
ignored, waits for the end of the other's and returns true; and nobody asks
whether the selection succeeded (`__nile_flash_cmd.c:30`), so that the bytes may
go to another device. `CallEnds` lets a call be lost, since that is what
`flash_early_exit` shows.

A card that refuses SET_BLOCKLEN is powered off, and `card_state` keeps the kind
that was found, so that `disk_status` reports a usable card
(`diskio.c:308,316`), although line 198 says "TF card unpowered, clear card".

`GeometryRight` is about what `disk_ioctl` returns with RES_OK. Block sizes of newer
cards come from the SSR, whose answer has two bytes; the code reads one and takes
the other for the token (`diskio.c:632`), so that `GET_BLOCK_SIZE` fails unless the
card leaves it out. An SD card that errs on ACMD41 is taken for an MMC card
and its erase size decoded as one (excluded by `Recognised`). The largest SDSC capacity
expressible wraps to 0 in 32 bits, and is an error (`diskio.c:647`). CSD structures of MMC
cards other than 0 are decoded as those of SD cards, or as none (`diskio.c:641`); the
model's MMC cards have 0.

`FatTime`: lines 717 and 718 put the month where the hour and the minute belong, and
where the month is not one they overlap with other fields. `FlashLayout`: the magic
value of the manifest is never compared, so erased flash is a version with
`partial_install` set, and anything else a version.

MCU. After a call that timed out half-way nothing is claimed but for the reset:
the firmware may be waiting for an argument, and would take the next command for
it. The same goes for an error answer that has data, which `recv_cmd` leaves unread for the
next call (`nile_mcu_native_recv_cmd.c:42-43`). The number a receive returns is that of the bytes received, as
`mcu.h:177` says, only while the firmware sets none of the upper five bits of the header:
they are ORed into it (`:56,88`), so that with them an empty answer passes for a value, `get_fattime`
takes one that is too short (`diskio.c:731`), and bit 15 makes a whole answer negative, like an error.
`AnswerIsOwn` states what is returned, the bits included. A receive that times out can return true, by the result of its abort, and the header is then what the stack held
(`nile_mcu_native_recv_cmd.c:39`; `ReceiveAborted` takes any). The rest of an answer
of more than 512 bytes beyond the caller's buffer is skipped only in part (`:54`).
`nile_mcu_native_mcu_reg_read_sync` returns its variable whatever came
(`system.h:64`). An erase of no sectors would be sent as an erase of 65536, a code
of its own (`nile_mcu_boot_erase_memory.c:31`): `BootAssumption` excludes
it. The reset waits for what is in flight and does not abort it, so that an answer
that never comes makes it time out (`nile_mcu_reset.c:33`). Three timeouts of
`nile_mcu_boot_wait_ack` go unnoticed (lines 31, 39, 42), which the run shows to be harmless.

`BanksKept` is about the windows whose lock was set, or whose registers fit in the mask
already: `nile_bank_unlock` goes on when *any* lock bit is set, and masks the registers of windows
that were unlocked as well. The linear window is as `fpga.h:36` says, only for images of a megabyte or more.

## 4. Proofs

Proved by TLAPS for every number of calls, devices, slots and sectors, every
width of the counter and every build:

* `NileSpiProofs`: `SpiInv` is inductive. The properties alone are not: that the
  CPU never meets the controller needs to know that a transfer in flight works
  on the hidden buffer (`FlightInv`), that the places after a successful wait see
  BUSY clear (`ReadyInv`), whose block the visible buffer holds (`CopiedInv`),
  whose answer the hidden one will hold (`AnswerInv`), and that transfers are
  numbered like calls (`WireInv`). One lemma per action, one step per conjunct
  it disturbs. From `SpiInv` follow the theorems `TypeCorrect`,
  `WindowsNeverRace`, `BlocksStayIntact`, `WireInCallOrder`,
  `TransmitsDelivered`, `AnswersAreOwn`, `TrueMeansReady`, `BanksComeBack` and the
  action property `NothingOverruns`. Assumption: `SpiAssumption`.
* `TfCacheProofs`: `CacheInv` is inductive. `AlwaysRoom` alone is not: all ages
  might be zero. `NewestInv` adds that with all slots valid one of them has age
  1, which no other lookup can undo without taking its place, since any lookup
  gives its own slot age 1. From it, and from the existence of a first and of a
  greatest element in a finite set of numbers, every full cache has a slot to
  evict (`RoomForever`). `OldestGoes` (`EvictsOldest`) is about `TfCacheHistory`: until the
  counter comes round, the age that the scan computes of a valid slot is the number of lookups that have
  passed since it was used (`AgeInv`, inductive), so that the greatest age is the longest
  time. The history adds no behaviour (`HistoryIsTheCache`). Assumption: `CacheAssumption`
  (the counter counts at least to 1).
* `ReadPipelineProofs`: `PipelineInv` is inductive, for calls of any number of
  blocks. `OkMeansStored` alone is not: that the last copy completes the buffer
  needs to know, at each place of the loop, which transfer is in flight or done,
  which chunk each buffer holds or will hold (`Pending`, `Visible`), and how far
  the copy has come (`Before`). From it follow `SuccessIsWhole`,
  `CopiesUndisturbed` and the action property `NothingOverrun`. Assumption:
  `PipelineAssumption`.
* `CardProofs`: `LifeInv` is inductive, for every set of cards and failures and
  any number of retries. `StatusTrustworthy` alone is not: publishing needs to
  know that the card is ready and has its block length, which the places before
  it remember (`PlaceInv`), a reset between them needs to know that nothing is
  published there (`Unpublished`), and power and card must go together
  (`PowerInv`). From it follow `StatusSurvives`, `OkIsTrue` and `AddressedRight`.
  - With the queries of `CardGeometry` in between, `GeometryInv` is inductive. That a
    number which is told is right needs to know, from the moment the card has answered,
    that this card is there and ready still, and that the bytes are those of the register
    the code takes them for (`QueryInv`). Decoding is one lemma per field:
    the three parts of a 12-bit capacity are put together again (`SizeOfV1`), the 22-bit one
    from its bytes (`SectorsOfV2`), the exponents, the allocation units and the erase groups
    likewise, whatever the bits around them are. It gives `GeometryTold` (`GeometryRight`)
    and, since queries leave the life of the card as it was, `LifeWithQueries`.

  Assumptions: `CardAssumption`, `GeometryAssumption`, and that no capacity reaches 2^32
  sectors (`SectorsCountable`).
* `FlashProofs`: `FlashInv` is inductive, for any calls and whichever waits time out.
  The properties alone are not: that true means done needs to know what the chip has
  heard at each place, or is about to (`Hears`, `DoneInv`), that the status byte was
  received while it was asked for (`StatusInv`), that nothing puts the chip to sleep in
  between (`AwakeInv`), that bytes reach it only while it is selected (`SelInv`), and that
  the end is clean needs the words on the stack (`BankInv`). From it follow
  `WrittenIsDone`, `WaitedIsReady`, `EndsClean` and `FlashTypeCorrect`.
  `AlwaysComesBack` adds that the two early exits that `flash_early_exit` takes are the only way to get
  lost: where they do not time out, the stack always holds what the end expects.
  Assumption: `FlashAssumption`.
* Of `Banks` (at the end of `CardProofs`, which instantiates it): `BanksInv` is inductive,
  for registers, masks and locks of any value.
  `BanksKept` alone is not: that the locks may go, or the mask be opened, needs
  the registers that have been masked before (`MaskedInv`), and that masking one
  changes nothing needs the windows concerned to fit their mask still (`FitInv`).
  The theorem is `BanksStay`.
* `DiskProofs`: `DiskInv` is inductive, for any sectors, slots and calls, whatever
  fails. The properties alone are not: that a read past the cache returns the card's
  blocks needs to know, at each place of the loop, which blocks the buffer holds already
  (`ReadInv`), that a write is stored needs the same of the card (`WriteInv`), and both
  need the places where nothing has been transferred or lost yet (`CallInv`); that the card is left
in the middle of nothing needs to know which token it waits for at each place of the write loop (`WriteInv`). From it follow `DiskTypeCorrect`, `OkIsClosed`,
  `UncachedReadsAreRight` and `WritesAreStored`.
  - `IsCache` is the refinement of `TfCache`, step by step; with it everything proved in
    `TfCacheProofs` holds under the driver (`DiskNoTwins`).
  - What is said of the cache's *contents* holds only where its weaknesses do not show:
    `Sheltered` says that reads do not fail, that no sector is written alone and that the
    program keeps to a color mode. It is the code that asks for this: `disk_short` and
    `disk_stale` show what happens otherwise, and in a mono mode nothing is
    invalidated. Under it `CoherentInv` is inductive, which adds to
    `CacheCoherent` the slot that was handed out and is not filled yet; it gives
    `CacheStaysCoherent` and `ReadsAreRight`. Writes may still fail half-way. Where they do
    not either (`Faults = {}`), `IsDevice` is the refinement of `BlockDevice`.
  - Of `FatTime`: fields of their width do not run into each other (`FieldsApart`, one
    digit at a time), so that `DateRight` and, for the code's mistake, `TimeIsMonth` hold
    of every valid time.

  Assumption: `DiskAssumption`.
* `McuProofs`: three invariants, for any answers, buffers, sizes and number of calls.
  - `TypeInv` is inductive; `TypeOK` is not, since the routines act on words
    that came in: that a length is a number needs to know that what is in flight is what
    its receiver takes it for (`LinkInv`), that only a script's own words are compared
    and counted (`BootTypes`), and that a script asks for what its sizes announce. It
    gives `McuTypeCorrect`.
  - `SyncInv` adds how much of a reset's start byte and of its acknowledgement the boot
    loader has been through at each place of the script (`SyncBoot`, `SyncWait`), wherever the
    calls before it were cut off. It gives `ResetLeavesMcuListening`.
  - `NativeInv` says where the firmware is at each place of a native call: before the
    command and after the answer both are `Settled`; on the way the argument is next
    (`Telling`), then the block (`TellingMore`), then all has been `Sent`; the whole
    answer (`Started`) or its header (`Heading`) is on its way, then its data (`Coming`),
    and what does not fit the caller's buffer is skipped. Calls that were cut off are
    excused by `intact` until the next reset. It gives `AnswersAreOwnCommands` and `FirmwareFollows`
    under `Roomy`: the buffers that programs pass fit in one transfer of the
    controller, as `mcu.h` asks for (512 bytes, line 160), and so does a value with its
    header. The run `mcu` is within it.

* `McuBootProofs` goes on with the calls of the boot loader.
  - `BootInv` says how many steps of its script the boot loader has been through at each
    point of a call (`InCall`). Where the routine is at a step, it has been through all
    before it; or the last word is still in flight; or, since a timeout of the byte before
    an answer goes unnoticed, it may be one word behind (`About`). While the routine waits,
    the word of the step is on its way, or the reply has come (`Waits`, `Made`); once it has
    refused, only the echo is left (`Refused`). That being through h steps (`LoaderAt`)
    determines what it expects, what it has been told and what the next checksum must cover
    is the larger part of the proof: one lemma per routine gives the steps of its script
    (`VersionIs` to `EraseIs`), one says what every step can be (`StepKnown`), and one per
    kind of step what the boot loader makes of it (`PlainHears` to `ReceiveSends`). An erase
    is where the two lengths come from different computations: the routine counts the pages
    it sends, the boot loader the pages announced to it (`CountComes`). It gives
    `BootCallsAreDone` (`TrueMeansDone`) and, with `FirmwareFollows`, `TwoSidesFollow`
    (`McuFollows`) under `Readable`: 1 to 256 bytes are read and written at a time, as
    `mcu.h` says (lines 109 and 125), and fit in the controller's buffer. The run `mcu` is
    within it. TLC checked it on that run's instance before it was proved.

  Assumptions of both: `NativeAssumption`, `BootAssumption`, `McuAssumption`, `WindowAssumption`.

`FlashProofs` also holds the theorems about `FlashLayout`: `AtLeastIsNotOlder` says that the
chain of comparisons is the order of versions, `CompatibleIsBounded` what the other test adds
to it.

### How long a call takes

Liveness under fairness is out of the provers' reach, but what it rests on is not: a
number that every step of a call lowers. For five components `StepsLeft` is that number,
an action property `CallsAdvance` (`LoopAdvances`) says that no step from within a call
raises it and only those of somebody else leave it, and the theorem adds that it is
bounded. With the fairness of the CPU every call ends, which is what the runs check.

| theorem | of | a call takes at most | but for |
|---|---|---|---|
| `CallsEnd` | `NileSpi` | 11 steps | the controller's steps |
| `LoopEnds` | `ReadPipeline` | 13 for each block, and 13 | waiting for data that is clocked in |
| `DiskCallsEnd` | `DiskIO` | one for each block, and 5 | the stop token that a card does not take (`diskio.c:563-576`) |
| `CardCallsEnd` | `CardGeometry` | 8, and two for each retry | what the user does to a slot without power |
| `McuCallsEnd` | `Mcu` | a number known when it starts: for each word of the script, two for each poll there may be | the steps of the MCU and the controller |

The third column is where the work is. In `CardLifecycle` three loops share one counter,
and one that gives up hands over to the next; in `Mcu` a script may be rewritten
while it runs, by a length that came in or by a refusal, and every "busy" asks again, up to
a counter that wraps. The last column says which steps leave the number as it is,
and so what the fairness of the run has to exclude. `FlashDriver` has no such number: it
polls as long as the chip is busy, and only the chip's own fairness ends that.

Only model-checked: liveness itself (`CallReturns`, `CallEnds`, `Returns`). The violation
runs refute what they check.

## 5. Not modelled, and the plan

Left out for good: FatFs, the build, the exact length of timeouts and delays, data bytes,
the interrupt registers (one write each, read by nothing here), `LIBNILE_PCB_REV4` in the
runs (a constant of `Mcu`).

What could follow:

1. An abstract ordered channel, implemented by `NileSpi` and used in place of `SpiLink`.
2. The TF command layer between `DiskIO` and `NileSpi`: chip select and busy wait as
   transfers.
