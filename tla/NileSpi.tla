------------------------------ MODULE NileSpi ------------------------------
(***************************************************************************)
(* The SPI driver of libnile (src/core/spi) and the controller it drives.  *)
(*                                                                         *)
(* The controller owns two transmit and two receive buffers.  The control  *)
(* word CNT names the buffer the CPU sees (BUFFER_IDX); a transfer always  *)
(* works on the other one.  The driver copies the next block while the     *)
(* previous one is still on the wire, so everything rests on the CPU and   *)
(* the controller never meeting in one buffer, whichever calls time out.   *)
(*                                                                         *)
(* Two processes: the CPU, which runs one driver call at a time (pc is the *)
(* point it has reached, "idle" between calls), and the controller, which  *)
(* ends a transfer whenever it likes, or never.  Every call starts at most *)
(* one transfer, so the number of the call stands for the block it sends   *)
(* and for the block the device answers with; 0 is what no call produced.  *)
(***************************************************************************)
EXTENDS Naturals, Sequences

CONSTANTS
    Devices,        \* chip-select values of CNT
    DevNone,        \* NILE_SPI_DEV_NONE, the one encoded as zero bits
    MaxCalls,       \* bound: driver calls in a behaviour
    Ops,            \* the driver calls the client makes
    ClobberRom1,    \* the build defines LIBNILE_CLOBBER_ROM1
    Color           \* the console runs in color mode

AllOps == { "wait_ready", "abort", "rx_async", "tx_async_block",
            "tx_sync_block", "rx_sync_block", "rx_sync_flip", "xch",
            "xch_block", "set_control", "set_device", "set_speed",
            "flip_buffer" }

ASSUME SpiAssumption ==
    /\ DevNone \in Devices
    /\ MaxCalls \in Nat
    /\ Ops \subseteq AllOps
    /\ ClobberRom1 \in BOOLEAN
    /\ Color \in BOOLEAN

VARIABLES
    cnt,        \* IO_NILE_SPI_CNT, field by field
    xfer,       \* the transfer in flight, or the last one
    tx,         \* the two transmit buffers
    rx,         \* the two receive buffers
    wire,       \* blocks sent in full, with the device that was selected
    bank,       \* the cartridge bank registers
    saved,      \* bank values the driver keeps on the stack
    cartFast,   \* WS_SYSTEM_CTRL_COLOR_CART_FAST_CLOCK
    pc,         \* what the CPU does next
    call,       \* the current or last driver call
    calls,      \* number of driver calls made
    ret,        \* the value it returned
    got         \* what a receive stored for its caller

vars == << cnt, xfer, tx, rx, wire, bank, saved, cartFast,
           pc, call, calls, ret, got >>

hwVars   == << tx, rx, wire >>
bankVars == << bank, saved >>
callVars == << call, calls >>

----------------------------------------------------------------------------
Modes   == { "WRITE", "READ", "EXCH" }      \* WAIT_READ differs only in when
                                            \* the device starts to answer
Speeds  == { "384KHZ", "6MHZ", "24MHZ" }
Blocks  == 0 .. MaxCalls
NoCopy  == MaxCalls + 1                     \* the caller's buffer is untouched
Buffers == 0 .. 1

\* One byte is exchanged by nile_spi_xch; the other transfers carry a length,
\* whose ninth bit shows in the high byte of CNT.
Lengthy == { "rx_async", "tx_async_block", "tx_sync_block", "rx_sync_block",
             "rx_sync_flip", "xch_block" }

Receiving == { "rx_sync_block", "rx_sync_flip", "xch_block", "xch" }

EntryPoint ==
    [ op \in AllOps |->
        CASE op = "wait_ready"                              -> "ready_wait"
          [] op = "abort"                                   -> "abort"
          [] op \in { "tx_async_block", "tx_sync_block" }   -> "tx_open"
          [] op \in { "rx_async", "rx_sync_block",
                      "rx_sync_flip" }                      -> "rx_wait1"
          [] op = "xch"                                     -> "xch_wait1"
          [] op = "xch_block"                               -> "blk_open"
          [] op \in { "set_control", "set_device",
                      "set_speed" }                         -> "set_wait"
          [] op = "flip_buffer"                             -> "flip" ]

PCs == { "idle", "ready_wait", "abort", "abort_wait",
         "tx_open", "tx_copy", "tx_wait", "tx_start", "tx_close", "sync_wait",
         "rx_wait1", "rx_start", "rx_wait2", "rx_select", "rx_copy",
         "rx_restore",
         "xch_wait1", "xch_open", "xch_copy", "xch_start", "xch_close",
         "xch_wait2", "xch_select", "xch_read", "xch_restore",
         "blk_open", "blk_copy", "blk_close", "set_wait", "set_write",
         "flip" }

TypeOK ==
    /\ cnt \in [ start : BOOLEAN, idx : Buffers, dev : Devices,
                 clock : BOOLEAN, mode : Modes, len8 : BOOLEAN ]
    /\ xfer \in [ id : Blocks, dev : Devices, mode : Modes, buf : Buffers,
                  stop : BOOLEAN ]
    /\ tx \in [ Buffers -> Blocks ]
    /\ rx \in [ Buffers -> Blocks ]
    /\ wire \in Seq(Devices \X Blocks)
    /\ bank \in [ rom1 : { "APP", "SPI_RX" }, ram : { "APP", "SPI_TX" },
                  flash : { "APP", "SRAM" } ]
    /\ saved \in [ rom1 : { "APP", "SPI_RX" }, ram : { "APP", "SPI_TX" },
                   flash : { "APP", "SRAM" } ]
    /\ cartFast \in BOOLEAN
    /\ pc \in PCs
    /\ call \in [ op : AllOps, dev : Devices, clock : BOOLEAN,
                  speed : Speeds, long : BOOLEAN ]
    /\ calls \in Blocks
    /\ ret \in BOOLEAN
    /\ got \in Blocks \cup { NoCopy }

\* The boot firmware leaves CNT idle, whatever it selected.
Init ==
    /\ cnt \in [ start : { FALSE }, idx : { 0 }, dev : Devices,
                 clock : BOOLEAN, mode : { "WRITE" }, len8 : { FALSE } ]
    /\ xfer = [ id |-> 0, dev |-> DevNone, mode |-> "WRITE", buf |-> 1,
                stop |-> FALSE ]
    /\ tx = [ b \in Buffers |-> 0 ]
    /\ rx = [ b \in Buffers |-> 0 ]
    /\ wire = << >>
    /\ bank  = [ rom1 |-> "APP", ram |-> "APP", flash |-> "APP" ]
    /\ saved = [ rom1 |-> "APP", ram |-> "APP", flash |-> "APP" ]
    /\ cartFast = FALSE
    /\ pc = "idle"
    /\ call = [ op |-> "wait_ready", dev |-> DevNone, clock |-> FALSE,
                speed |-> "384KHZ", long |-> FALSE ]
    /\ calls = 0
    /\ ret = TRUE
    /\ got = NoCopy

----------------------------------------------------------------------------
(***************************************************************************)
(* The controller.                                                         *)
(***************************************************************************)
Busy == cnt.start

\* The transfer ends: a reading mode has filled the receive buffer it works
\* on, a writing mode has put the block of the transmit buffer on the wire.
HwComplete ==
    /\ Busy
    /\ cnt' = [ cnt EXCEPT !.start = FALSE ]
    /\ rx' = IF xfer.mode = "WRITE"
             THEN rx ELSE [ rx EXCEPT ![xfer.buf] = xfer.id ]
    /\ wire' = IF xfer.mode = "READ"
               THEN wire ELSE Append(wire, << xfer.dev, tx[xfer.buf] >>)
    /\ UNCHANGED << xfer, tx, bankVars, cartFast, pc, callVars, ret, got >>

\* A transfer whose START bit was cleared may also stop half-way: the block is
\* not sent in full and the receive buffer holds what no call produced.
HwStop ==
    /\ Busy
    /\ xfer.stop
    /\ cnt' = [ cnt EXCEPT !.start = FALSE ]
    /\ rx' = IF xfer.mode = "WRITE"
             THEN rx ELSE [ rx EXCEPT ![xfer.buf] = 0 ]
    /\ UNCHANGED << xfer, tx, wire, bankVars, cartFast, pc, callVars, ret,
                    got >>

----------------------------------------------------------------------------
(***************************************************************************)
(* Steps shared by the driver's routines.                                  *)
(***************************************************************************)
Goto(from, to) ==
    /\ pc = from
    /\ pc' = to

Return(value) ==
    /\ pc' = "idle"
    /\ ret' = value

\* Mutant: the result of the wait is ignored.
WaitUnchecked(from, to) == Goto(from, to)

\* __nile_spi_wait_ready_near polls BUSY.  It leaves as soon as it reads it
\* clear, and with a timeout only after having read it set.
WaitSucceeds(from, to) ==
    /\ Goto(from, to)
    /\ ~Busy

WaitTimesOut(from, to) ==
    /\ Goto(from, to)
    /\ Busy

Skip == UNCHANGED << cnt, xfer, hwVars, bankVars, cartFast, callVars >>

OpenTxWindow(from, to) ==
    /\ Goto(from, to)
    /\ saved' = [ saved EXCEPT !.ram = bank.ram, !.flash = bank.flash ]
    /\ bank' = [ bank EXCEPT !.ram = "SPI_TX", !.flash = "SRAM" ]
    /\ UNCHANGED << cnt, xfer, hwVars, cartFast, callVars, ret, got >>

\* A store through the SRAM window reaches the visible transmit buffer only
\* while the window is mapped on it.
CopyToTx(from, to) ==
    /\ Goto(from, to)
    /\ tx' = IF bank.ram = "SPI_TX" /\ bank.flash = "SRAM"
             THEN [ tx EXCEPT ![cnt.idx] = calls ] ELSE tx
    /\ UNCHANGED << cnt, xfer, rx, wire, bankVars, cartFast, callVars, ret,
                    got >>

CloseTxWindow ==
    bank' = [ bank EXCEPT !.ram = saved.ram, !.flash = saved.flash ]

\* Mutant: the buffers are not swapped when a transfer starts.
StartUnflipped(mode, idx) ==
    /\ cnt' = [ cnt EXCEPT !.start = TRUE, !.mode = mode,
                           !.len8 = call.op \in Lengthy /\ call.long ]
    /\ xfer' = [ id |-> calls, dev |-> cnt.dev, mode |-> mode,
                 buf |-> 1 - cnt.idx, stop |-> FALSE ]

\* The write of CNT that sets START.  With the buffer index flipped, the buffer
\* just filled by the CPU becomes the one the controller works on.
StartTransfer(mode, idx) ==
    /\ cnt' = [ cnt EXCEPT !.start = TRUE, !.idx = idx, !.mode = mode,
                           !.len8 = call.op \in Lengthy /\ call.long ]
    /\ xfer' = [ id |-> calls, dev |-> cnt.dev, mode |-> mode,
                 buf |-> 1 - idx, stop |-> FALSE ]

\* A load through the ROM1 window.
VisibleRx == IF bank.rom1 = "SPI_RX" THEN rx[cnt.idx] ELSE 0

\* Mutant: the receive buffers are not swapped.
FlipForgotten == cnt

FlippedCnt == [ cnt EXCEPT !.idx = 1 - cnt.idx ]

----------------------------------------------------------------------------
(***************************************************************************)
(* The client enters a driver call.                                        *)
(***************************************************************************)
Call(op, dev, clock, speed, long) ==
    /\ pc = "idle"
    /\ calls < MaxCalls
    /\ op \in Ops
    \* Callers flip by hand only after a wait (nile_mcu_native_recv_cmd_finish).
    /\ op = "flip_buffer" => ~Busy
    /\ calls' = calls + 1
    /\ call' = [ op |-> op, dev |-> dev, clock |-> clock, speed |-> speed,
                 long |-> long ]
    /\ pc' = EntryPoint[op]
    /\ got' = NoCopy
    /\ UNCHANGED << cnt, xfer, hwVars, bankVars, cartFast, ret >>

\* Only the arguments a routine has are varied.
ClientCall ==
    \/ \E op \in Ops \ (Lengthy \cup { "set_control", "set_device",
                                       "set_speed" }) :
           Call(op, DevNone, FALSE, "384KHZ", FALSE)
    \/ \E op \in Ops \cap Lengthy, long \in BOOLEAN :
           Call(op, DevNone, FALSE, "384KHZ", long)
    \/ \E dev \in Devices, clock \in BOOLEAN :
           Call("set_control", dev, clock, "384KHZ", FALSE)
    \/ \E dev \in Devices : Call("set_device", dev, FALSE, "384KHZ", FALSE)
    \/ \E speed \in Speeds : Call("set_speed", DevNone, FALSE, speed, FALSE)

----------------------------------------------------------------------------
(***************************************************************************)
(* nile_spi_wait_ready and nile_spi_abort.                                 *)
(***************************************************************************)
WaitReadyReturns ==
    /\ pc = "ready_wait"
    /\ Return(~Busy)
    /\ Skip
    /\ UNCHANGED got

\* The high byte of CNT, which is what AL holds when nothing is in flight.
CntHighByteSet ==
    \/ cnt.idx = 1
    \/ cnt.dev # DevNone
    \/ cnt.clock
    \/ cnt.mode # "WRITE"
    \/ cnt.len8

AbortIdle ==
    /\ pc = "abort"
    /\ ~Busy
    /\ Return(CntHighByteSet)
    /\ Skip
    /\ UNCHANGED got

AbortBusy ==
    /\ Goto("abort", "abort_wait")
    /\ Busy
    /\ xfer' = [ xfer EXCEPT !.stop = TRUE ]
    /\ UNCHANGED << cnt, hwVars, bankVars, cartFast, callVars, ret, got >>

\* Mutant: nile_spi_abort does not look at the result of its wait.
AbortClaimsReady ==
    /\ pc = "abort_wait"
    /\ Return(TRUE)
    /\ Skip
    /\ UNCHANGED got

AbortReturns ==
    /\ pc = "abort_wait"
    /\ Return(~Busy)
    /\ Skip
    /\ UNCHANGED got

----------------------------------------------------------------------------
(***************************************************************************)
(* nile_spi_tx_async_block and nile_spi_tx_sync_block: the block is copied *)
(* before the wait, while an earlier transfer may still be on the wire.    *)
(***************************************************************************)
TxOpen == OpenTxWindow("tx_open", "tx_copy")

TxCopy == CopyToTx("tx_copy", "tx_wait")

\* Mutant: a timed-out transmit returns without restoring the banks.
TxTimeoutKeepsWindow ==
    \/ WaitSucceeds("tx_wait", "tx_start") /\ Skip /\ UNCHANGED << ret, got >>
    \/ WaitTimesOut("tx_wait", "idle") /\ ret' = FALSE
                                       /\ Skip /\ UNCHANGED got

TxWait ==
    \/ WaitSucceeds("tx_wait", "tx_start") /\ Skip /\ UNCHANGED << ret, got >>
    \/ WaitTimesOut("tx_wait", "tx_close") /\ ret' = FALSE
                                           /\ Skip /\ UNCHANGED got

TxStart ==
    /\ Goto("tx_start", "tx_close")
    /\ StartTransfer("WRITE", 1 - cnt.idx)
    /\ ret' = TRUE
    /\ UNCHANGED << hwVars, bankVars, cartFast, callVars, got >>

\* Mutant: nile_spi_tx_sync_block does not wait for the end.
TxSyncUnwaited ==
    /\ Goto("tx_close", "idle")
    /\ CloseTxWindow
    /\ UNCHANGED << cnt, xfer, hwVars, saved, cartFast, callVars, ret, got >>

TxClose ==
    /\ pc = "tx_close"
    /\ CloseTxWindow
    /\ pc' = IF call.op = "tx_sync_block" /\ ret THEN "sync_wait" ELSE "idle"
    /\ UNCHANGED << cnt, xfer, hwVars, saved, cartFast, callVars, ret, got >>

TxSyncReturns ==
    /\ pc = "sync_wait"
    /\ Return(~Busy)
    /\ Skip
    /\ UNCHANGED got

----------------------------------------------------------------------------
(***************************************************************************)
(* nile_spi_rx_async, nile_spi_rx_sync_flip, nile_spi_rx_sync_block, and   *)
(* the receiving half of nile_spi_xch_block.  The synchronous ones leave   *)
(* through nile_spi_abort on every path, and return what it returns.       *)
(***************************************************************************)
RxWait1 ==
    /\ \/ WaitSucceeds("rx_wait1", "rx_start") /\ UNCHANGED ret
       \/ /\ WaitTimesOut("rx_wait1", "abort")
          /\ call.op # "rx_async"
          /\ UNCHANGED ret
       \/ /\ pc = "rx_wait1"
          /\ Busy
          /\ call.op = "rx_async"
          /\ Return(FALSE)
    /\ Skip
    /\ UNCHANGED got

RxStart ==
    /\ pc = "rx_start"
    /\ IF call.op = "xch_block" THEN StartTransfer("EXCH", 1 - cnt.idx)
                                ELSE StartTransfer("READ", cnt.idx)
    /\ IF call.op = "rx_async" THEN Return(TRUE)
                               ELSE pc' = "rx_wait2" /\ UNCHANGED ret
    /\ UNCHANGED << hwVars, bankVars, cartFast, callVars, got >>

\* Mutant: the wait for the answer has no timeout.
RxWaitsForever ==
    /\ WaitSucceeds("rx_wait2", "rx_select")
    /\ Skip
    /\ UNCHANGED << ret, got >>

RxWait2 ==
    /\ \/ WaitSucceeds("rx_wait2", "rx_select")
       \/ WaitTimesOut("rx_wait2", "abort")
    /\ Skip
    /\ UNCHANGED << ret, got >>

\* rx_sync_flip leaves the block in the window for its caller to read.
RxFlip ==
    /\ Goto("rx_select", "abort")
    /\ call.op = "rx_sync_flip"
    /\ cnt' = FlippedCnt
    /\ got' = rx[cnt'.idx]
    /\ UNCHANGED << xfer, hwVars, bankVars, cartFast, callVars, ret >>

RxSelect ==
    /\ Goto("rx_select", "rx_copy")
    /\ call.op # "rx_sync_flip"
    /\ cnt' = FlippedCnt
    /\ saved' = [ saved EXCEPT !.rom1 = bank.rom1 ]
    /\ bank' = [ bank EXCEPT !.rom1 = "SPI_RX" ]
    /\ UNCHANGED << xfer, hwVars, cartFast, callVars, ret, got >>

RxCopy ==
    /\ Goto("rx_copy", "rx_restore")
    /\ got' = VisibleRx
    /\ Skip
    /\ UNCHANGED ret

RestoreRom1 ==
    bank' = IF ClobberRom1 THEN bank
                           ELSE [ bank EXCEPT !.rom1 = saved.rom1 ]

RxRestore ==
    /\ Goto("rx_restore", "abort")
    /\ RestoreRom1
    /\ UNCHANGED << cnt, xfer, hwVars, saved, cartFast, callVars, ret, got >>

----------------------------------------------------------------------------
(***************************************************************************)
(* nile_spi_xch: one byte each way.                                        *)
(***************************************************************************)
XchWait1 ==
    /\ \/ WaitSucceeds("xch_wait1", "xch_open") /\ UNCHANGED ret
       \/ pc = "xch_wait1" /\ Busy /\ Return(FALSE)
    /\ Skip
    /\ UNCHANGED got

XchOpen == OpenTxWindow("xch_open", "xch_copy")

XchCopy == CopyToTx("xch_copy", "xch_start")

XchStart ==
    /\ Goto("xch_start", "xch_close")
    /\ StartTransfer("EXCH", 1 - cnt.idx)
    /\ UNCHANGED << hwVars, bankVars, cartFast, callVars, ret, got >>

XchClose ==
    /\ Goto("xch_close", "xch_wait2")
    /\ CloseTxWindow
    /\ saved' = [ saved EXCEPT !.rom1 = bank.rom1 ]
    /\ UNCHANGED << cnt, xfer, hwVars, cartFast, callVars, ret, got >>

\* A late byte is given up without an abort: the exchange stays in flight.
XchWait2 ==
    /\ \/ WaitSucceeds("xch_wait2", "xch_select") /\ UNCHANGED ret
       \/ pc = "xch_wait2" /\ Busy /\ Return(FALSE)
    /\ Skip
    /\ UNCHANGED got

XchSelect ==
    /\ Goto("xch_select", "xch_read")
    /\ bank' = [ bank EXCEPT !.rom1 = "SPI_RX" ]
    /\ cnt' = FlippedCnt
    /\ UNCHANGED << xfer, hwVars, saved, cartFast, callVars, ret, got >>

XchRead ==
    /\ Goto("xch_read", "xch_restore")
    /\ got' = VisibleRx
    /\ Skip
    /\ UNCHANGED ret

XchRestore ==
    /\ pc = "xch_restore"
    /\ RestoreRom1
    /\ Return(TRUE)
    /\ UNCHANGED << cnt, xfer, hwVars, saved, cartFast, callVars, got >>

----------------------------------------------------------------------------
(***************************************************************************)
(* nile_spi_xch_block: the block is copied with the window open, then the  *)
(* receiving path exchanges it.                                            *)
(***************************************************************************)
BlkOpen == OpenTxWindow("blk_open", "blk_copy")

BlkCopy == CopyToTx("blk_copy", "blk_close")

BlkClose ==
    /\ Goto("blk_close", "rx_wait1")
    /\ CloseTxWindow
    /\ UNCHANGED << cnt, xfer, hwVars, saved, cartFast, callVars, ret, got >>

----------------------------------------------------------------------------
(***************************************************************************)
(* The calls that write CNT, once nothing is in flight, and the inline     *)
(* nile_spi_flip_buffer.                                                   *)
(***************************************************************************)
\* Mutant: CNT is written without waiting.
SetUnwaited ==
    /\ Goto("set_wait", "set_write")
    /\ Skip
    /\ UNCHANGED << ret, got >>

SetWait ==
    /\ \/ WaitSucceeds("set_wait", "set_write") /\ UNCHANGED ret
       \/ pc = "set_wait" /\ Busy /\ Return(FALSE)
    /\ Skip
    /\ UNCHANGED got

\* The whole word is written, so the buffer index falls back to 0.
SetControl ==
    /\ call.op = "set_control"
    /\ cnt' = [ cnt EXCEPT !.idx = 0, !.dev = call.dev,
                           !.clock = call.clock, !.mode = "WRITE",
                           !.len8 = FALSE ]
    /\ UNCHANGED cartFast

SetDevice ==
    /\ call.op = "set_device"
    /\ cnt' = [ cnt EXCEPT !.dev = call.dev ]
    /\ UNCHANGED cartFast

SetSpeed ==
    /\ call.op = "set_speed"
    /\ cnt' = [ cnt EXCEPT !.clock = call.speed # "24MHZ" ]
    /\ cartFast' = IF Color THEN call.speed = "6MHZ" ELSE cartFast

SetWrite ==
    /\ pc = "set_write"
    /\ SetControl \/ SetDevice \/ SetSpeed
    /\ Return(TRUE)
    /\ UNCHANGED << xfer, hwVars, bankVars, callVars, got >>

Flip ==
    /\ pc = "flip"
    /\ cnt' = FlippedCnt
    /\ Return(TRUE)
    /\ UNCHANGED << xfer, hwVars, bankVars, cartFast, callVars, got >>

----------------------------------------------------------------------------
Controller == HwComplete \/ HwStop

ReadyRoutine == WaitReadyReturns
AbortRoutine == AbortIdle \/ AbortBusy \/ AbortReturns
TxRoutine    == \/ TxOpen \/ TxCopy \/ TxWait \/ TxStart \/ TxClose
                \/ TxSyncReturns
RxRoutine    == \/ RxWait1 \/ RxStart \/ RxWait2 \/ RxFlip \/ RxSelect
                \/ RxCopy \/ RxRestore
XchRoutine   == \/ XchWait1 \/ XchOpen \/ XchCopy \/ XchStart \/ XchClose
                \/ XchWait2 \/ XchSelect \/ XchRead \/ XchRestore
BlkRoutine   == BlkOpen \/ BlkCopy \/ BlkClose
SetRoutine   == SetWait \/ SetWrite \/ Flip

DriverStep ==
    \/ ReadyRoutine \/ AbortRoutine \/ TxRoutine \/ RxRoutine
    \/ XchRoutine \/ BlkRoutine \/ SetRoutine

Next == Controller \/ ClientCall \/ DriverStep

Spec == Init /\ [][Next]_vars

\* The CPU keeps executing; the controller owes nothing.
FairSpec == Spec /\ WF_vars(DriverStep)

----------------------------------------------------------------------------
(***************************************************************************)
(* What the driver promises.                                               *)
(***************************************************************************)
TxCopying == { "tx_copy", "xch_copy", "blk_copy" }
RxCopying == { "rx_copy", "xch_read" }

\* Whenever the CPU copies a block, its window is mapped on the SPI buffers and
\* the buffer behind it is not the one a transfer in flight works on, although
\* the tx and xch_block copies run before anything has been waited for.
NoWindowRace ==
    /\ pc \in TxCopying => bank.ram = "SPI_TX" /\ bank.flash = "SRAM"
    /\ pc \in RxCopying => bank.rom1 = "SPI_RX"
    /\ pc \in TxCopying \cup RxCopying => (Busy => xfer.buf # cnt.idx)

\* The block in flight stays the one its call copied, whatever later calls
\* copy, time out on or give up before it has left.
InFlightIntact ==
    Busy /\ xfer.mode # "READ" => tx[xfer.buf] = xfer.id

\* What reaches a device arrives at most once and in the order of the calls,
\* also when a timed-out exchange is left behind or an abort comes too late.
WireOrdered ==
    \A i, j \in 1 .. Len(wire) : i < j => wire[i][2] < wire[j][2]

\* A synchronous transmit that returns true has put its whole block on the
\* wire, and to the device still selected; an asynchronous one that returns
\* true has the block on the wire or on its way.
TxDelivered ==
    (pc = "idle" /\ ret /\ call.op \in { "tx_sync_block", "tx_async_block" }) =>
       \/ /\ wire # << >>
          /\ wire[Len(wire)] = << cnt.dev, calls >>
       \/ /\ call.op = "tx_async_block"
          /\ Busy
          /\ xfer.id = calls /\ xfer.dev = cnt.dev /\ ~xfer.stop

\* A receive never hands out an older answer or one cut short: the caller gets
\* the answer to this very call or its buffer is left alone, and an exchanged
\* byte not flagged as an error is the device's.
OwnData ==
    pc = "idle" =>
       /\ got \in { NoCopy, calls }
       /\ (call.op = "xch" /\ ret) => got = calls

\* A call that waits for its own transfer and returns true leaves the
\* controller ready for the next one.
ReadyMeansReady ==
    ( pc = "idle" /\ ret /\ call.op \notin { "rx_async", "tx_async_block" } )
       => ~Busy

\* Every path out of the driver, the timed-out ones too, puts the application's
\* cartridge banks back; only LIBNILE_CLOBBER_ROM1 gives up ROM bank 1.
BanksRestored ==
    pc = "idle" =>
       /\ bank.ram = "APP"
       /\ bank.flash = "APP"
       /\ ClobberRom1 \/ bank.rom1 = "APP"

\* A transfer in flight is never replaced, redirected or reconfigured: while
\* the controller stays busy CNT keeps its fields, and the one thing a call
\* can do to the transfer is to ask it to stop.
OverrunFree ==
    Busy /\ Busy' => /\ cnt' = cnt
                     /\ xfer' \in { xfer, [ xfer EXCEPT !.stop = TRUE ] }

NoOverrun == [][OverrunFree]_vars

\* Every call comes back, even when the controller never ends a transfer.
CallReturns == pc # "idle" ~> pc = "idle"

\* The steps that the call has before it at most: the routines have no loop but
\* their waits, and each wait is one step here.
StepsLeft ==
    CASE pc = "idle" -> 0
      [] pc \in { "ready_wait", "abort_wait", "sync_wait", "xch_restore",
                  "set_write", "flip" } -> 1
      [] pc \in { "abort", "tx_close", "xch_read", "set_wait" } -> 2
      [] pc \in { "rx_restore", "tx_start", "xch_select" } -> 3
      [] pc \in { "rx_copy", "tx_wait", "xch_wait2" } -> 4
      [] pc \in { "rx_select", "tx_copy", "xch_close" } -> 5
      [] pc \in { "rx_wait2", "tx_open", "xch_start" } -> 6
      [] pc \in { "rx_start", "xch_copy" } -> 7
      [] pc \in { "rx_wait1", "xch_open" } -> 8
      [] pc \in { "xch_wait1", "blk_close" } -> 9
      [] pc = "blk_copy" -> 10
      [] pc = "blk_open" -> 11

\* Whatever the controller does meanwhile, no step of the driver puts the end of
\* its call off.
CallsAdvance ==
    [][ pc # "idle" => \/ StepsLeft' < StepsLeft
                       \/ Controller /\ StepsLeft' = StepsLeft ]_vars

(***************************************************************************)
(* Why it does: the inductive invariant.                                   *)
(***************************************************************************)
\* The CPU has seen BUSY clear in this call and has started nothing since.
ReadyPCs == { "tx_start", "rx_start", "rx_select", "rx_copy", "rx_restore",
              "xch_open", "xch_copy", "xch_start", "xch_select", "xch_read",
              "xch_restore", "set_write", "flip" }

\* The call has started nothing yet.
PreStartPCs == { "ready_wait", "tx_open", "tx_copy", "tx_wait", "tx_start",
                 "rx_wait1", "rx_start", "xch_wait1", "xch_open", "xch_copy",
                 "xch_start", "blk_open", "blk_copy", "blk_close", "set_wait",
                 "set_write", "flip" }

\* The window of the visible transmit buffer is open.
TxOpenPCs == { "tx_copy", "tx_wait", "tx_start", "tx_close", "xch_copy",
               "xch_start", "xch_close", "blk_copy", "blk_close" }

\* The visible transmit buffer holds the block of this call.
CopiedPC ==
    \/ pc \in { "tx_wait", "tx_start", "xch_start", "blk_close" }
    \/ pc \in { "rx_wait1", "rx_start" } /\ call.op = "xch_block"

\* The window of the visible receive buffer is open.
RxOpenPCs == { "rx_copy", "rx_restore", "xch_read", "xch_restore" }

ReadyInv == pc \in ReadyPCs => ~Busy

\* A transfer in flight works on the hidden buffer, for the selected device.
FlightInv ==
    Busy => /\ xfer.buf = 1 - cnt.idx
            /\ xfer.dev = cnt.dev
            /\ xfer.mode = cnt.mode

TxBankInv ==
    /\ saved.ram = "APP" /\ saved.flash = "APP"
    /\ bank.ram = IF pc \in TxOpenPCs THEN "SPI_TX" ELSE "APP"
    /\ bank.flash = IF pc \in TxOpenPCs THEN "SRAM" ELSE "APP"

RxBankInv ==
    /\ pc \in RxOpenPCs => bank.rom1 = "SPI_RX"
    /\ ~ClobberRom1 => /\ saved.rom1 = "APP"
                       /\ pc \notin RxOpenPCs => bank.rom1 = "APP"

\* The routine that runs is the one that was called.
OpInv ==
    /\ pc \in { "rx_wait1", "rx_start", "rx_wait2", "rx_select", "rx_copy",
                "rx_restore" } =>
         call.op \in { "rx_async", "rx_sync_block", "rx_sync_flip",
                       "xch_block" }
    /\ pc \in { "rx_wait2", "rx_select", "rx_copy", "rx_restore" } =>
         call.op # "rx_async"
    /\ pc \in { "abort", "abort_wait" } =>
         call.op \in { "abort", "rx_sync_block", "rx_sync_flip", "xch_block" }
    /\ pc \in { "tx_open", "tx_copy", "tx_wait", "tx_start", "tx_close",
                "sync_wait" } =>
         call.op \in { "tx_async_block", "tx_sync_block" }
    /\ pc \in { "xch_wait1", "xch_open", "xch_copy", "xch_start", "xch_close",
                "xch_wait2", "xch_select", "xch_read", "xch_restore" } =>
         call.op = "xch"
    /\ pc \in { "blk_open", "blk_copy", "blk_close" } => call.op = "xch_block"
    /\ pc \in { "set_wait", "set_write" } =>
         call.op \in { "set_control", "set_device", "set_speed" }
    /\ pc = "ready_wait" => call.op = "wait_ready"
    /\ pc = "flip" => call.op = "flip_buffer"

CopiedInv == CopiedPC => tx[cnt.idx] = calls

\* While a call awaits its own answer, the transfer is its own, nobody asked it
\* to stop, and once it has ended the hidden receive buffer holds the answer.
AnswerInv ==
    pc \in { "rx_wait2", "rx_select", "xch_close", "xch_wait2",
             "xch_select" } =>
       /\ xfer.id = calls /\ xfer.mode # "WRITE" /\ ~xfer.stop
       /\ xfer.buf = 1 - cnt.idx
       /\ ~Busy => rx[xfer.buf] = calls

GotInv ==
    /\ pc \in { "rx_copy", "xch_read" } => rx[cnt.idx] = calls
    /\ pc \in PreStartPCs \cup { "tx_close", "sync_wait" } => got = NoCopy
    /\ got \in { NoCopy, calls }
    /\ pc \in { "rx_restore", "xch_restore" } => got = calls

\* Blocks on the wire are older than the transfer in flight, and every transfer
\* is older than a call that has not started its own.
WireInv ==
    /\ xfer.id <= calls
    /\ pc \in PreStartPCs => xfer.id < calls
    /\ \A i \in 1 .. Len(wire) :
          /\ wire[i][2] <= xfer.id
          /\ (Busy /\ xfer.mode # "READ") => wire[i][2] < xfer.id

\* A transmit that has been accepted is in flight, unstopped, or on the wire.
DeliverInv ==
    ( \/ pc = "tx_close" /\ ret
      \/ pc = "sync_wait"
      \/ pc = "idle" /\ call.op = "tx_async_block" /\ ret ) =>
       /\ xfer.id = calls /\ xfer.dev = cnt.dev
       /\ xfer.mode = "WRITE" /\ ~xfer.stop
       /\ Busy \/ ( /\ wire # << >>
                    /\ wire[Len(wire)] = << cnt.dev, calls >> )

SpiInv ==
    /\ TypeOK
    /\ ReadyInv
    /\ FlightInv
    /\ TxBankInv
    /\ RxBankInv
    /\ OpInv
    /\ CopiedInv
    /\ InFlightIntact
    /\ AnswerInv
    /\ GotInv
    /\ OwnData
    /\ WireInv
    /\ WireOrdered
    /\ DeliverInv
    /\ TxDelivered
    /\ ReadyMeansReady

(***************************************************************************)
(* What the header says, and the driver does not do.                       *)
(***************************************************************************)
\* spi.h on nile_spi_rx_sync_block and nile_spi_xch_block: "@return true
\* Transfer successful".  A receive that timed out, and stored nothing, returns
\* what the abort that follows it returns.
RxSuccessStores ==
    ( pc = "idle" /\ ret /\ call.op \in { "rx_sync_block", "xch_block" } )
       => got = calls

=============================================================================
