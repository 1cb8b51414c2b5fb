---------------------------- MODULE FlashDriver ----------------------------
(***************************************************************************)
(* The flash driver (src/core/flash) over the SPI controller and a flash   *)
(* chip with a write enable latch: commands, erase, page and status        *)
(* register writes, reads, and nile_flash_wait_ready with its stack.       *)
(*                                                                         *)
(* One step is one access to the controller with the wait before it.  A    *)
(* wait may time out while a transfer is in flight, at the places named in *)
(* Timeouts; the transfer then goes on.                                    *)
(***************************************************************************)
EXTENDS Integers, Sequences

CONSTANTS
    Operations,     \* the calls considered
    Timeouts,       \* the waits that may time out
    MaxChunks,      \* bound: blocks of 512 bytes in a read
    MaxCalls        \* bound: calls in a behaviour

Commands == { "WREN", "WRDI", "SLEEP", "WAKE_ID" }      \* __nile_flash_cmd
Writes   == { "erase", "write_sr", "write" }
Reads    == { "read", "read_id" }
AllOperations == Commands \cup Writes \cup Reads \cup { "unlock", "wait" }

AllTimeouts == { "select",      \* nile_spi_init_flash_cs_low
                 "call",        \* the SPI driver's calls
                 "ask",         \* nile_flash_wait_ready: before its loop
                 "poll" }       \* and in it

ASSUME FlashAssumption ==
    /\ Operations \subseteq AllOperations
    /\ Timeouts \subseteq AllTimeouts
    /\ MaxChunks \in Nat
    /\ MaxCalls \in Nat

VARIABLES
    pc,         \* what the CPU does next
    op,         \* the call in progress, or the last one
    cmds,       \* the one-byte commands it still has to send
    left,       \* size: the blocks it still has to read
    ok,         \* what it returns
    clean,      \* whether the chip was idle then, and was selected when it had to be
    calls,      \* number of calls made
    sel,        \* CNT: the device
    idx,        \* CNT: the buffer the CPU sees
    flight,     \* the transfer in flight
    rx,         \* the status bytes in the two receive buffers
    chip,       \* the flash chip
    bx,         \* the buffer index in BX
    stack,      \* the words nile_flash_wait_ready has on the stack
    ram, rom1   \* the banks it borrows

call == << op, cmds, left, calls >>
poll == << bx, stack, ram, rom1 >>
vars == << pc, call, ok, clean, sel, idx, flight, rx, chip, poll >>

NoFlight == [ dev |-> "NONE", what |-> "none", buf |-> 0 ]
Dummy(b) == [ dev |-> "NONE", what |-> "dummy", buf |-> b ]

Header == [ erase |-> "ERASE", write_sr |-> "WRSR", write |-> "WRITE",
            read |-> "READ", read_id |-> "RDID" ]

\* What a transfer sends: a command's first bytes, the data behind them, or the
\* byte that is exchanged for data; and what the chip makes of a command that
\* began while it was busy.
Bytes == Commands \cup { Header[o] : o \in Writes \cup Reads }
            \cup { "UNLOCK", "DATA", "PART", "CLOCK", "RDSR", "IGNORED" }

TypeOK ==
    /\ pc \in { "idle", "cmd_low", "cmd_send", "cmd_sent", "cmd_high", "low",
                "send", "send_data", "sent", "recv", "received", "high",
                "ask_open", "ask_wait", "asked", "poll_read", "poll_wait",
                "poll_leave", "exit", "lost" }
    /\ op \in Operations \cup { "none" }
    /\ cmds \in Seq(Commands \cup { "UNLOCK" }) /\ Len(cmds) <= 2
    /\ left \in 0 .. MaxChunks
    /\ ok \in BOOLEAN /\ clean \in BOOLEAN
    /\ calls \in 0 .. MaxCalls
    /\ sel \in { "NONE", "TF", "FLASH" }
    /\ idx \in { 0, 1 } /\ bx \in { 0, 1 }
    /\ flight \in [ dev : { "NONE", "TF", "FLASH" },
                    what : Bytes \cup { "none", "dummy" }, buf : { 0, 1 } ]
    /\ rx \in [ { 0, 1 } -> { "junk", "busy", "ready" } ]
    /\ chip \in [ wel : BOOLEAN, busy : BOOLEAN, asleep : BOOLEAN,
                  frame : Seq(Bytes), doing : 0 .. MaxCalls, done : 0 .. MaxCalls ]
    /\ stack \in Seq({ "ip", "ds", "port", "bank", "rom1" }) /\ Len(stack) <= 4
    /\ ram \in { "APP", "TX" } /\ rom1 \in { "APP", "RX", "BAD" }

Init ==
    /\ pc = "idle"
    /\ op = "none"
    /\ cmds = << >>
    /\ left = 0
    /\ ok = FALSE
    /\ clean = TRUE
    /\ calls = 0
    /\ sel = "NONE"
    /\ idx \in { 0, 1 }
    /\ flight = NoFlight
    /\ rx = [ b \in { 0, 1 } |-> "junk" ]
    /\ chip = [ wel |-> FALSE, busy |-> FALSE, asleep |-> FALSE,
                frame |-> << >>, doing |-> 0, done |-> 0 ]
    /\ bx = 0
    /\ stack = << >>
    /\ ram = "APP" /\ rom1 = "APP"

----------------------------------------------------------------------------
(***************************************************************************)
(* The chip and the controller.                                            *)
(***************************************************************************)
Heard(frame, what) ==
    IF frame = << >> /\ chip.busy /\ what # "RDSR" THEN << "IGNORED" >>
    ELSE IF what = "CLOCK" THEN frame ELSE Append(frame, what)

\* When it is deselected the chip does what it was told, if it may.
Executed(frame) ==
    LET c == [ chip EXCEPT !.frame = << >> ]
        \* the job of the call in progress, or one that was cut short
        job(n) == [ c EXCEPT !.busy = TRUE, !.doing = n ] IN
    IF c.asleep
    THEN IF frame = << "WAKE_ID" >> THEN [ c EXCEPT !.asleep = FALSE ] ELSE c
    ELSE CASE frame = << "WREN" >> -> [ c EXCEPT !.wel = TRUE ]
           [] frame = << "WRDI" >> -> [ c EXCEPT !.wel = FALSE ]
           [] frame = << "SLEEP" >> -> [ c EXCEPT !.asleep = TRUE ]
           [] c.wel /\ frame \in { << "ERASE" >>, << "WRSR" >>, << "WRITE", "DATA" >> } ->
                job(calls)
           [] c.wel /\ frame = << "WRITE", "PART" >> -> job(0)
           [] OTHER -> c

\* What the chip has heard when it is deselected while bytes are on their way.
Frames ==
    IF flight.dev # "FLASH" THEN { chip.frame }
    ELSE { chip.frame, Heard(chip.frame, flight.what) }
            \cup IF flight.what = "DATA" THEN { Append(chip.frame, "PART") } ELSE { }

Deselect ==
    /\ sel' = "NONE"
    /\ chip' \in IF sel = "FLASH" THEN { Executed(f) : f \in Frames } ELSE { chip }

ChipDone ==
    /\ chip.busy
    /\ chip' = [ chip EXCEPT !.busy = FALSE, !.wel = FALSE, !.doing = 0,
                             !.done = IF chip.doing > 0 THEN chip.doing ELSE chip.done ]
    /\ UNCHANGED << pc, call, ok, clean, sel, idx, flight, rx, poll >>

Status ==
    IF flight.what = "CLOCK" /\ flight.dev = "FLASH" /\ chip.frame = << "RDSR" >>
       /\ ~chip.asleep
    THEN IF chip.busy THEN "busy" ELSE "ready"
    ELSE "junk"

HwEnds ==
    /\ flight # NoFlight
    /\ flight' = NoFlight
    /\ rx' = [ rx EXCEPT ![flight.buf] = Status ]
    /\ chip' = IF flight.dev = "FLASH"
               THEN [ chip EXCEPT !.frame = Heard(chip.frame, flight.what) ]
               ELSE chip
    /\ UNCHANGED << pc, call, ok, clean, sel, idx, poll >>

----------------------------------------------------------------------------
(***************************************************************************)
(* What the calls have in common.                                          *)
(***************************************************************************)
Goto(from, to) ==
    /\ pc = from
    /\ pc' = to

Ready == flight = NoFlight

TimesOut(place) ==
    /\ flight # NoFlight
    /\ place \in Timeouts

\* The buffer the CPU has filled becomes the hidden one, and is sent.
Start(what) ==
    /\ Ready
    /\ idx' = 1 - idx
    /\ flight' = [ dev |-> sel, what |-> what, buf |-> idx ]

\* nile_spi_init_flash_cs_low, whose result nobody asks for.
CsLow ==
    /\ \/ Ready /\ sel' = "FLASH" /\ idx' = 0 /\ UNCHANGED clean
       \/ TimesOut("select") /\ clean' = FALSE /\ UNCHANGED << sel, idx >>
    /\ UNCHANGED << flight, rx, chip >>

\* nile_spi_init_flash_cs_high, whether a transfer is in flight or not.
CsHigh ==
    /\ Deselect
    /\ idx' = 0
    /\ flight' = IF Ready THEN flight ELSE [ flight EXCEPT !.dev = "NONE" ]
    /\ UNCHANGED rx

Call(o, n) ==
    /\ pc = "idle"
    /\ calls < MaxCalls
    /\ chip.asleep => o = "WAKE_ID"
    /\ op' = o
    /\ cmds' = CASE o \in Commands -> << o >>
                 [] o \in Writes -> << "WREN" >>
                 [] o = "unlock" -> << "WREN", "UNLOCK" >>
                 [] OTHER -> << >>
    /\ left' = IF o = "read" THEN n ELSE 0
    /\ clean' = ~chip.busy
    /\ calls' = calls + 1
    /\ pc' = IF cmds' # << >> THEN "cmd_low" ELSE IF o = "wait" THEN "ask_open" ELSE "low"
    /\ ok' = FALSE
    /\ UNCHANGED << sel, idx, flight, rx, chip, poll >>

\* Between two calls the program talks to the TF card, and may leave a transfer.
Others ==
    /\ pc = "idle"
    /\ Ready
    /\ sel' \in { "NONE", "TF" }
    /\ idx' \in { 0, 1 }
    /\ flight' \in { NoFlight, [ dev |-> sel', what |-> "CLOCK", buf |-> 1 - idx' ] }
    /\ UNCHANGED << pc, call, ok, clean, rx, chip, poll >>

----------------------------------------------------------------------------
(***************************************************************************)
(* __nile_flash_cmd.                                                       *)
(***************************************************************************)
CmdLow ==
    /\ Goto("cmd_low", "cmd_send")
    /\ CsLow
    /\ UNCHANGED << call, ok, poll >>

CmdSend ==
    /\ \/ Goto("cmd_send", "cmd_sent") /\ Start(Head(cmds))
       \/ Goto("cmd_send", "cmd_high") /\ TimesOut("call") /\ UNCHANGED << idx, flight >>
    /\ ok' = FALSE
    /\ UNCHANGED << call, clean, sel, rx, chip, poll >>

CmdSent ==
    /\ Goto("cmd_sent", "cmd_high")
    /\ \/ Ready /\ ok' = TRUE
       \/ TimesOut("call") /\ ok' = FALSE
    /\ UNCHANGED << call, clean, sel, idx, flight, rx, chip, poll >>

AfterCommand ==
    IF ok /\ Len(cmds) > 1 THEN "cmd_low"
    ELSE IF op \notin Writes THEN "idle"
    ELSE IF ok THEN "low" ELSE "exit"

\* Mutant: the chip stays selected after a command.
CmdStaysLow ==
    /\ Goto("cmd_high", AfterCommand)
    /\ cmds' = Tail(cmds)
    /\ ok' = ( ok /\ op \notin Writes )
    /\ UNCHANGED << op, left, calls, clean, sel, idx, flight, rx, chip, poll >>

CmdHigh ==
    /\ Goto("cmd_high", AfterCommand)
    /\ CsHigh
    /\ cmds' = Tail(cmds)
    /\ ok' = ( ok /\ op \notin Writes )
    /\ UNCHANGED << op, left, calls, clean, poll >>

----------------------------------------------------------------------------
(***************************************************************************)
(* __nile_flash_erase_address, __nile_flash_write_sr, nile_flash_write_page*)
(* and the reads.                                                          *)
(***************************************************************************)
Low ==
    /\ Goto("low", "send")
    /\ CsLow
    /\ UNCHANGED << call, ok, poll >>

Fails(from) ==
    /\ Goto(from, "exit")
    /\ TimesOut("call")
    /\ UNCHANGED << idx, flight >>

Send ==
    /\ \/ /\ Goto("send", CASE op = "write" -> "send_data"
                            [] op = "read" -> "recv"
                            [] OTHER -> "sent")
          /\ Start(Header[op])
       \/ Fails("send")
    /\ UNCHANGED << call, ok, clean, sel, rx, chip, poll >>

SendData ==
    /\ \/ Goto("send_data", "sent") /\ Start("DATA")
       \/ Fails("send_data")
    /\ UNCHANGED << call, ok, clean, sel, rx, chip, poll >>

\* nile_flash_write_page waits twice; the second wait finds nothing in flight.
Sent ==
    /\ op \in Writes
    /\ \/ Goto("sent", "high") /\ Ready /\ UNCHANGED << idx, flight >>
       \/ Fails("sent")
    /\ UNCHANGED << call, ok, clean, sel, rx, chip, poll >>

\* The end of nile_spi_xch_block.
Exchanged ==
    /\ op = "read_id"
    /\ Goto("sent", "exit")
    /\ Ready
    /\ ok' = TRUE
    /\ UNCHANGED << call, clean, sel, idx, flight, rx, chip, poll >>

\* Mutant: the loop reads a block before it looks at the size.
RecvFirst ==
    /\ Goto("recv", "received")
    /\ Start("CLOCK")
    /\ UNCHANGED << call, ok, clean, sel, rx, chip, poll >>

Recv ==
    /\ \/ Goto("recv", "received") /\ left > 0 /\ Start("CLOCK") /\ UNCHANGED ok
       \/ Goto("recv", "exit") /\ left = 0 /\ ok' = TRUE /\ UNCHANGED << idx, flight >>
    /\ UNCHANGED << call, clean, sel, rx, chip, poll >>

Received ==
    /\ Goto("received", "recv")
    /\ Ready
    /\ left' = left - 1
    /\ UNCHANGED << op, cmds, calls, clean, ok, sel, idx, flight, rx, chip, poll >>

\* nile_spi_rx_sync_block, and nile_spi_xch_block through it, return what their
\* abort returns: what was stopped passes for what was received.
RecvTimesOut ==
    /\ TimesOut("call")
    /\ \/ pc \in { "recv", "received" } /\ left > 0
       \/ pc \in { "send", "sent" } /\ op = "read_id"
    /\ \/ /\ flight' = NoFlight
          /\ pc' = IF op = "read" THEN "recv" ELSE "exit"
          /\ left' = IF op = "read" THEN left - 1 ELSE left
          /\ ok' = ( op = "read_id" )
       \/ pc' = "exit" /\ UNCHANGED << flight, left, ok >>
    /\ UNCHANGED << op, cmds, calls, clean, sel, idx, rx, chip, poll >>

High ==
    /\ Goto("high", "ask_open")
    /\ CsHigh
    /\ UNCHANGED << call, ok, clean, poll >>

\* Mutant: what failed returns at once.
ExitSelected ==
    /\ Goto("exit", "idle")
    /\ IF ok THEN CsHigh ELSE UNCHANGED << sel, idx, flight, rx, chip >>
    /\ UNCHANGED << call, ok, clean, poll >>

Exit ==
    /\ Goto("exit", "idle")
    /\ CsHigh
    /\ UNCHANGED << call, ok, clean, poll >>

----------------------------------------------------------------------------
(***************************************************************************)
(* nile_flash_wait_ready.                                                  *)
(***************************************************************************)
AskOpen ==
    /\ Goto("ask_open", "ask_wait")
    /\ stack' = << "ip", "ds", "port", "bank" >>
    /\ ram' = "TX"
    /\ UNCHANGED << call, ok, clean, sel, idx, flight, rx, chip, bx, rom1 >>

Ask ==
    /\ Goto("ask_wait", "asked")
    /\ Ready
    /\ sel' = "FLASH"
    /\ idx' = 1 - idx
    /\ bx' = idx'
    /\ flight' = [ dev |-> "FLASH", what |-> "RDSR", buf |-> idx ]
    /\ UNCHANGED << call, ok, clean, rx, chip, stack, ram, rom1 >>

\* The early exits, with other words on the stack than the end expects; after
\* the first of them BX is whatever the caller left there.
AskTimesOut ==
    /\ pc \in { "ask_wait", "asked" }
    /\ pc' = "poll_leave"
    /\ TimesOut("ask")
    /\ bx' \in IF pc = "asked" THEN { bx } ELSE { 0, 1 }
    /\ UNCHANGED << call, ok, clean, sel, idx, flight, rx, chip, stack, ram, rom1 >>

Asked ==
    /\ Goto("asked", "poll_read")
    /\ Ready
    /\ stack' = << "ip", "ds", "rom1" >>
    /\ ram' = "APP" /\ rom1' = "RX"
    /\ UNCHANGED << call, ok, clean, sel, idx, flight, rx, chip, bx >>

PollRead ==
    /\ Goto("poll_read", "poll_wait")
    /\ idx' = bx
    /\ bx' = 1 - bx
    /\ flight' = [ dev |-> sel, what |-> "CLOCK", buf |-> 1 - idx' ]
    /\ UNCHANGED << call, ok, clean, sel, rx, chip, stack, ram, rom1 >>

\* Mutant: the branch is the wrong way round, and waits for the chip to be busy.
PollTestInverted ==
    /\ pc = "poll_wait"
    /\ Ready
    /\ idx' = bx
    /\ \/ rx[bx] # "busy" /\ pc' = "poll_read" /\ UNCHANGED ok
       \/ rx[bx] # "ready" /\ pc' = "poll_leave" /\ ok' = TRUE
    /\ UNCHANGED << call, clean, sel, flight, rx, chip, poll >>

\* Mutant: the other buffer is tested.
PollTestUnflipped ==
    /\ pc = "poll_wait"
    /\ Ready
    /\ idx' = bx
    /\ \/ rx[1 - bx] # "ready" /\ pc' = "poll_read" /\ UNCHANGED ok
       \/ rx[1 - bx] # "busy" /\ pc' = "poll_leave" /\ ok' = TRUE
    /\ UNCHANGED << call, clean, sel, flight, rx, chip, poll >>

\* A byte that is not a status may have either value of the BUSY bit.
PollTest ==
    /\ pc = "poll_wait"
    /\ Ready
    /\ idx' = bx
    /\ \/ rx[bx] # "ready" /\ pc' = "poll_read" /\ UNCHANGED ok
       \/ rx[bx] # "busy" /\ pc' = "poll_leave" /\ ok' = TRUE
    /\ UNCHANGED << call, clean, sel, flight, rx, chip, poll >>

PollTimesOut ==
    /\ Goto("poll_wait", "poll_leave")
    /\ TimesOut("poll")
    /\ UNCHANGED << call, ok, clean, sel, idx, flight, rx, chip, poll >>

\* Takes three words from the stack: ROM bank 1, DS, and the return address.
\* BX still has START: the write to CNT that deselects the chip also starts a
\* transfer to nobody.
PollLeave ==
    /\ pc = "poll_leave"
    /\ LET n == Len(stack) IN
       /\ rom1' = IF stack[n] = "rom1" THEN "APP" ELSE "BAD"
       /\ stack' = SubSeq(stack, 1, n - 3)
       /\ pc' = IF << stack[n - 2], stack[n - 1] >> # << "ip", "ds" >> THEN "lost"
                ELSE IF op = "wait" THEN "idle" ELSE "exit"
    /\ Deselect
    /\ idx' = bx
    /\ flight' = Dummy(1 - bx)
    /\ UNCHANGED << call, ok, clean, rx, bx, ram >>

----------------------------------------------------------------------------
CpuStep ==
    \/ CmdLow \/ CmdSend \/ CmdSent \/ CmdHigh
    \/ Low \/ Send \/ SendData \/ Sent \/ Exchanged
    \/ Recv \/ Received \/ RecvTimesOut
    \/ High \/ Exit
    \/ AskOpen \/ Ask \/ AskTimesOut \/ Asked
    \/ PollRead \/ PollTest \/ PollTimesOut \/ PollLeave

Client == \E o \in Operations, n \in 0 .. MaxChunks : Call(o, n)

Next == Client \/ Others \/ CpuStep \/ HwEnds \/ ChipDone

Spec == Init /\ [][Next]_vars

\* The CPU keeps executing, a transfer of a given length ends, and so does
\* whatever the chip is doing.
FairSpec == Spec /\ WF_vars(CpuStep) /\ WF_vars(HwEnds) /\ WF_vars(ChipDone)

----------------------------------------------------------------------------
\* An erase or a write that returns true, on a chip that was idle when it was
\* called and that was selected each time, has been executed, whatever calls
\* before it have failed: it was enabled, and sent whole.
TrueMeansDone ==
    pc = "idle" /\ op \in Writes /\ ok /\ clean => chip.done = calls

\* What waits for the chip and returns true leaves it ready, whatever calls
\* before it have failed.
TrueMeansReady ==
    pc = "idle" /\ op \in Writes \cup { "wait" } /\ ok => ~chip.busy

\* Between calls the flash is deselected, and the program's banks are in place,
\* however the call was left.
CallEndsClean ==
    pc = "idle" => /\ sel # "FLASH" /\ chip.frame = << >>
                   /\ ram = "APP" /\ rom1 = "APP" /\ stack = << >>

\* Every call ends, and returns unless it is lost (see ComesBack).
CallEnds == pc # "idle" ~> pc \in { "idle", "lost" }

\* nile_flash_wait_ready returns to its caller, also when it times out.
ComesBack == pc # "lost"

=============================================================================
