------------------------------ MODULE McuNative ------------------------------
(***************************************************************************)
(* The native protocol (src/core/mcu) and its callers: the                 *)
(* commands of mcu/system.h, eeprom.h, rtc.h, cdc.h, and get_fattime.  A   *)
(* command is a word and, if it has them, an argument and a block behind   *)
(* it; the answer is a header with its length, and that many bytes.  Five  *)
(* more bits of the header are the firmware's: the code hands them on.     *)
(*                                                                         *)
(* Data are counted in units; a header is one.  Each wait may time out     *)
(* while a transfer is in flight, which goes on unless it is aborted.      *)
(***************************************************************************)
EXTENDS SpiLink, FiniteSetsExt

CONSTANTS
    Rooms,          \* sizes of the buffers programs pass
    Lengths,        \* lengths of the firmware's answers
    Flags,          \* bits 11 to 15 of their headers, as a signed number
    MaxCalls        \* bound: calls in a behaviour

VARIABLES
    pc,         \* what the CPU does next
    calls,      \* number of calls made; a command is named by it
    call,       \* the call in progress, or the last one
    room,       \* buflen
    left,       \* units of the answer beyond the caller's buffer
    buffer,     \* what reached the caller's buffer
    result,     \* what the call returns; until then, the bits of resp_hdr
    answer,     \* the asynchronous answer the caller waits for
    saved,      \* CNT as get_fattime found it
    intact,     \* history: since the reset, nothing was cut off half-way
    firm        \* the firmware

nativeVars == << pc, calls, call, room, left, buffer, result, answer, saved,
                 intact, firm >>
vars == << link, nativeVars >>

----------------------------------------------------------------------------
(***************************************************************************)
(* The callers.  Each sends a command and receives the answer (sync), asks *)
(* for it only (start), or expects none (mode).  It returns the number of  *)
(* units received (count), the value they make (value; the number unless   *)
(* it is positive), the value unless the number is negative (raw), a time  *)
(* stamp (stamp; another one unless the number is large enough), or 0      *)
(* (zero; a negative number instead of it).                                *)
(***************************************************************************)
Sync(arg, block, n, gives) ==
    [ how |-> "sync", arg |-> arg, block |-> block, room |-> n,
      gives |-> gives ]

Start(arg, block, resplen) ==
    [ Sync(arg, block, resplen, "zero") EXCEPT !.how = "start" ]

\* A byte is one unit, a longer value two.
SystemCalls ==
    { [ Sync(FALSE, FALSE, 0, "zero") EXCEPT !.how = "mode" ],
      Sync(FALSE, FALSE, 1, "value"),       \* set_speed
      Sync(FALSE, FALSE, 2, "raw"),         \* reg_read
      Sync(TRUE, FALSE, 0, "zero"),         \* reg_write
      Sync(TRUE, FALSE, 1, "value"),        \* set_save_id
      Sync(FALSE, FALSE, 2, "zero") }       \* get_save_id
    \cup { Sync(FALSE, FALSE, n, "count") : n \in Rooms }

EepromCalls ==
    { Sync(FALSE, FALSE, 1, "value"),       \* set_mode, get_mode
      Sync(FALSE, FALSE, 0, "count"),       \* erase
      Sync(TRUE, TRUE, 0, "zero"),          \* write
      Start(TRUE, TRUE, 0) }                \* write_async
    \cup { Sync(TRUE, FALSE, n, "count") : n \in Rooms }

RtcCalls == { Sync(FALSE, FALSE, n, "count") : n \in Rooms }
                \cup { Sync(TRUE, FALSE, n, "count") : n \in Rooms }

CdcCalls ==
    { Sync(TRUE, FALSE, 2, "value"),        \* write
      Sync(FALSE, FALSE, 2, "value"),       \* available
      Sync(FALSE, FALSE, 0, "count"),       \* clear
      Start(TRUE, FALSE, 2), Start(FALSE, FALSE, 2) }
    \cup { Sync(FALSE, FALSE, n, "count") : n \in Rooms }

FatTime == [ Sync(FALSE, FALSE, 2, "stamp") EXCEPT !.how = "fat" ]

Calls == SystemCalls \cup EepromCalls \cup RtcCalls \cup CdcCalls \cup { FatTime }

NoCall == Sync(FALSE, FALSE, 0, "count")
NoAnswer == [ phase |-> "none", cmd |-> 0, room |-> 0 ]

Goto(from, to) ==
    /\ pc = from
    /\ pc' = to

----------------------------------------------------------------------------
(***************************************************************************)
(* The firmware: it hears a word for each transfer sent to it, and answers *)
(* a command when it has all of it.  What it has to say waits in out until *)
(* it is read.                                                             *)
(***************************************************************************)
Fresh == [ awake |-> TRUE, cmd |-> 0, how |-> "sync", need |-> << >>,
           own |-> TRUE, work |-> FALSE, len |-> 0, flags |-> 0, most |-> 0,
           out |-> << >> ]

Command(c, k) == << "cmd", k, c >>

Parts(c) == (IF c.arg THEN << "argument" >> ELSE << >>)
                \o (IF c.block THEN << "block" >> ELSE << >>)

Own(k, n) == [ i \in 1 .. n |-> << "data", k, i >> ]

Answer(k, err, n, f) == << << "header", err, n, f >> >> \o Own(k, n)

\* The MODE command may send the firmware to another mode, where it hears
\* nothing of this protocol until it is reset.
HearsCommand(k, c) ==
    \E awake \in IF c.how = "mode" THEN BOOLEAN ELSE { TRUE } :
        firm' = [ firm EXCEPT !.awake = awake, !.cmd = k, !.how = c.how,
                              !.need = Parts(c), !.own = TRUE,
                              !.work = Parts(c) = << >> /\ c.how # "mode",
                              !.most = c.room, !.len = 0 ]

Hears(word) ==
    \/ /\ firm.awake /\ firm.need # << >>
       /\ firm' = [ firm EXCEPT !.need = Tail(@),
                                !.own = @ /\ word[1] = Head(firm.need)
                                          /\ word[2] = firm.cmd,
                                !.work = Tail(firm.need) = << >> ]
    \/ /\ firm.awake /\ firm.need = << >>
       /\ IF word[1] = "cmd" THEN HearsCommand(word[2], word[3])
                             ELSE UNCHANGED firm
    \/ /\ ~firm.awake
       /\ UNCHANGED firm

\* An answer that is asked for in advance is not longer than what is asked for.
\* One that reports an error may have data behind its header too.
FirmwareAnswers ==
    /\ firm.work
    /\ \E n \in Lengths, err \in BOOLEAN, f \in Flags :
        /\ firm.how = "start" => n <= firm.most
        /\ firm' = [ firm EXCEPT !.work = FALSE, !.how = "sync", !.most = 0,
                                 !.len = n, !.flags = f,
                                 !.out = @ \o Answer(firm.cmd, err, n, f) ]
    /\ UNCHANGED << link, pc, calls, call, room, left, buffer, result, answer,
                    saved, intact >>

\* A transfer to the MCU ends, or stops half-way once START is cleared.  A
\* transfer that waits for data does not begin before there are any.
TransferEnds ==
    /\ flight.dev = "MCU"
    /\ \/ /\ flight.mode = "write"
          /\ Hears(tx[flight.buf])
          /\ Ends(rx[flight.buf])
       \/ /\ flight.mode \in { "read", "wait_read" }
          /\ flight.mode = "wait_read" => firm.out # << >>
          /\ Ends(Units(firm.out, flight.n))
          /\ firm' = [ firm EXCEPT !.out = After(@, flight.n) ]
    /\ UNCHANGED << pc, calls, call, room, left, buffer, result, answer, saved,
                    intact >>

TransferStops ==
    /\ flight.stop
    /\ flight.dev = "MCU"
    /\ \E n \in 0 .. flight.n - 1 :
        /\ Ends(IF flight.mode = "write" THEN rx[flight.buf]
                                         ELSE Units(firm.out, n))
        /\ firm' = IF flight.mode = "write" THEN firm
                   ELSE [ firm EXCEPT !.out = After(@, n) ]
    /\ UNCHANGED << pc, calls, call, room, left, buffer, result, answer, saved,
                    intact >>

----------------------------------------------------------------------------
(***************************************************************************)
(* nile_mcu_native_send_cmd.  The command goes to the visible buffer, and  *)
(* its argument to the other one while the command may still be leaving.   *)
(***************************************************************************)
Put(b, word) == tx' = [ tx EXCEPT ![b] = word ]

\* What follows a call that was cut off half-way is not explored, but for the
\* reset; nothing is claimed of it.
Call(c) ==
    /\ pc = "idle"
    /\ calls < MaxCalls
    /\ intact
    /\ answer.phase = "none"
    /\ calls' = calls + 1
    /\ call' = c
    /\ room' = c.room
    /\ left' = 0
    /\ buffer' = << >>
    /\ IF c.how = "fat"
       THEN /\ pc' = "control"
            /\ saved' = << idx, device >>
            /\ tx' = Forgotten(tx, Filler)
       ELSE /\ pc' = "command"
            /\ tx' = [ Forgotten(tx, Filler) EXCEPT ![idx] = Command(c, calls') ]
            /\ UNCHANGED saved
    /\ rx' = Forgotten(rx, << Filler >>)
    /\ result' = << "none" >>
    /\ UNCHANGED << idx, device, flight, answer, intact, firm >>

\* get_fattime; a set_control that times out changes nothing, and nobody asks.
Control ==
    /\ Goto("control", "command")
    /\ \/ ~Busy /\ SetControl("MCU")
       \/ Busy /\ UNCHANGED << idx, device >>
    /\ Put(idx', Command(call, calls))
    /\ UNCHANGED << rx, flight, calls, call, room, left, buffer, result, answer,
                    saved, intact, firm >>

Restore ==
    /\ Goto("restore", "idle")
    /\ \/ ~Busy /\ idx' = saved[1] /\ device' = saved[2]
       \/ Busy /\ UNCHANGED << idx, device >>
    /\ saved' = << 0, "none" >>
    /\ UNCHANGED << tx, rx, flight, calls, call, room, left, buffer, result,
                    answer, intact, firm >>

Return(r) ==
    /\ result' = r
    /\ pc' = IF call.how = "fat" THEN "restore" ELSE "idle"

\* What is done when all of the command is sent.
Receive == IF call.how = "start" THEN "request" ELSE "header"

CommandStart ==
    /\ pc = "command"
    /\ StartSending("write", "MCU")
    /\ IF call.arg
       THEN /\ pc' = "argument"
            /\ Put(idx', << "argument", calls >>)
            /\ UNCHANGED result
       ELSE /\ IF call.how = "mode" THEN Return(<< "zero" >>)
                                    ELSE pc' = Receive /\ UNCHANGED result
            /\ UNCHANGED tx
    /\ UNCHANGED << rx, calls, call, room, left, buffer, answer, saved, intact,
                    firm >>

ArgumentStart ==
    /\ pc = "argument"
    /\ StartSending("write", "MCU")
    /\ IF call.block THEN pc' = "block" /\ Put(idx', << "block", calls >>)
                     ELSE pc' = Receive /\ UNCHANGED tx
    /\ UNCHANGED << rx, calls, call, room, left, buffer, result, answer, saved,
                    intact, firm >>

BlockStart ==
    /\ Goto("block", Receive)
    /\ StartSending("write", device)
    /\ UNCHANGED << tx, rx, calls, call, room, left, buffer, result, answer,
                    saved, intact, firm >>

\* Nothing of the command is sent, or nothing behind its first word.
SendTimesOut ==
    /\ pc \in { "command", "argument", "block" }
    /\ Busy
    /\ Return(<< "spi" >>)
    /\ intact' = (intact /\ pc = "command")
    /\ UNCHANGED << link, calls, call, room, left, buffer, answer, saved, firm >>

----------------------------------------------------------------------------
(***************************************************************************)
(* nile_mcu_native_recv_cmd.                                               *)
(***************************************************************************)
\* (buflen & 0x3FF) | (resp_hdr & ~0x7FF), as a signed number: what the callers
\* take for the number of units received.
Received(n, f) == n + 2048 * f

\* What the call makes of data; where these are short, of what was there before.
Value(data) == [ i \in 1 .. 2 |-> IF i <= Len(data) THEN data[i] ELSE Filler ]

Given(gives, data, f) ==
    LET count == Received(Len(data), f) IN
    CASE gives = "zero" /\ count >= 0 -> << "zero" >>
      [] gives = "raw" /\ count >= 0  -> << "value", Value(data) >>
      [] gives = "value" /\ count > 0 -> << "value", Value(data) >>
      [] gives = "stamp" ->
             IF count >= 2 THEN << "value", Value(data) >> ELSE << "none" >>
      [] OTHER -> << "count", count >>

\* The header that a unit is taken for: what was never a header can be any.
Headers(unit) ==
    IF unit[1] = "header" THEN { unit }
    ELSE { << "header", err, n, f >> : err \in BOOLEAN, n \in Lengths, f \in Flags }

HeaderStart ==
    /\ Goto("header", "header_wait")
    /\ StartReading("wait_read", 1)
    /\ UNCHANGED << idx, device, tx, rx, calls, call, room, left, buffer,
                    result, answer, saved, intact, firm >>

\* What an error answer has behind its header stays unread.
HeaderError(h) ==
    /\ Return(<< "mcu" >>)
    /\ intact' = (intact /\ h[3] = 0)
    /\ UNCHANGED << room, left >>

\* Mutant: the buffer is taken to be filled.
HeaderUncut(h) ==
    IF h[2] THEN HeaderError(h)
    ELSE /\ room' = call.room
         /\ left' = h[3] - call.room
         /\ IF call.room > 0 THEN pc' = "data" /\ result' = << "header", h[4] >>
                             ELSE Return(Given(call.gives, << >>, h[4]))
         /\ UNCHANGED intact

\* The length is cut to the caller's buffer, and the rest is skipped.
Header(h) ==
    LET n == Min({ h[3], call.room }) IN
    IF h[2] THEN HeaderError(h)
    ELSE /\ room' = n
         /\ left' = h[3] - n
         /\ IF n > 0 THEN pc' = "data" /\ result' = << "header", h[4] >>
            ELSE IF h[3] > 0 THEN pc' = "skip" /\ result' = << "header", h[4] >>
            ELSE Return(Given(call.gives, << >>, h[4]))
         /\ UNCHANGED intact

HeaderArrives ==
    /\ pc = "header_wait"
    /\ ~Busy
    /\ Flip
    /\ \E h \in Headers(rx[idx'][1]) : Header(h)
    /\ UNCHANGED << device, tx, rx, flight, calls, call, buffer, answer, saved,
                    firm >>

DataStart ==
    /\ Goto("data", "data_wait")
    /\ StartReading("read", room)
    /\ UNCHANGED << idx, device, tx, rx, calls, call, room, left, buffer,
                    result, answer, saved, intact, firm >>

\* What follows the data: the rest is skipped, or the call returns.
Arrived(data) ==
    /\ buffer' = data
    /\ IF left > 0 THEN pc' = "skip" /\ UNCHANGED result
                   ELSE Return(Given(call.gives, data, result[2]))

DataArrives ==
    /\ pc = "data_wait"
    /\ ~Busy
    /\ Flip
    /\ Arrived(Units(rx[idx'], room))
    /\ UNCHANGED << device, tx, rx, flight, calls, call, room, left, answer,
                    saved, intact, firm >>

\* Mutant: the rest is left to the next call.
SkipNothing ==
    /\ pc = "skip"
    /\ Return(Given(call.gives, buffer, result[2]))
    /\ UNCHANGED << link, calls, call, room, left, buffer, answer, saved,
                    intact, firm >>

\* Nothing is in flight then, so that this one cannot time out; one that did
\* would go unnoticed.
Skip ==
    /\ pc = "skip"
    /\ StartReading("read", left) \/ (Busy /\ UNCHANGED flight)
    /\ Return(Given(call.gives, buffer, result[2]))
    /\ intact' = (intact /\ ~Busy /\ left <= Window)
    /\ UNCHANGED << idx, device, tx, rx, calls, call, room, left, buffer,
                    answer, saved, firm >>

\* nile_spi_rx_sync_block gives up, aborts whatever is in flight, and returns
\* what the abort returns: true as soon as nothing is in flight any more.
ReceiveTimesOut ==
    /\ Busy
    /\ \/ pc \in { "header", "header_wait" } /\ pc' = "header_abort"
       \/ pc \in { "data", "data_wait" } /\ pc' = "data_abort"
    /\ Stopping
    /\ intact' = FALSE
    /\ UNCHANGED << idx, device, tx, rx, calls, call, room, left, buffer,
                    result, answer, saved, firm >>

ReceiveAborted ==
    /\ pc \in { "header_abort", "data_abort" }
    /\ \/ /\ Busy
          /\ Return(<< "spi" >>)
          /\ UNCHANGED << room, left, buffer, intact >>
       \/ /\ ~Busy /\ pc = "header_abort"
          /\ \E h \in Headers(Filler) : Header(h)
          /\ UNCHANGED buffer
       \/ /\ ~Busy /\ pc = "data_abort"
          /\ Arrived(Units(<< >>, room))
          /\ UNCHANGED << room, left, intact >>
    /\ UNCHANGED << link, calls, call, answer, saved, firm >>

----------------------------------------------------------------------------
(***************************************************************************)
(* nile_mcu_native_recv_cmd_start and _finish.  Either may be tried again  *)
(* when it timed out.                                                      *)
(***************************************************************************)
RequestStart ==
    /\ Goto("request", "idle")
    /\ StartReading("wait_read", 1 + call.room)
    /\ result' = << "zero" >>
    /\ answer' = [ phase |-> "started", cmd |-> calls, room |-> call.room ]
    /\ UNCHANGED << idx, device, tx, rx, calls, call, room, left, buffer, saved,
                    intact, firm >>

RequestTimesOut ==
    /\ Goto("request", "idle")
    /\ Busy
    /\ result' = << "spi" >>
    /\ answer' = [ phase |-> "sent", cmd |-> calls, room |-> call.room ]
    /\ UNCHANGED << link, calls, call, room, left, buffer, saved, intact, firm >>

RequestAgain ==
    /\ Goto("idle", "request")
    /\ answer.phase = "sent"
    /\ UNCHANGED << link, calls, call, room, left, buffer, result, answer,
                    saved, intact, firm >>

Finish ==
    /\ Goto("idle", "finish")
    /\ answer.phase = "started"
    /\ UNCHANGED << link, calls, call, room, left, buffer, result, answer,
                    saved, intact, firm >>

\* _response_none and _response_int16.
Gives(n) == IF n = 0 THEN "count" ELSE "value"

FinishArrives ==
    /\ Goto("finish", "idle")
    /\ ~Busy
    /\ Flip
    /\ \E h \in Headers(rx[idx'][1]) :
        LET n == Min({ h[3], answer.room }) IN
        IF h[2] THEN result' = << "mcu" >> /\ UNCHANGED << room, buffer >>
        ELSE /\ room' = n
             /\ buffer' = Units(After(rx[idx'], 1), n)
             /\ result' = Given(Gives(answer.room), buffer', h[4])
    /\ answer' = NoAnswer
    /\ UNCHANGED << device, tx, rx, flight, calls, call, left, saved, intact,
                    firm >>

FinishTimesOut ==
    /\ Goto("finish", "idle")
    /\ Busy
    /\ result' = << "spi" >>
    /\ UNCHANGED << link, calls, call, room, left, buffer, answer, saved,
                    intact, firm >>

----------------------------------------------------------------------------
(***************************************************************************)
(* The program between two calls turns to the TF card, and may leave a     *)
(* transfer there in flight, but not while it waits for an answer.         *)
(***************************************************************************)
Others ==
    /\ pc = "idle"
    /\ answer.phase # "sent"
    /\ calls < MaxCalls \/ answer.phase = "started"
    /\ device # "TF"
    /\ ~Busy
    /\ device' = "TF"
    /\ \/ UNCHANGED flight
       \/ /\ answer.phase = "none"
          /\ flight' = [ NoFlight EXCEPT !.mode = "read", !.dev = "TF",
                                         !.buf = 1 - idx, !.n = 1 ]
    /\ UNCHANGED << idx, tx, rx, nativeVars >>

OtherTransferEnds ==
    /\ Busy
    /\ flight.dev # "MCU"
    /\ Ends(<< Filler >>)
    /\ UNCHANGED nativeVars

Init ==
    /\ LinkInit
    /\ pc = "idle"
    /\ calls = 0
    /\ call = NoCall
    /\ room = 0
    /\ left = 0
    /\ buffer = << >>
    /\ result = << "none" >>
    /\ answer = NoAnswer
    /\ saved = << 0, "none" >>
    /\ intact = TRUE
    /\ firm = Fresh

Client == (\E c \in Calls : Call(c)) \/ RequestAgain \/ Finish \/ Others

DriverStep ==
    \/ Control \/ Restore \/ CommandStart \/ ArgumentStart \/ BlockStart
    \/ SendTimesOut \/ HeaderStart \/ HeaderArrives \/ DataStart \/ DataArrives
    \/ Skip \/ ReceiveTimesOut \/ ReceiveAborted
    \/ RequestStart \/ RequestTimesOut \/ FinishArrives \/ FinishTimesOut

HardwareStep ==
    TransferEnds \/ TransferStops \/ OtherTransferEnds \/ FirmwareAnswers

Next == Client \/ DriverStep \/ HardwareStep

Spec == Init /\ [][Next]_vars

----------------------------------------------------------------------------
TypeOK ==
    /\ idx \in { 0, 1 } /\ device \in Devices
    /\ flight.mode \in Modes /\ flight.dev \in Devices /\ flight.buf \in { 0, 1 }
    /\ flight.n \in 0 .. Window
    /\ calls \in 0 .. MaxCalls /\ call \in Calls
    /\ room \in Nat /\ left \in Nat /\ Len(buffer) \in Nat
    /\ answer.phase \in { "none", "sent", "started" }
    /\ intact \in BOOLEAN

\* A call that returns something of an answer returns its own command's: from
\* the first unit on, as many as there are or the buffer takes, whatever other
\* calls left behind and however often a wait had to be repeated; and the number
\* it returns is that of these units, under the bits that the firmware set in this
\* answer's header.  Only where it set none is it the number of bytes received,
\* as mcu.h:177 has it.  Unless, since the reset, something was cut off half-way.
AnswerIsOwn ==
    (pc = "idle" /\ intact /\ result[1] \in { "count", "value" }) =>
        LET n == Min({ firm.len, call.room }) IN
        /\ firm.cmd = calls
        /\ buffer = Own(calls, n)
        /\ result = IF result[1] = "count"
                    THEN << "count", Received(n, firm.flags) >>
                    ELSE << "value", Value(buffer) >>

\* Each word that the firmware takes for an argument or a block is that of the
\* command it belongs to.
ArgumentsAreOwn == intact => firm.own

=============================================================================
