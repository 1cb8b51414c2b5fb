------------------------------- MODULE McuBoot -------------------------------
(***************************************************************************)
(* The MCU's boot loader protocol (src/core/mcu): commands, their data and *)
(* checksums, each acknowledged, over an SPI link whose waits may time     *)
(* out.  The routines call each other; what is left to do of a call is a   *)
(* sequence of steps, each one exchange with the boot loader, and the call *)
(* fails at the first that does.                                           *)
(***************************************************************************)
EXTENDS SpiLink

CONSTANTS
    Sizes,          \* numbers of bytes read and written
    Sectors,        \* where an erase begins
    Counts,         \* numbers of sectors to erase
    CountMod,       \* sectors and counts have 16 bits: 2^16
    AllCounts,      \* counts from here on erase everything (0xFFF0)
    RetryMod,       \* retries is counted modulo this (2^16)
    MaxCalls        \* bound: calls in a behaviour

VARIABLES
    pc,         \* what the CPU does next
    calls,      \* number of calls made; what they send and read is named by it
    op,         \* the call in progress, or the last one
    todo,       \* the steps it still has to take
    retries,    \* of wait_ack
    data,       \* what it received
    result,     \* what it returns
    intact,     \* history: since the reset, no call was given up half-way
    loader      \* the boot loader

bootVars == << pc, calls, op, todo, retries, data, result, intact, loader >>
vars == << link, bootVars >>

----------------------------------------------------------------------------
(***************************************************************************)
(* What is sent and received, and in which steps.                          *)
(***************************************************************************)
Zero == << "zero" >>
Ack  == << "ack" >>
Nack == << "nack" >>
Wait == << "wait" >>        \* any other byte

\* A checksum is the exclusive or of what it covers, inverted if that is a
\* single byte without a size in front.
Sum(inverted, covered) == << "sum", inverted, covered >>

Step(what, v) == [ what |-> what, v |-> v ]

WaitAck == << Step("skip", Zero), Step("poll", Zero), Step("echo", Ack) >>

SendCmd(o, k) == << Step("frame", << "frame", o.kind, k >>) >> \o WaitAck

\* Mutant: a single byte is its own checksum.
SendDataPlain(sized, bytes) ==
    LET size    == << "size", bytes[3] >>
        covered == IF sized THEN << size, bytes >> ELSE << bytes >>
    IN  (IF sized THEN << Step("exchange", size) >> ELSE << >>)
            \o << Step("send", bytes), Step("exchange", Sum(FALSE, covered)) >>
            \o WaitAck

\* nile_mcu_boot_send_data with a checksum, for which all its callers ask.
\* What is sent is a triple: what it is, its value, its length in bytes.
SendData(sized, bytes) ==
    LET size    == << "size", bytes[3] >>
        covered == IF sized THEN << size, bytes >> ELSE << bytes >>
    IN  (IF sized THEN << Step("exchange", size) >> ELSE << >>)
            \o << Step("send", bytes),
                  Step("exchange", Sum(~sized /\ bytes[3] = 1, covered)) >>
            \o WaitAck

RecvData(sized, n) ==
    << Step("exchange", Zero) >>
        \o (IF sized THEN << Step("size", Zero) >> ELSE << >>)
        \o << Step("receive", n) >>

Address(k) == << "addr", k, 4 >>

Pages(o) == [ i \in 1 .. o.n |-> << "page", (o.s + i - 1) % CountMod, 2 >> ]

\* Mutant: the count is sent as it is.
SentCountPlain(n) == n

\* One count less is sent, or a code for everything.
SentCount(n) == IF n < AllCounts THEN (n - 1) % CountMod ELSE n

EraseMemory(o) ==
    SendData(FALSE, << "count", SentCount(o.n), 2 >>)
        \o (IF o.n < AllCounts
            THEN [ i \in 1 .. Len(Pages(o)) |-> Step("send", Pages(o)[i]) ]
                     \o << Step("send", Sum(FALSE, Pages(o))) >>
            ELSE << >>)
        \o WaitAck

GetVersion == << Step("exchange", Zero), Step("value", Zero) >> \o WaitAck

GetId == RecvData(TRUE, 2) \o WaitAck

ReadMemory(o, k) ==
    SendData(FALSE, Address(k)) \o SendData(FALSE, << "length", o.n - 1, 1 >>)
        \o RecvData(FALSE, o.n)

WriteMemory(o, k) ==
    SendData(FALSE, Address(k)) \o SendData(TRUE, << "data", k, o.n >>)

Jump(k) == SendData(FALSE, Address(k))

\* The steps of call k.
Script(o, k) ==
    SendCmd(o, k) \o
    CASE o.kind = "version" -> GetVersion
      [] o.kind = "id"      -> GetId
      [] o.kind = "read"    -> ReadMemory(o, k)
      [] o.kind = "write"   -> WriteMemory(o, k)
      [] o.kind = "erase"   -> EraseMemory(o)
      [] o.kind = "jump"    -> Jump(k)

Operations ==
    LET Plain(kind) == [ kind |-> kind, n |-> 0, s |-> 0 ]
    IN  { Plain("version"), Plain("id"), Plain("jump") }
        \cup { [ Plain(kind) EXCEPT !.n = n ] :
                 kind \in { "read", "write" }, n \in Sizes }
        \cup { [ kind |-> "erase", n |-> n, s |-> s ] :
                 n \in Counts, s \in Sectors }

\* None of these, since the reset that started the MCU.
NoOp == [ kind |-> "reset", n |-> 0, s |-> 0 ]

----------------------------------------------------------------------------
(***************************************************************************)
(* The boot loader.  It expects a frame, and what belongs to the command   *)
(* in it; when something else comes instead it is lost, and may answer     *)
(* anything until the next reset.  It refuses what has a wrong checksum,   *)
(* and whatever else it likes to.                                          *)
(***************************************************************************)
Acknowledged == << "skip", "poll", "echo" >>

Wanted(kind) ==
    CASE kind = "version" -> << "dummy", "version" >> \o Acknowledged
      [] kind = "id"      -> << "dummy", "two", "receive" >> \o Acknowledged
      [] kind = "read"    -> << "addr", "sum" >> \o Acknowledged
                                 \o << "length", "sum" >> \o Acknowledged
                                 \o << "dummy", "receive" >>
      [] kind = "write"   -> << "addr", "sum" >> \o Acknowledged
                                 \o << "size", "data", "sum" >> \o Acknowledged
      [] kind = "erase"   -> << "count", "sum" >> \o Acknowledged
      [] kind = "jump"    -> << "addr", "sum" >> \o Acknowledged

\* What comes behind the count that was sent.
WantedBehind(count) ==
    (IF count < AllCounts THEN [ i \in 1 .. count + 1 |-> "page" ] \o << "sum" >>
                          ELSE << >>)
        \o Acknowledged

\* After a reset it waits for the byte it measures the clock with.
Booted == [ expect |-> << "start" >> \o Acknowledged, kind |-> "none", cmd |-> 0,
            part |-> << >>, got |-> << >>, did |-> << >>, wrong |-> FALSE,
            lost |-> FALSE ]

Passed(e) == IF Tail(e) = << >> THEN << "frame" >> ELSE Tail(e)

\* What a read of the boot loader's memory, or of its identity, gives.
Stored == [ i \in 1 .. Window |-> << "stored", loader.cmd, i >> ]

\* The checksum it computes itself.
Expected == Sum(\E i \in DOMAIN loader.part : loader.part[i][1] = "length",
                loader.part)

LosesTrack(reply) ==
    /\ loader' = [ loader EXCEPT !.lost = TRUE ]
    /\ reply = Wait

AnswersPoll(reply) ==
    \/ reply = Wait /\ UNCHANGED loader
    \/ /\ reply = Ack /\ ~loader.wrong
       /\ loader' = [ loader EXCEPT
                        !.expect = Tail(@), !.part = << >>,
                        !.did = IF loader.expect = << "poll", "echo" >>
                                THEN << loader.kind, loader.cmd, loader.got >>
                                ELSE @ ]
    \/ /\ reply = Nack
       /\ loader' = [ loader EXCEPT !.expect = << "echo" >>, !.part = << >>,
                                    !.wrong = FALSE ]

\* It hears a word and sends a reply.
Hears(word, reply) ==
    LET e == Head(loader.expect)
        on == [ loader EXCEPT !.expect = Passed(@) ]
    IN
    \/ loader.lost /\ reply \in { Ack, Nack, Wait } /\ UNCHANGED loader
    \/ /\ ~loader.lost
       /\ \/ e \in { "skip", "dummy" } /\ loader' = on /\ reply = Filler
          \/ e = "poll" /\ AnswersPoll(reply)
          \/ e = "version" /\ loader' = on /\ reply = << "value", loader.cmd >>
          \/ e = "two" /\ loader' = on /\ reply = << "size", 1 >>
          \/ /\ e = "echo"
             /\ IF word = Ack THEN loader' = on /\ reply = Filler
                              ELSE LosesTrack(reply)
          \/ /\ e = "frame"
             /\ IF word[1] = "frame"
                THEN /\ loader' = [ loader EXCEPT
                                      !.expect = Acknowledged \o Wanted(word[2]),
                                      !.kind = word[2], !.cmd = word[3],
                                      !.part = << >>, !.got = << >>, !.did = << >> ]
                     /\ reply = Filler
                ELSE LosesTrack(reply)
          \/ /\ e = "sum"
             /\ loader' = [ on EXCEPT !.wrong = word # Expected ]
             /\ reply = Filler
          \/ /\ e \in { "start", "addr", "length", "size", "data", "count", "page" }
             /\ IF word[1] = e
                THEN /\ loader' = [ on EXCEPT
                                      !.expect = IF e = "count"
                                                 THEN @ \o WantedBehind(word[2])
                                                 ELSE @,
                                      !.part = Append(@, word),
                                      !.got = Append(@, word) ]
                     /\ reply = Filler
                ELSE LosesTrack(reply)
          \/ e = "receive" /\ LosesTrack(reply)

\* It sends n units of what is asked for; any other time, nothing to speak of.
Sends(units) ==
    IF ~loader.lost /\ Head(loader.expect) = "receive"
    THEN /\ units = Units(Stored, flight.n)
         /\ loader' = [ loader EXCEPT !.expect = Passed(@) ]
    ELSE /\ units = Units(<< >>, flight.n)
         /\ loader' = [ loader EXCEPT !.lost = TRUE ]

TransferEnds ==
    /\ flight.dev = "MCU"
    /\ \/ /\ flight.mode \in { "write", "exchange" }
          /\ \E reply \in { Ack, Nack, Wait, Filler, << "value", loader.cmd >>,
                            << "size", 1 >> } :
                Hears(tx[flight.buf], reply) /\ Ends(<< reply >>)
       \/ /\ flight.mode = "read"
          /\ \E units \in { Units(Stored, flight.n), Units(<< >>, flight.n) } :
                Sends(units) /\ Ends(units)
    /\ UNCHANGED << pc, calls, op, todo, retries, data, result, intact >>

\* A transfer is stopped half-way: only one that reads ever is.
TransferStops ==
    /\ flight.stop
    /\ flight.dev = "MCU"
    /\ Ends(<< Filler >>)
    /\ loader' = [ loader EXCEPT !.lost = TRUE ]
    /\ UNCHANGED << pc, calls, op, todo, retries, data, result, intact >>

----------------------------------------------------------------------------
(***************************************************************************)
(* The routines.                                                           *)
(***************************************************************************)
\* After a jump, or a call that was given up half-way, only a reset is of use.
Call(o) ==
    /\ pc = "idle"
    /\ calls < MaxCalls
    /\ intact
    /\ op.kind # "jump"
    /\ pc' = "boot"
    /\ calls' = calls + 1
    /\ op' = o
    /\ todo' = Script(o, calls')
    /\ retries' = 0
    /\ data' = << >>
    /\ result' = << "none" >>
    /\ tx' = Forgotten(tx, Filler)
    /\ rx' = Forgotten(rx, << Filler >>)
    /\ UNCHANGED << idx, device, flight, intact, loader >>

\* The call has no more steps to take.
Done ==
    IF op.kind \in { "version", "id" } THEN << "read" >> ELSE << "true" >>

Proceed ==
    /\ todo' = Tail(todo)
    /\ IF todo' = << >> THEN pc' = "idle" /\ result' = Done
                        ELSE pc' = "boot" /\ UNCHANGED result

Fail ==
    /\ pc' = "idle"
    /\ result' = << "false" >>
    /\ todo' = << >>

\* A frame is sent once CNT is set to the MCU.
FrameStart ==
    /\ pc = "boot" /\ Head(todo).what = "frame"
    /\ ~Busy
    /\ tx' = [ tx EXCEPT ![0] = Head(todo).v ]
    /\ idx' = 1
    /\ device' = "MCU"
    /\ flight' = [ NoFlight EXCEPT !.mode = "write", !.dev = "MCU", !.n = 1 ]
    /\ data' = data
    /\ Proceed
    /\ UNCHANGED << rx, calls, op, retries, intact, loader >>

SendStart ==
    /\ pc = "boot" /\ Head(todo).what = "send"
    /\ StartSending("write", device)
    /\ tx' = [ tx EXCEPT ![idx] = Head(todo).v ]
    /\ data' = data
    /\ Proceed
    /\ UNCHANGED << rx, calls, op, retries, intact, loader >>

\* nile_spi_xch, up to its second wait.
ExchangeStart ==
    /\ pc = "boot" /\ Head(todo).what \notin { "frame", "send", "receive" }
    /\ StartSending("exchange", device)
    /\ tx' = [ tx EXCEPT ![idx] = Head(todo).v ]
    /\ pc' = "boot_wait"
    /\ UNCHANGED << rx, calls, op, todo, retries, data, result, intact, loader >>

ReceiveStart ==
    /\ pc = "boot" /\ Head(todo).what = "receive"
    /\ StartReading("read", Head(todo).v)
    /\ pc' = "boot_wait"
    /\ UNCHANGED << idx, device, tx, rx, calls, op, todo, retries, data, result,
                    intact, loader >>

Arrives(what) ==
    /\ pc = "boot_wait" /\ Head(todo).what = what
    /\ ~Busy
    /\ Flip
    /\ UNCHANGED << device, tx, rx, flight, calls, op, loader >>

Unit == rx[idx'][1]

ExchangeArrives ==
    /\ \E what \in { "skip", "echo", "exchange" } : Arrives(what)
    /\ UNCHANGED << retries, data, intact >>
    /\ Proceed

ValueArrives ==
    /\ Arrives("value")
    /\ data' = << Unit >>
    /\ UNCHANGED << retries, intact >>
    /\ Proceed

\* The boot loader sends its number of bytes less one; no more are read than the
\* buffer takes.
SizeArrives ==
    /\ Arrives("size")
    /\ LET room == todo[2].v
           n == IF Unit[1] = "size" /\ Unit[2] + 1 < room THEN Unit[2] + 1 ELSE room
       IN  todo' = << Step("receive", n) >> \o SubSeq(todo, 3, Len(todo))
    /\ pc' = "boot"
    /\ UNCHANGED << retries, data, result, intact >>

ReceiveArrives ==
    /\ Arrives("receive")
    /\ data' = Units(rx[idx'], Head(todo).v)
    /\ UNCHANGED << retries, intact >>
    /\ Proceed

\* Mutant: the answers are not counted.
PollsForever ==
    /\ Arrives("poll")
    /\ UNCHANGED << retries, data, intact >>
    /\ \/ Unit = Ack /\ Proceed
       \/ /\ Unit = Nack
          /\ todo' = << Step("refused", Ack) >>
          /\ pc' = "boot" /\ UNCHANGED result
       \/ Unit \notin { Ack, Nack } /\ pc' = "boot" /\ UNCHANGED << todo, result >>

\* The answer does not count when it is the last one that is asked for.
PollArrives ==
    /\ Arrives("poll")
    /\ UNCHANGED data
    /\ LET r == (retries - 1) % RetryMod IN
       \/ r = 0 /\ Fail /\ intact' = FALSE /\ retries' = 0
       \/ /\ r # 0 /\ Unit = Ack
          /\ retries' = 0 /\ UNCHANGED intact
          /\ Proceed
       \/ /\ r # 0 /\ Unit = Nack
          /\ todo' = << Step("refused", Ack) >>
          /\ retries' = 0 /\ pc' = "boot" /\ UNCHANGED << result, intact >>
       \/ /\ r # 0 /\ Unit \notin { Ack, Nack }
          /\ retries' = r /\ pc' = "boot" /\ UNCHANGED << todo, result, intact >>

RefusedArrives ==
    /\ Arrives("refused")
    /\ UNCHANGED << retries, data, intact >>
    /\ Fail

\* Nobody asks whether the byte before the answer, and the one after it, were
\* exchanged.  A call that cannot even begin leaves nothing half-way.
TimesOut ==
    /\ pc \in { "boot", "boot_wait" }
    /\ Busy
    /\ Head(todo).what # "receive"
    /\ CASE Head(todo).what \in { "skip", "echo" } ->
              UNCHANGED << intact, data >> /\ Proceed
         [] Head(todo).what \in { "frame", "refused" } ->
              UNCHANGED << intact, data >> /\ Fail
         [] OTHER -> intact' = FALSE /\ UNCHANGED data /\ Fail
    /\ UNCHANGED << link, calls, op, retries, loader >>

\* nile_spi_rx_sync_block gives up and aborts what is in flight; what it then
\* returns is the abort's result.
ReceiveTimesOut ==
    /\ pc \in { "boot", "boot_wait" }
    /\ Busy
    /\ Head(todo).what = "receive"
    /\ Stopping
    /\ pc' = "boot_abort"
    /\ intact' = FALSE
    /\ UNCHANGED << idx, device, tx, rx, calls, op, todo, retries, data, result,
                    loader >>

ReceiveAborted ==
    /\ pc = "boot_abort"
    /\ UNCHANGED << link, calls, op, retries, data, intact, loader >>
    /\ \/ Busy /\ Fail
       \/ ~Busy /\ Proceed

DriverStep ==
    \/ FrameStart \/ SendStart \/ ExchangeStart \/ ReceiveStart
    \/ ExchangeArrives \/ ValueArrives \/ SizeArrives \/ ReceiveArrives
    \/ PollArrives \/ RefusedArrives \/ TimesOut \/ ReceiveTimesOut
    \/ ReceiveAborted

HardwareStep == TransferEnds \/ TransferStops

Init ==
    /\ pc = "idle"
    /\ calls = 0
    /\ op = NoOp
    /\ todo = << >>
    /\ retries = 0
    /\ data = << >>
    /\ result = << "none" >>
    /\ intact = TRUE
    /\ loader = Booted

----------------------------------------------------------------------------
\* What the boot loader does when it executes a call.
Meant(o, k) ==
    CASE o.kind = "write" -> << Address(k), << "size", o.n >>, << "data", k, o.n >> >>
      [] o.kind = "erase" /\ o.n < AllCounts ->
             << << "count", o.n - 1, 2 >> >> \o
                 [ i \in 1 .. o.n |-> << "page", (o.s + i - 1) % CountMod, 2 >> ]
      [] o.kind = "erase" /\ o.n >= AllCounts -> << << "count", o.n, 2 >> >>
      [] o.kind = "jump"  -> << Address(k) >>

\* A call of the boot loader that succeeds, where no call was given up half-way
\* before, has done exactly what it was called for: the boot loader executed it on
\* the sectors, the address and the bytes it names, under a right checksum, and
\* what was read is what the boot loader sent for this call, from the first byte
\* on and whole.  It does not matter which timeouts went unnoticed on the way.
TrueMeansDone ==
    (pc = "idle" /\ intact /\ result \in { << "true" >>, << "read" >> }) =>
        /\ op.kind \in { "write", "erase", "jump" } =>
               loader.did = << op.kind, calls, Meant(op, calls) >>
        /\ op.kind = "read" => data = [ i \in 1 .. op.n |-> << "stored", calls, i >> ]
        /\ op.kind = "id" => data = [ i \in 1 .. 2 |-> << "stored", calls, i >> ]
        /\ op.kind = "version" => data = << << "value", calls >> >>

\* As long as no call was given up half-way the boot loader meets nothing that it
\* does not expect and no checksum that is wrong, whatever it refuses.
LoaderFollows == intact => ~loader.lost /\ ~loader.wrong

=============================================================================
