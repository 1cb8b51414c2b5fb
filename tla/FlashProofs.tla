---------------------------- MODULE FlashProofs ----------------------------
(***************************************************************************)
(* Proofs about the flash driver (FlashDriver), for any calls, any waits   *)
(* that time out, and reads of any length; and about which installed       *)
(* firmware is accepted (FlashLayout), for all versions.                   *)
(***************************************************************************)
EXTENDS FlashDriver, FlashLayout, SequenceTheorems, TLAPS

----------------------------------------------------------------------------
(***************************************************************************)
(* The inductive invariant.                                                *)
(***************************************************************************)
CommandPCs == { "cmd_low", "cmd_send", "cmd_sent", "cmd_high" }
PollPCs    == { "ask_open", "ask_wait", "asked", "poll_read", "poll_wait",
                "poll_leave" }

\* Which calls get where, with which commands left.
OpInv ==
    /\ pc # "idle" => calls > 0
    /\ pc \in CommandPCs =>
         \/ op \in Commands /\ cmds = << op >>
         \/ op \in Writes /\ cmds = << "WREN" >>
         \/ op = "unlock" /\ cmds \in { << "WREN", "UNLOCK" >>, << "UNLOCK" >> }
    /\ pc \in { "low", "send", "sent", "exit" } => op \in Writes \cup Reads
    /\ pc = "send_data" => op = "write"
    /\ pc \in { "recv", "received" } => op = "read"
    /\ pc = "received" => left > 0
    /\ pc = "high" => op \in Writes
    /\ pc \in PollPCs => op \in Writes \cup { "wait" }

Asking  == stack = << "ip", "ds", "port", "bank" >> /\ ram = "TX" /\ rom1 = "APP"
Polling == stack = << "ip", "ds", "rom1" >> /\ ram = "APP" /\ rom1 = "RX"
Home    == stack = << >> /\ ram = "APP" /\ rom1 = "APP"

\* The stack and the banks, at each place.
BankInv ==
    /\ pc \in { "ask_wait", "asked" } => Asking
    /\ pc \in { "poll_read", "poll_wait" } => Polling
    /\ pc = "poll_leave" => Asking \/ Polling
    /\ pc \notin { "ask_wait", "asked", "poll_read", "poll_wait", "poll_leave", "lost" }
         => Home

\* The chip hears something only while it is selected.
SelInv ==
    /\ flight.dev = "FLASH" => sel = "FLASH" /\ flight.what \in Bytes
    /\ sel # "FLASH" => chip.frame = << >>
    /\ pc \in { "idle", "cmd_low", "low", "ask_open", "ask_wait",
        "lost" } => sel # "FLASH"

\* Calls that wait for the chip find it awake and do not send it to sleep.
AwakeInv ==
    op \in Writes \cup { "wait" } =>
        /\ ~chip.asleep
        /\ chip.frame # << "SLEEP" >>
        /\ flight.dev = "FLASH" => flight.what # "SLEEP"

\* The chip has heard w behind what it had heard before, or is about to.
Hears(before, w) ==
    /\ sel = "FLASH"
    /\ \/ Ready /\ chip.frame = Append(before, w)
       \/ flight.dev = "FLASH" /\ flight.what = w /\ chip.frame = before

\* What the polls received is the status of the chip.
StatusInv ==
    /\ pc \in { "low", "send", "send_data", "sent", "high", "ask_open", "ask_wait",
                "asked", "poll_read",
                    "poll_wait" } /\ op \in Writes \cup { "wait" } => ~ok
    /\ pc = "asked" => Hears(<< >>, "RDSR")
    /\ pc = "poll_read" => sel = "FLASH" /\ Ready /\ chip.frame = << "RDSR" >>
    /\ pc = "poll_wait" =>
         /\ sel = "FLASH" /\ chip.frame = << "RDSR" >>
         /\ ~Ready => flight = [ dev |-> "FLASH", what |-> "CLOCK", buf |-> bx ]
         /\ Ready => rx[bx] # "junk" /\ (rx[bx] = "ready" => ~chip.busy)
    /\ pc = "poll_leave" /\ ok =>
         sel = "FLASH" /\ Ready /\ chip.frame = << "RDSR" >> /\ ~chip.busy
    /\ pc = "exit" /\ op \in Writes /\ ok => sel # "FLASH" /\ ~chip.busy
    /\ pc = "idle" /\ op \in Writes \cup { "wait" } /\ ok => ~chip.busy

Whole == IF op = "write" THEN << "WRITE", "DATA" >> ELSE << Header[op] >>

\* How far a write has come that found the chip idle and had it selected.
DoneInv ==
    op \in Writes /\ clean =>
        /\ pc \in CommandPCs => ~chip.busy
        /\ pc = "cmd_send" => sel = "FLASH" /\ Ready /\ chip.frame = << >>
        /\ pc = "cmd_sent" => Hears(<< >>, "WREN")
        /\ pc = "cmd_high" /\ ok => sel = "FLASH" /\ Ready /\ chip.frame = << "WREN" >>
        /\ pc \in { "low", "send", "send_data", "sent",
            "high" } => ~chip.busy /\ chip.wel
        /\ pc = "send" => sel = "FLASH" /\ Ready /\ chip.frame = << >>
        /\ pc = "send_data" => Hears(<< >>, "WRITE")
        /\ pc = "sent" => IF op = "write" THEN Hears(<< "WRITE" >>, "DATA")
                                          ELSE Hears(<< >>, Header[op])
        /\ pc = "high" => sel = "FLASH" /\ Ready /\ chip.frame = Whole
        /\ pc \in { "ask_open", "ask_wait", "asked", "poll_read", "poll_wait" } =>
             IF chip.busy THEN chip.doing = calls ELSE chip.done = calls
        /\ pc \in { "poll_leave", "exit", "idle" } /\ ok => chip.done = calls

FlashInv == TypeOK /\ OpInv /\ BankInv /\ SelInv /\ AwakeInv /\ StatusInv /\ DoneInv

----------------------------------------------------------------------------
(***************************************************************************)
(* What the chip hears, and what it makes of it.                           *)
(***************************************************************************)
Chips == [ wel : BOOLEAN, busy : BOOLEAN, asleep : BOOLEAN,
           frame : Seq(Bytes), doing : 0 .. MaxCalls, done : 0 .. MaxCalls ]

\* What is heard is not the command to sleep, unless that was sent.
LEMMA HeardFacts ==
    ASSUME NEW frame \in Seq(Bytes), NEW what \in Bytes
    PROVE  /\ Heard(frame, what) \in Seq(Bytes)
           /\ Append(frame, "PART") \in Seq(Bytes)
           /\ frame # << "SLEEP" >> /\ what # "SLEEP" =>
                Heard(frame, what) # << "SLEEP" >>
           /\ Append(frame, "PART") # << "SLEEP" >>
<1>1. { "IGNORED", "PART" } \subseteq Bytes
  BY DEF Bytes
<1>2. ASSUME NEW w, w # "SLEEP" PROVE Append(frame, w) # << "SLEEP" >>
  <2>1. Append(frame, w)[Len(frame) + 1] = w /\ Len(Append(frame, w)) = Len(frame) + 1
    OBVIOUS
  <2>2. Len(<< "SLEEP" >>) = 1 /\ << "SLEEP" >>[1] = "SLEEP"
    OBVIOUS
  <2> QED BY <1>2, <2>1, <2>2
<1> QED BY <1>1, <1>2 DEF Heard

\* Each command does to the chip what it says, and no more.
LEMMA ExecutedFacts ==
    ASSUME TypeOK, NEW frame \in Seq(Bytes)
    PROVE  /\ Executed(frame) \in Chips
           /\ Executed(frame).frame = << >>
           /\ ~chip.asleep /\ frame # << "SLEEP" >> => ~Executed(frame).asleep
           /\ frame = << "RDSR" >> => /\ Executed(frame).busy = chip.busy
                                      /\ Executed(frame).done = chip.done
           /\ ~chip.asleep /\ frame = << "WREN" >> => /\ Executed(frame).wel
                                                      /\ Executed(frame).busy = chip.busy
           /\ ~chip.asleep /\ chip.wel
                /\ frame \in { << "ERASE" >>, << "WRSR" >>, << "WRITE", "DATA" >> } =>
                Executed(frame).busy /\ Executed(frame).doing = calls
<1> DEFINE c == [ chip EXCEPT !.frame = << >> ]
<1>1. chip \in Chips
  BY DEF TypeOK, Chips
<1>2. calls \in 0 .. MaxCalls /\ 0 \in 0 .. MaxCalls
  BY FlashAssumption DEF TypeOK
<1>3. /\ c \in Chips /\ c.frame = << >> /\ c.asleep = chip.asleep /\ c.wel = chip.wel
      /\ c.busy = chip.busy /\ c.done = chip.done
  <2>1. << >> \in Seq(Bytes)
    OBVIOUS
  <2> QED BY <1>1, <2>1 DEF Chips
<1>4. CASE chip.asleep
  <2>1. Executed(frame) = IF frame = << "WAKE_ID" >> THEN [ c EXCEPT !.asleep = FALSE ]
                                                     ELSE c
    BY <1>3, <1>4 DEF Executed
  <2>2. frame = << "WAKE_ID" >> => frame # << "RDSR" >>
    OBVIOUS
  <2> QED BY <1>3, <1>4, <2>1, <2>2 DEF Chips
<1>5. CASE ~chip.asleep
  <2> USE <1>2, <1>3, <1>5 DEF Executed, Chips
  <2>1. CASE frame = << "WREN" >>
    <3>1. Executed(frame) = [ c EXCEPT !.wel = TRUE ]
      BY <2>1
    <3> QED BY <2>1, <3>1
  <2>2. CASE frame = << "WRDI" >>
    <3>1. Executed(frame) = [ c EXCEPT !.wel = FALSE ]
      BY <2>2
    <3> QED BY <2>2, <3>1
  <2>3. CASE frame = << "SLEEP" >>
    <3>1. Executed(frame) = [ c EXCEPT !.asleep = TRUE ]
      BY <2>3
    <3> QED BY <2>3, <3>1
  <2>4. CASE frame \in { << "ERASE" >>, << "WRSR" >>, << "WRITE", "DATA" >> }
    <3>1. frame \notin { << "WREN" >>, << "WRDI" >>, << "SLEEP" >>, << "RDSR" >>,
                        << "WRITE", "PART" >> }
      BY <2>4
    <3>2. c.wel => Executed(frame) = [ c EXCEPT !.busy = TRUE, !.doing = calls ]
      BY <2>4, <3>1, Zenon
    <3>3. ~c.wel => Executed(frame) = c
      BY <2>4, <3>1, Zenon
    <3> QED BY <2>4, <3>1, <3>2, <3>3
  <2>5. CASE frame = << "WRITE", "PART" >>
    <3>1. Executed(frame) =
            IF c.wel THEN [ c EXCEPT !.busy = TRUE, !.doing = 0 ] ELSE c
      BY <2>5
    <3> QED BY <2>5, <3>1
  <2>6. CASE frame \notin { << "WREN" >>, << "WRDI" >>, << "SLEEP" >>, << "ERASE" >>,
                           << "WRSR" >>, << "WRITE", "DATA" >>, << "WRITE", "PART" >> }
    <3>1. Executed(frame) = c
      BY <2>6
    <3> QED BY <2>6, <3>1
  <2> QED BY <2>1, <2>2, <2>3, <2>4, <2>5, <2>6
<1> QED BY <1>4, <1>5

\* Deselecting the chip has it carry out what it has heard, whole if nothing was on
\* its way.
LEMMA DeselectFacts ==
    ASSUME TypeOK, SelInv, Deselect
    PROVE  /\ sel' = "NONE"
           /\ chip' \in Chips
           /\ chip'.frame = << >>
           /\ /\ ~chip.asleep
              /\ chip.frame # << "SLEEP" >>
              /\ flight.dev = "FLASH" => flight.what # "SLEEP"
              => ~chip'.asleep
           /\ sel = "FLASH" /\ Ready => chip' = Executed(chip.frame)
           /\ sel # "FLASH" => chip' = chip
<1>1. chip \in Chips /\ chip.frame \in Seq(Bytes)
  BY DEF TypeOK, Chips
<1>2. CASE sel = "FLASH"
  <2>1. PICK f \in Frames : chip' = Executed(f)
    BY <1>2 DEF Deselect
  <2>2. /\ f \in Seq(Bytes)
        /\ chip.frame # << "SLEEP" >> /\ (flight.dev = "FLASH" => flight.what # "SLEEP")
             => f # << "SLEEP" >>
    BY <1>1, HeardFacts DEF Frames, SelInv
  <2>3. Ready => f = chip.frame
    BY DEF Frames, Ready, NoFlight
  <2> QED BY <1>2, <2>1, <2>2, <2>3, ExecutedFacts DEF Deselect
<1>3. CASE sel # "FLASH"
  BY <1>1, <1>3 DEF Deselect, SelInv
<1> QED BY <1>2, <1>3

Flights == [ dev : { "NONE", "TF", "FLASH" }, what : Bytes \cup { "none", "dummy" },
             buf : { 0, 1 } ]

\* What selecting the chip does: it works, or the call is not clean any more.
LEMMA CsLowFacts ==
    ASSUME TypeOK, CsLow
    PROVE  /\ sel' \in { sel, "FLASH" } /\ idx' \in { 0, 1 } /\ clean' \in BOOLEAN
           /\ UNCHANGED << flight, rx, chip >>
           /\ clean' => clean /\ sel' = "FLASH" /\ Ready
<1>1. CASE Ready /\ sel' = "FLASH" /\ idx' = 0 /\ UNCHANGED clean
  BY <1>1 DEF TypeOK, CsLow
<1>2. CASE TimesOut("select") /\ clean' = FALSE /\ UNCHANGED << sel, idx >>
  BY <1>2 DEF TypeOK, CsLow
<1> QED BY <1>1, <1>2 DEF CsLow

\* nile_spi_init_flash_cs_high does that, and turns away what is on its way.
LEMMA CsHighFacts ==
    ASSUME TypeOK, SelInv, CsHigh
    PROVE  /\ sel' = "NONE" /\ idx' = 0 /\ rx' = rx
           /\ chip' \in Chips /\ chip'.frame = << >>
           /\ flight' \in Flights /\ flight'.dev # "FLASH"
           /\ /\ ~chip.asleep
              /\ chip.frame # << "SLEEP" >>
              /\ flight.dev = "FLASH" => flight.what # "SLEEP"
              => ~chip'.asleep
           /\ sel = "FLASH" /\ Ready => chip' = Executed(chip.frame)
           /\ sel # "FLASH" => chip' = chip
<1>1. Deselect /\ idx' = 0 /\ rx' = rx
  BY DEF CsHigh
<1>2. flight \in Flights
  BY DEF TypeOK, Flights
<1>3. flight' \in Flights /\ flight'.dev # "FLASH"
  BY <1>2 DEF CsHigh, Ready, NoFlight, Flights
<1> QED BY <1>1, <1>3, DeselectFacts

Words == { "ip", "ds", "port", "bank", "rom1" }

\* The end of nile_flash_wait_ready after an early exit: the words are not those
\* it takes them for.
LEMMA LeaveAsking ==
    ASSUME PollLeave, Asking
    PROVE  /\ stack' \in Seq(Words) /\ Len(stack') = 1
           /\ rom1' = "BAD" /\ pc' = "lost"
<1>1. Len(stack) = 4 /\ stack[2] = "ds" /\ stack[3] = "port" /\ stack[4] = "bank"
  BY DEF Asking
<1>2. SubSeq(stack, 1, 1) \in Seq(Words) /\ Len(SubSeq(stack, 1, 1)) = 1
  <2>1. \A i \in 1 .. 1 : stack[i] \in Words
    BY DEF Asking, Words
  <2> QED BY <2>1, SubSeqProperties
<1> QED BY <1>1, <1>2 DEF PollLeave

\* And after the loop: they are.
LEMMA LeavePolling ==
    ASSUME PollLeave, Polling
    PROVE  /\ stack' = << >> /\ rom1' = "APP"
           /\ pc' = IF op = "wait" THEN "idle" ELSE "exit"
<1>1. Len(stack) = 3 /\ stack[1] = "ip" /\ stack[2] = "ds" /\ stack[3] = "rom1"
  BY DEF Polling
<1>2. SubSeq(stack, 1, 0) = << >>
  BY SubSeqEmpty
<1>3. << stack[1], stack[2] >> = << "ip", "ds" >>
  BY <1>1
<1> QED BY <1>1, <1>2, <1>3 DEF PollLeave

----------------------------------------------------------------------------
(**************************************************************************)
(* Every action keeps the invariant.                                       *)
(**************************************************************************)
LEMMA CmdLowKeeps == FlashInv /\ CmdLow => FlashInv'
<1> SUFFICES ASSUME FlashInv, CmdLow PROVE FlashInv'
  OBVIOUS
<1> USE DEF FlashInv, CmdLow, Goto, Ready, call, poll, CommandPCs, PollPCs
<1>0. /\ sel' \in { sel, "FLASH" } /\ idx' \in { 0, 1 } /\ clean' \in BOOLEAN
      /\ UNCHANGED << flight, rx, chip >>
      /\ clean' => clean /\ sel' = "FLASH" /\ Ready
  BY CsLowFacts
<1>1. TypeOK'
  BY <1>0 DEF TypeOK
<1>2. OpInv'
  BY <1>0 DEF OpInv
<1>3. BankInv' /\ SelInv' /\ AwakeInv'
  BY <1>0 DEF BankInv, Home, SelInv, AwakeInv
<1>4. StatusInv'
  BY <1>0 DEF StatusInv
<1>5. DoneInv'
  BY <1>0 DEF DoneInv, SelInv
<1> QED BY <1>1, <1>2, <1>3, <1>4, <1>5

LEMMA CmdSendKeeps == FlashInv /\ CmdSend => FlashInv'
<1> SUFFICES ASSUME FlashInv, CmdSend PROVE FlashInv'
  OBVIOUS
<1> USE DEF FlashInv, CmdSend, Start, Goto, Ready, TimesOut, call, poll, Commands,
            Writes, CommandPCs, PollPCs
<1>1. TypeOK'
  <2>1. Head(cmds) \in Bytes
    BY DEF OpInv, Bytes
  <2>2. flight' \in Flights /\ idx' \in { 0, 1 }
    BY <2>1 DEF TypeOK, Flights
  <2>3. /\ pc' \in { "cmd_sent", "cmd_high" } /\ ok' = FALSE
        /\ UNCHANGED << call, clean, sel, rx, chip, poll >>
    OBVIOUS
  <2>4. /\ sel' \in { "NONE", "TF", "FLASH" } /\ bx' \in { 0, 1 } /\ chip' \in Chips
        /\ rx' \in [ { 0, 1 } -> { "junk", "busy", "ready" } ] /\ clean' \in BOOLEAN
    BY <2>3 DEF TypeOK, Chips
  <2>5. /\ stack' \in Seq({ "ip", "ds", "port", "bank", "rom1" }) /\ Len(stack') <= 4
        /\ ram' \in { "APP", "TX" } /\ rom1' \in { "APP", "RX", "BAD" }
    BY <2>3 DEF TypeOK
  <2>6. /\ op' \in Operations \cup { "none" } /\ left' \in 0 .. MaxChunks
        /\ cmds' \in Seq(Commands \cup { "UNLOCK" }) /\ Len(cmds') <= 2
        /\ calls' \in 0 .. MaxCalls
    BY <2>3 DEF TypeOK
  <2> HIDE DEF CmdSend, Commands, FlashInv
  <2> QED BY <2>2, <2>3, <2>4, <2>5, <2>6 DEF TypeOK, Flights, Chips
<1>2. OpInv'
  BY DEF OpInv
<1>3. BankInv' /\ SelInv' /\ AwakeInv'
  BY DEF BankInv, Home, SelInv, OpInv, Bytes, AwakeInv
<1>4. StatusInv'
  BY DEF StatusInv
<1>5. DoneInv'
  BY DEF DoneInv, OpInv, Hears
<1> QED BY <1>1, <1>2, <1>3, <1>4, <1>5

LEMMA CmdSentKeeps == FlashInv /\ CmdSent => FlashInv'
<1> SUFFICES ASSUME FlashInv, CmdSent PROVE FlashInv'
  OBVIOUS
<1> USE DEF FlashInv, CmdSent, Goto, Ready, call, poll, CommandPCs, PollPCs
<1>1. TypeOK'
  <2>1. pc' = "cmd_high" /\ ok' \in BOOLEAN
    OBVIOUS
  <2> QED BY <2>1 DEF TypeOK
<1>2. OpInv'
  BY DEF OpInv
<1>3. BankInv' /\ SelInv' /\ AwakeInv'
  BY DEF BankInv, Home, SelInv, AwakeInv
<1>4. StatusInv'
  BY DEF StatusInv
<1>5. DoneInv'
  BY DEF DoneInv, Hears, NoFlight
<1> QED BY <1>1, <1>2, <1>3, <1>4, <1>5

LEMMA CmdHighKeeps == FlashInv /\ CmdHigh => FlashInv'
<1> SUFFICES ASSUME FlashInv, CmdHigh PROVE FlashInv'
  OBVIOUS
<1> USE DEF FlashInv, CmdHigh, AfterCommand, Goto, poll, Commands, Writes, CommandPCs,
            PollPCs
<1>0. /\ sel' = "NONE" /\ idx' = 0 /\ rx' = rx
      /\ chip' \in Chips /\ chip'.frame = << >>
      /\ flight' \in Flights /\ flight'.dev # "FLASH"
      /\ /\ ~chip.asleep
         /\ chip.frame # << "SLEEP" >>
         /\ flight.dev = "FLASH" => flight.what # "SLEEP"
         => ~chip'.asleep
      /\ sel = "FLASH" /\ Ready => chip' = Executed(chip.frame)
      /\ sel # "FLASH" => chip' = chip
  BY CsHighFacts
<1>1. TypeOK'
  <2>1. cmds' \in Seq(Commands \cup { "UNLOCK" }) /\ Len(cmds') <= 2
    <3>1. cmds # << >>
      BY DEF OpInv
    <3> QED BY <3>1 DEF TypeOK
  <2>2. pc' \in { "cmd_low", "idle", "low", "exit" } /\ ok' \in BOOLEAN
    BY DEF TypeOK
  <2> QED BY <1>0, <2>1, <2>2 DEF TypeOK, Chips, Flights
<1>2. OpInv'
  <2>1. CASE op \in Commands
    <3>1. Len(cmds) = 1
      BY <2>1 DEF OpInv
    <3> QED BY <2>1, <3>1 DEF OpInv
  <2>2. CASE op \in Writes
    <3>1. Len(cmds) = 1
      BY <2>2 DEF OpInv
    <3> QED BY <2>2, <3>1 DEF OpInv
  <2>3. CASE op = "unlock"
    <3>1. cmds = << "UNLOCK" >> => Len(cmds) = 1
      OBVIOUS
    <3>2. cmds = << "WREN", "UNLOCK" >> => Tail(cmds) = << "UNLOCK" >>
      OBVIOUS
    <3> QED BY <2>3, <3>1, <3>2 DEF OpInv
  <2> QED BY <2>1, <2>2, <2>3 DEF OpInv
<1>3. BankInv' /\ SelInv' /\ AwakeInv'
  BY <1>0 DEF BankInv, Home, SelInv, AwakeInv
<1>4. StatusInv'
  BY <1>0 DEF StatusInv, OpInv
<1>5. DoneInv'
  <2> SUFFICES ASSUME op \in Writes, clean PROVE DoneInv'
    BY DEF DoneInv
  <2>1. CASE ~ok
    BY <2>1 DEF DoneInv
  <2>2. CASE ok
    <3>1. sel = "FLASH" /\ Ready /\ chip.frame = << "WREN" >> /\ ~chip.busy
      BY <2>2 DEF DoneInv
    <3>2. ~chip.asleep /\ chip.frame \in Seq(Bytes) /\ ok' = FALSE
      BY DEF AwakeInv, TypeOK
    <3>3. chip'.wel /\ ~chip'.busy
      BY <1>0, <3>1, <3>2, ExecutedFacts
    <3>4. pc' = "low"
      BY <2>2, <3>1 DEF OpInv
    <3> QED BY <3>2, <3>3, <3>4 DEF DoneInv
  <2> QED BY <2>1, <2>2 DEF TypeOK
<1> QED BY <1>1, <1>2, <1>3, <1>4, <1>5

LEMMA LowKeeps == FlashInv /\ Low => FlashInv'
<1> SUFFICES ASSUME FlashInv, Low PROVE FlashInv'
  OBVIOUS
<1> USE DEF FlashInv, Low, Goto, Ready, call, poll, CommandPCs, PollPCs
<1>0. /\ sel' \in { sel, "FLASH" } /\ idx' \in { 0, 1 } /\ clean' \in BOOLEAN
      /\ UNCHANGED << flight, rx, chip >>
      /\ clean' => clean /\ sel' = "FLASH" /\ Ready
  BY CsLowFacts
<1>1. TypeOK'
  BY <1>0 DEF TypeOK
<1>2. OpInv'
  BY <1>0 DEF OpInv
<1>3. BankInv' /\ SelInv' /\ AwakeInv'
  BY <1>0 DEF BankInv, Home, SelInv, AwakeInv
<1>4. StatusInv'
  BY <1>0 DEF StatusInv
<1>5. DoneInv'
  BY <1>0 DEF DoneInv, SelInv
<1> QED BY <1>1, <1>2, <1>3, <1>4, <1>5

LEMMA SendKeeps == FlashInv /\ Send => FlashInv'
<1> SUFFICES ASSUME FlashInv, Send PROVE FlashInv'
  OBVIOUS
<1> USE DEF FlashInv, Send, Start, Fails, Goto, Ready, TimesOut, call, poll, Writes,
            Reads, CommandPCs, PollPCs
<1>1. TypeOK'
  BY DEF TypeOK, OpInv, Bytes
<1>2. OpInv'
  BY DEF OpInv
<1>3. BankInv' /\ SelInv' /\ AwakeInv'
  BY DEF BankInv, Home, SelInv, OpInv, Bytes, AwakeInv, Header
<1>4. StatusInv'
  BY DEF StatusInv
<1>5. DoneInv'
  BY DEF DoneInv, Hears, Header
<1> QED BY <1>1, <1>2, <1>3, <1>4, <1>5

LEMMA SendDataKeeps == FlashInv /\ SendData => FlashInv'
<1> SUFFICES ASSUME FlashInv, SendData PROVE FlashInv'
  OBVIOUS
<1> USE DEF FlashInv, SendData, Start, Fails, Goto, Ready, TimesOut, call, poll,
            Writes, CommandPCs
<1>1. TypeOK'
  BY DEF TypeOK, Bytes
<1>2. OpInv'
  BY DEF OpInv
<1>3. BankInv' /\ SelInv' /\ AwakeInv'
  BY DEF BankInv, Home, SelInv, Bytes, AwakeInv
<1>4. StatusInv'
  BY DEF StatusInv
<1>5. DoneInv'
  BY DEF DoneInv, OpInv, StatusInv, Hears, NoFlight
<1> QED BY <1>1, <1>2, <1>3, <1>4, <1>5

LEMMA SentKeeps == FlashInv /\ Sent => FlashInv'
<1> SUFFICES ASSUME FlashInv, Sent PROVE FlashInv'
  OBVIOUS
<1> USE DEF FlashInv, Sent, Fails, Goto, Ready, call, poll, CommandPCs
<1>1. TypeOK'
  BY DEF TypeOK
<1>2. OpInv'
  BY DEF OpInv
<1>3. BankInv' /\ SelInv' /\ AwakeInv'
  BY DEF BankInv, Home, SelInv, AwakeInv
<1>4. StatusInv'
  BY DEF StatusInv
<1>5. DoneInv'
  <2> SUFFICES ASSUME op \in Writes, clean PROVE DoneInv'
    BY DEF DoneInv
  <2>1. CASE pc' = "exit"
    BY <2>1 DEF DoneInv, StatusInv
  <2>2. CASE pc' = "high" /\ Ready /\ UNCHANGED << idx, flight >>
    <3>1. chip.frame = Whole
      BY <2>2 DEF DoneInv, Hears, Whole, Header, NoFlight
    <3> QED BY <2>2, <3>1 DEF DoneInv, Hears, Whole
  <2> QED BY <2>1, <2>2
<1> QED BY <1>1, <1>2, <1>3, <1>4, <1>5

LEMMA ExchangedKeeps == FlashInv /\ Exchanged => FlashInv'
<1> SUFFICES ASSUME FlashInv, Exchanged PROVE FlashInv'
  OBVIOUS
<1> USE DEF FlashInv, Exchanged, Goto, call, poll, Writes, CommandPCs, PollPCs
<1>1. TypeOK'
  BY DEF TypeOK
<1>2. OpInv'
  BY DEF OpInv
<1>3. BankInv' /\ SelInv' /\ AwakeInv'
  BY DEF BankInv, Home, SelInv, AwakeInv
<1>4. StatusInv'
  BY DEF StatusInv
<1>5. DoneInv'
  BY DEF DoneInv
<1> QED BY <1>1, <1>2, <1>3, <1>4, <1>5

LEMMA RecvKeeps == FlashInv /\ Recv => FlashInv'
<1> SUFFICES ASSUME FlashInv, Recv PROVE FlashInv'
  OBVIOUS
<1> USE DEF FlashInv, Recv, Start, Goto, call, poll, Writes, Reads, CommandPCs, PollPCs
<1>1. TypeOK'
  <2>1. CASE pc' = "received" /\ Start("CLOCK") /\ UNCHANGED ok
    BY <2>1 DEF TypeOK, Bytes
  <2>2. CASE pc' = "exit" /\ ok' = TRUE /\ UNCHANGED << idx, flight >>
    BY <2>2 DEF TypeOK
  <2> QED BY <2>1, <2>2
<1>2. OpInv'
  BY DEF OpInv
<1>3. BankInv' /\ SelInv' /\ AwakeInv'
  BY DEF BankInv, Home, SelInv, Bytes, AwakeInv
<1>4. StatusInv'
  BY DEF StatusInv, OpInv
<1>5. DoneInv'
  BY DEF DoneInv, OpInv
<1> QED BY <1>1, <1>2, <1>3, <1>4, <1>5

LEMMA ReceivedKeeps == FlashInv /\ Received => FlashInv'
<1> SUFFICES ASSUME FlashInv, Received PROVE FlashInv'
  OBVIOUS
<1> USE DEF FlashInv, Received, Goto, poll, CommandPCs, PollPCs
<1>1. TypeOK'
  BY FlashAssumption DEF TypeOK, OpInv
<1>2. OpInv'
  BY DEF OpInv
<1>3. BankInv' /\ SelInv' /\ AwakeInv'
  BY DEF BankInv, Home, SelInv, AwakeInv
<1>4. StatusInv'
  BY DEF StatusInv
<1>5. DoneInv'
  BY DEF DoneInv
<1> QED BY <1>1, <1>2, <1>3, <1>4, <1>5

LEMMA RecvTimesOutKeeps == FlashInv /\ RecvTimesOut => FlashInv'
<1> SUFFICES ASSUME FlashInv, RecvTimesOut PROVE FlashInv'
  OBVIOUS
<1> USE DEF FlashInv, RecvTimesOut, poll, Writes, Reads, CommandPCs, PollPCs
<1>1. TypeOK'
  <2>1. left' \in 0 .. MaxChunks
    BY FlashAssumption DEF TypeOK
  <2>2. flight' \in { flight, NoFlight } /\ pc' \in { "recv", "exit" }
    OBVIOUS
  <2>3. ok' \in BOOLEAN
    <3>1. CASE ok' = ( op = "read_id" )
      BY <3>1
    <3>2. CASE UNCHANGED ok
      BY <3>2 DEF TypeOK
    <3> QED BY <3>1, <3>2
  <2> QED BY <2>1, <2>2, <2>3 DEF TypeOK, NoFlight
<1>2. OpInv'
  BY DEF OpInv
<1>3. BankInv' /\ SelInv' /\ AwakeInv'
  BY DEF BankInv, Home, SelInv, NoFlight, AwakeInv
<1>4. StatusInv'
  BY DEF StatusInv, OpInv
<1>5. DoneInv'
  <2>1. op \notin Writes
    BY DEF OpInv
  <2> QED BY <2>1 DEF DoneInv
<1> QED BY <1>1, <1>2, <1>3, <1>4, <1>5

LEMMA HighKeeps == FlashInv /\ High => FlashInv'
<1> SUFFICES ASSUME FlashInv, High PROVE FlashInv'
  OBVIOUS
<1> USE DEF FlashInv, High, Goto, Ready, TimesOut, call, poll, Writes, CommandPCs
<1>0. /\ sel' = "NONE" /\ idx' = 0 /\ rx' = rx
      /\ chip' \in Chips /\ chip'.frame = << >>
      /\ flight' \in Flights /\ flight'.dev # "FLASH"
      /\ /\ ~chip.asleep
         /\ chip.frame # << "SLEEP" >>
         /\ flight.dev = "FLASH" => flight.what # "SLEEP"
         => ~chip'.asleep
      /\ sel = "FLASH" /\ Ready => chip' = Executed(chip.frame)
      /\ sel # "FLASH" => chip' = chip
  BY CsHighFacts
<1>1. TypeOK'
  BY <1>0 DEF TypeOK, Chips, Flights
<1>2. OpInv'
  BY <1>0 DEF OpInv
<1>3. BankInv' /\ SelInv' /\ AwakeInv'
  BY <1>0 DEF BankInv, Home, SelInv, AwakeInv
<1>4. StatusInv'
  BY <1>0 DEF StatusInv
<1>5. DoneInv'
  <2> SUFFICES ASSUME op \in Writes, clean PROVE DoneInv'
    BY DEF DoneInv
  <2>1. /\ sel = "FLASH" /\ Ready /\ chip.frame = Whole /\ chip.wel
    BY DEF DoneInv
  <2>2. ~chip.asleep /\ chip.frame \in Seq(Bytes)
    BY DEF AwakeInv, TypeOK
  <2>3. Whole \in { << "ERASE" >>, << "WRSR" >>, << "WRITE", "DATA" >> }
    BY DEF Whole, Header
  <2>4. chip'.busy /\ chip'.doing = calls
    BY <1>0, <2>1, <2>2, <2>3, ExecutedFacts
  <2> QED BY <2>4 DEF DoneInv
<1> QED BY <1>1, <1>2, <1>3, <1>4, <1>5

LEMMA ExitKeeps == FlashInv /\ Exit => FlashInv'
<1> SUFFICES ASSUME FlashInv, Exit PROVE FlashInv'
  OBVIOUS
<1> USE DEF FlashInv, Exit, Goto, Ready, TimesOut, call, poll, Reads, CommandPCs,
            PollPCs
<1>0. /\ sel' = "NONE" /\ idx' = 0 /\ rx' = rx
      /\ chip' \in Chips /\ chip'.frame = << >>
      /\ flight' \in Flights /\ flight'.dev # "FLASH"
      /\ /\ ~chip.asleep
         /\ chip.frame # << "SLEEP" >>
         /\ flight.dev = "FLASH" => flight.what # "SLEEP"
         => ~chip'.asleep
      /\ sel = "FLASH" /\ Ready => chip' = Executed(chip.frame)
      /\ sel # "FLASH" => chip' = chip
  BY CsHighFacts
<1>1. TypeOK'
  BY <1>0 DEF TypeOK, Chips, Flights
<1>2. OpInv'
  BY <1>0 DEF OpInv
<1>3. BankInv' /\ SelInv' /\ AwakeInv'
  BY <1>0 DEF BankInv, Home, SelInv, AwakeInv
<1>4. StatusInv'
  BY <1>0 DEF StatusInv, OpInv
<1>5. DoneInv'
  BY <1>0 DEF DoneInv, StatusInv
<1> QED BY <1>1, <1>2, <1>3, <1>4, <1>5

LEMMA AskOpenKeeps == FlashInv /\ AskOpen => FlashInv'
<1> SUFFICES ASSUME FlashInv, AskOpen PROVE FlashInv'
  OBVIOUS
<1> USE DEF FlashInv, AskOpen, Goto, call, CommandPCs, PollPCs
<1>1. TypeOK'
  BY DEF TypeOK
<1>2. OpInv'
  BY DEF OpInv
<1>3. BankInv' /\ SelInv' /\ AwakeInv'
  BY DEF BankInv, Asking, Home, SelInv, AwakeInv
<1>4. StatusInv'
  BY DEF StatusInv
<1>5. DoneInv'
  BY DEF DoneInv
<1> QED BY <1>1, <1>2, <1>3, <1>4, <1>5

LEMMA AskKeeps == FlashInv /\ Ask => FlashInv'
<1> SUFFICES ASSUME FlashInv, Ask PROVE FlashInv'
  OBVIOUS
<1> USE DEF FlashInv, Ask, Goto, call, CommandPCs, PollPCs
<1>1. TypeOK'
  BY DEF TypeOK, Bytes
<1>2. OpInv'
  BY DEF OpInv
<1>3. BankInv' /\ SelInv' /\ AwakeInv'
  BY DEF BankInv, Asking, SelInv, Bytes, AwakeInv
<1>4. StatusInv'
  BY DEF StatusInv, SelInv, Hears
<1>5. DoneInv'
  BY DEF DoneInv
<1> QED BY <1>1, <1>2, <1>3, <1>4, <1>5

LEMMA AskTimesOutKeeps == FlashInv /\ AskTimesOut => FlashInv'
<1> SUFFICES ASSUME FlashInv, AskTimesOut PROVE FlashInv'
  OBVIOUS
<1> USE DEF FlashInv, AskTimesOut, call, CommandPCs, PollPCs
<1>1. TypeOK'
  BY DEF TypeOK
<1>2. OpInv'
  BY DEF OpInv
<1>3. BankInv' /\ SelInv' /\ AwakeInv'
  BY DEF BankInv, Asking, SelInv, AwakeInv
<1>4. StatusInv'
  BY DEF StatusInv, OpInv
<1>5. DoneInv'
  BY DEF DoneInv, StatusInv
<1> QED BY <1>1, <1>2, <1>3, <1>4, <1>5

LEMMA AskedKeeps == FlashInv /\ Asked => FlashInv'
<1> SUFFICES ASSUME FlashInv, Asked PROVE FlashInv'
  OBVIOUS
<1> USE DEF FlashInv, Asked, Goto, Ready, call, CommandPCs, PollPCs
<1>1. TypeOK'
  BY DEF TypeOK
<1>2. OpInv'
  BY DEF OpInv
<1>3. BankInv' /\ SelInv' /\ AwakeInv'
  BY DEF BankInv, Polling, SelInv, AwakeInv
<1>4. StatusInv'
  BY DEF StatusInv, Hears, NoFlight
<1>5. DoneInv'
  BY DEF DoneInv
<1> QED BY <1>1, <1>2, <1>3, <1>4, <1>5

LEMMA PollReadKeeps == FlashInv /\ PollRead => FlashInv'
<1> SUFFICES ASSUME FlashInv, PollRead PROVE FlashInv'
  OBVIOUS
<1> USE DEF FlashInv, PollRead, Goto, Ready, call, CommandPCs, PollPCs
<1>1. TypeOK'
  BY DEF TypeOK, Bytes
<1>2. OpInv'
  BY DEF OpInv
<1>3. BankInv' /\ SelInv' /\ AwakeInv'
  BY DEF BankInv, Polling, SelInv, Bytes, AwakeInv
<1>4. StatusInv'
  BY DEF StatusInv, NoFlight
<1>5. DoneInv'
  BY DEF DoneInv
<1> QED BY <1>1, <1>2, <1>3, <1>4, <1>5

LEMMA PollTestKeeps == FlashInv /\ PollTest => FlashInv'
<1> SUFFICES ASSUME FlashInv, PollTest PROVE FlashInv'
  OBVIOUS
<1> USE DEF FlashInv, PollTest, Goto, Ready, TimesOut, call, poll, CommandPCs, PollPCs
<1>1. TypeOK'
  <2>1. CASE pc' = "poll_read" /\ UNCHANGED ok
    BY <2>1 DEF TypeOK
  <2>2. CASE pc' = "poll_leave" /\ ok' = TRUE
    BY <2>2 DEF TypeOK
  <2> QED BY <2>1, <2>2
<1>2. OpInv'
  BY DEF OpInv
<1>3. BankInv' /\ SelInv' /\ AwakeInv'
  BY DEF BankInv, Polling, SelInv, AwakeInv
<1>4. StatusInv'
  BY DEF StatusInv, TypeOK
<1>5. DoneInv'
  BY DEF DoneInv, StatusInv, TypeOK
<1> QED BY <1>1, <1>2, <1>3, <1>4, <1>5

LEMMA PollTimesOutKeeps == FlashInv /\ PollTimesOut => FlashInv'
<1> SUFFICES ASSUME FlashInv, PollTimesOut PROVE FlashInv'
  OBVIOUS
<1> USE DEF FlashInv, PollTimesOut, Goto, call, poll, CommandPCs, PollPCs
<1>1. TypeOK'
  BY DEF TypeOK
<1>2. OpInv'
  BY DEF OpInv
<1>3. BankInv' /\ SelInv' /\ AwakeInv'
  BY DEF BankInv, Polling, SelInv, AwakeInv
<1>4. StatusInv'
  BY DEF StatusInv, OpInv
<1>5. DoneInv'
  BY DEF DoneInv, StatusInv
<1> QED BY <1>1, <1>2, <1>3, <1>4, <1>5

LEMMA PollLeaveKeeps == FlashInv /\ PollLeave => FlashInv'
<1> SUFFICES ASSUME FlashInv, PollLeave PROVE FlashInv'
  OBVIOUS
<1> USE DEF FlashInv, PollLeave, call, CommandPCs, PollPCs
<1>0. /\ sel' = "NONE" /\ chip' \in Chips /\ chip'.frame = << >>
      /\ /\ ~chip.asleep
         /\ chip.frame # << "SLEEP" >>
         /\ flight.dev = "FLASH" => flight.what # "SLEEP"
         => ~chip'.asleep
      /\ sel = "FLASH" /\ Ready => chip' = Executed(chip.frame)
  BY DeselectFacts
<1>8. Asking => /\ stack' \in Seq(Words) /\ Len(stack') = 1
                /\ rom1' = "BAD" /\ pc' = "lost"
  BY LeaveAsking
<1>9. Polling => /\ stack' = << >> /\ rom1' = "APP"
                 /\ pc' = IF op = "wait" THEN "idle" ELSE "exit"
  BY LeavePolling
<1>10. Asking \/ Polling
  BY DEF BankInv
<1>11. /\ idx' = bx /\ flight' = Dummy(1 - bx)
       /\ UNCHANGED << call, ok, clean, rx, bx, ram >> /\ pc = "poll_leave"
  OBVIOUS
<1> HIDE DEF PollLeave
<1>1. TypeOK'
  <2>1. stack' \in Seq(Words) /\ Len(stack') <= 4
    <3>1. CASE Asking
      <4>1. stack' \in Seq(Words) /\ Len(stack') = 1
        BY <1>8, <3>1, Zenon
      <4> QED BY <4>1
    <3>2. CASE Polling
      <4>1. stack' = << >>
        BY <1>9, <3>2
      <4> QED BY <4>1
    <3> QED BY <1>10, <3>1, <3>2
  <2>2. pc' \in { "lost", "idle", "exit" } /\ rom1' \in { "APP", "BAD" }
    BY <1>8, <1>9, <1>10
  <2> QED BY <1>0, <1>11, <2>1, <2>2 DEF TypeOK, Chips, Dummy, Words
<1>2. OpInv'
  BY <1>0, <1>8, <1>9, <1>10, <1>11 DEF OpInv
<1>3. BankInv' /\ SelInv' /\ AwakeInv'
  BY <1>0, <1>8, <1>9, <1>10, <1>11 DEF BankInv, Home, Polling, SelInv, Dummy, AwakeInv
<1>4. StatusInv'
  <2>1. ok => ~chip'.busy
    BY <1>0, <1>11, ExecutedFacts DEF StatusInv, TypeOK
  <2> QED BY <1>0, <1>8, <1>9, <1>10, <1>11, <2>1 DEF StatusInv
<1>5. DoneInv'
  <2>1. ok => chip'.done = chip.done
    BY <1>0, <1>11, ExecutedFacts DEF StatusInv, TypeOK
  <2> QED BY <1>0, <1>8, <1>9, <1>10, <1>11, <2>1 DEF DoneInv
<1> QED BY <1>1, <1>2, <1>3, <1>4, <1>5

LEMMA ClientKeeps == FlashInv /\ Client => FlashInv'
<1> SUFFICES ASSUME FlashInv, Client PROVE FlashInv'
  OBVIOUS
<1> USE DEF FlashInv, Client, Goto, Ready, TimesOut, call, poll, Commands, Writes,
            Reads, CommandPCs, PollPCs
<1>0. PICK o \in Operations, n \in 0 .. MaxChunks : Call(o, n)
  OBVIOUS
<1>8. o \in AllOperations
  BY FlashAssumption
<1> HIDE DEF Client
<1>9. /\ pc = "idle" /\ calls < MaxCalls /\ (chip.asleep => o = "WAKE_ID") /\ op' = o
      /\ calls' = calls + 1 /\ ok' = FALSE /\ clean' = ~chip.busy
      /\ left' = IF o = "read" THEN n ELSE 0
      /\ UNCHANGED << sel, idx, flight, rx, chip, poll >>
  BY <1>0 DEF Call
<1>10. \/ o \in Commands /\ cmds' = << o >> /\ pc' = "cmd_low"
       \/ o \in Writes /\ cmds' = << "WREN" >> /\ pc' = "cmd_low"
       \/ o = "unlock" /\ cmds' = << "WREN", "UNLOCK" >> /\ pc' = "cmd_low"
       \/ o = "wait" /\ cmds' = << >> /\ pc' = "ask_open"
       \/ o \in Reads /\ cmds' = << >> /\ pc' = "low"
  BY <1>0, <1>8 DEF Call, AllOperations
<1>1. TypeOK'
  <2>1. cmds' \in Seq(Commands \cup { "UNLOCK" }) /\ Len(cmds') <= 2
    <3>1. CASE o \in Commands
      <4>1. cmds' = << o >>
        BY <1>10, <3>1
      <4> QED BY <3>1, <4>1
    <3>2. CASE o \in Writes
      <4>1. cmds' = << "WREN" >>
        BY <1>10, <3>2
      <4> QED BY <4>1
    <3>3. CASE o = "unlock"
      <4>1. cmds' = << "WREN", "UNLOCK" >>
        BY <1>10, <3>3
      <4> QED BY <4>1
    <3>4. CASE o \in Reads \cup { "wait" }
      <4>1. cmds' = << >>
        BY <1>10, <3>4
      <4> QED BY <4>1
    <3> QED BY <1>10, <3>1, <3>2, <3>3, <3>4
  <2>2. calls' \in 0 .. MaxCalls /\ left' \in 0 .. MaxChunks /\ clean' \in BOOLEAN
    BY FlashAssumption, <1>9 DEF TypeOK
  <2>3. pc' \in { "cmd_low", "ask_open", "low" } /\ ok' = FALSE /\ op' \in Operations
    BY <1>0, <1>9, <1>10
  <2>4. /\ sel' \in { "NONE", "TF", "FLASH" } /\ idx' \in { 0, 1 } /\ bx' \in { 0, 1 }
        /\ flight' \in Flights /\ chip' \in Chips
        /\ rx' \in [ { 0, 1 } -> { "junk", "busy", "ready" } ]
    BY <1>9 DEF TypeOK, Flights, Chips
  <2>5. /\ stack' \in Seq({ "ip", "ds", "port", "bank", "rom1" }) /\ Len(stack') <= 4
        /\ ram' \in { "APP", "TX" } /\ rom1' \in { "APP", "RX", "BAD" }
    BY <1>9 DEF TypeOK
  <2> HIDE DEF Commands, FlashInv
  <2> QED BY <2>1, <2>2, <2>3, <2>4, <2>5 DEF TypeOK, Flights, Chips
<1>2. OpInv'
  <2>1. calls' > 0
    BY <1>9 DEF TypeOK
  <2>2. pc' \in CommandPCs => o \in Commands \cup Writes \cup { "unlock" }
    BY <1>10
  <2> QED BY <1>9, <1>10, <2>1, <2>2 DEF OpInv
<1>3. BankInv' /\ SelInv' /\ AwakeInv'
  BY <1>9, <1>10 DEF BankInv, Home, SelInv, AwakeInv, NoFlight
<1>4. StatusInv'
  BY <1>9, <1>10 DEF StatusInv
<1>5. DoneInv'
  BY <1>9, <1>10 DEF DoneInv
<1> QED BY <1>1, <1>2, <1>3, <1>4, <1>5

LEMMA OthersKeeps == FlashInv /\ Others => FlashInv'
<1> SUFFICES ASSUME FlashInv, Others PROVE FlashInv'
  OBVIOUS
<1> USE DEF FlashInv, Others, Goto, Ready, call, poll
<1>1. TypeOK'
  BY DEF TypeOK, Bytes
<1>2. OpInv'
  BY DEF OpInv
<1>3. BankInv' /\ SelInv' /\ AwakeInv'
  BY DEF BankInv, Home, SelInv, AwakeInv
<1>4. StatusInv'
  BY DEF StatusInv
<1>5. DoneInv'
  BY DEF DoneInv
<1> QED BY <1>1, <1>2, <1>3, <1>4, <1>5

LEMMA HwEndsKeeps == FlashInv /\ HwEnds => FlashInv'
<1> SUFFICES ASSUME FlashInv, HwEnds PROVE FlashInv'
  OBVIOUS
<1> USE DEF FlashInv, HwEnds, Ready, call, poll, Writes, CommandPCs, PollPCs
<1>0. /\ ~Ready /\ flight' = NoFlight /\ rx' = [ rx EXCEPT ![flight.buf] = Status ]
      /\ UNCHANGED << pc, call, ok, clean, sel, idx, poll >>
  OBVIOUS
<1>8. /\ chip' \in Chips /\ chip.frame \in Seq(Bytes)
      /\ chip'.wel = chip.wel /\ chip'.busy = chip.busy /\ chip'.asleep = chip.asleep
      /\ chip'.doing = chip.doing /\ chip'.done = chip.done
      /\ chip'.frame = IF flight.dev = "FLASH" THEN Heard(chip.frame, flight.what)
                                              ELSE chip.frame
  <2>1. chip \in Chips
    BY DEF TypeOK, Chips
  <2>2. flight.dev = "FLASH" => Heard(chip.frame, flight.what) \in Seq(Bytes)
    BY <2>1, HeardFacts DEF SelInv, Chips
  <2> QED BY <2>1, <2>2 DEF Chips
<1> HIDE DEF HwEnds
<1>1. TypeOK'
  <2>1. Status \in { "junk", "busy", "ready" }
    BY DEF Status
  <2>2. rx' \in [ { 0, 1 } -> { "junk", "busy", "ready" } ]
    BY <1>0, <2>1 DEF TypeOK
  <2> QED BY <1>0, <1>8, <2>2 DEF TypeOK, Chips, NoFlight
<1>2. OpInv'
  BY <1>0, <1>8 DEF OpInv
<1>3. BankInv'
  BY <1>0, <1>8 DEF BankInv, Asking, Polling, Home
<1>4. SelInv'
  BY <1>0, <1>8 DEF SelInv, NoFlight
<1>5. AwakeInv'
  <2> SUFFICES ASSUME op \in Writes \cup { "wait" } PROVE chip'.frame # << "SLEEP" >>
    BY <1>0, <1>8 DEF AwakeInv, NoFlight
  <2>1. CASE flight.dev = "FLASH"
    BY <1>8, <2>1, HeardFacts DEF AwakeInv, SelInv
  <2>2. CASE flight.dev # "FLASH"
    BY <1>8, <2>2 DEF AwakeInv
  <2> QED BY <2>1, <2>2
<1>6. StatusInv'
  <2>1. CASE pc = "asked"
    <3>1. Heard(<< >>, "RDSR") = << "RDSR" >> /\ Append(<< >>, "RDSR") = << "RDSR" >>
      BY DEF Heard
    <3> QED BY <1>0, <1>8, <2>1, <3>1 DEF StatusInv, Hears
  <2>2. CASE pc = "poll_wait"
    <3>1. /\ sel = "FLASH" /\ chip.frame = << "RDSR" >> /\ ~chip.asleep
          /\ flight = [ dev |-> "FLASH", what |-> "CLOCK", buf |-> bx ]
      BY <1>0, <2>2 DEF StatusInv, OpInv, AwakeInv
    <3>2. Status = IF chip.busy THEN "busy" ELSE "ready"
      BY <3>1 DEF Status
    <3>3. rx'[bx] = Status /\ bx' = bx
      BY <1>0, <3>1 DEF TypeOK
    <3>4. chip'.frame = << "RDSR" >>
      BY <1>8, <3>1 DEF Heard
    <3>5. op' = op /\ ok' = ok /\ sel' = sel /\ pc' = pc
      BY <1>0
    <3> QED BY <1>0, <1>8, <2>2, <3>1, <3>2, <3>3, <3>4, <3>5 DEF StatusInv
  <2>3. CASE pc \notin { "asked", "poll_wait" }
    BY <1>0, <1>8, <2>3 DEF StatusInv
  <2> QED BY <2>1, <2>2, <2>3
<1>7. DoneInv'
  <2> SUFFICES ASSUME op \in Writes, clean PROVE DoneInv'
    BY <1>0 DEF DoneInv
  <2>1. ASSUME NEW before, NEW w, Hears(before, w), ~chip.busy,
               before = << >> \/ before = << "WRITE" >>, w # "CLOCK"
        PROVE  Hears(before, w)'
    <3>1. flight.dev = "FLASH" /\ flight.what = w /\ chip.frame = before /\ sel = "FLASH"
      BY <1>0, <2>1 DEF Hears
    <3>2. Heard(before, w) = Append(before, w)
      BY <2>1, <3>1 DEF Heard
    <3> QED BY <1>0, <1>8, <3>1, <3>2 DEF Hears
  <2>2. CASE pc \in { "cmd_sent", "send_data", "sent" }
    <3>1. Header[op] # "CLOCK" /\ Header' = Header
      BY DEF Header
    <3> QED BY <1>0, <1>8, <2>1, <2>2, <3>1 DEF DoneInv
  <2>3. CASE pc \notin { "cmd_sent", "send_data", "sent" }
    BY <1>0, <1>8, <2>3 DEF DoneInv
  <2> QED BY <2>2, <2>3
<1> QED BY <1>1, <1>2, <1>3, <1>4, <1>5, <1>6, <1>7

LEMMA ChipDoneKeeps == FlashInv /\ ChipDone => FlashInv'
<1> SUFFICES ASSUME FlashInv, ChipDone PROVE FlashInv'
  OBVIOUS
<1> USE DEF FlashInv, ChipDone, Ready, call, poll, CommandPCs
<1>0. /\ chip.busy
      /\ UNCHANGED << pc, call, ok, clean, sel, idx, flight, rx, poll >>
  OBVIOUS
<1>8. /\ chip' \in Chips /\ ~chip'.busy /\ chip'.asleep = chip.asleep
      /\ chip'.frame = chip.frame
      /\ chip.doing > 0 => chip'.done = chip.doing
      /\ chip.doing = 0 => chip'.done = chip.done
  <2>1. chip \in Chips /\ 0 \in 0 .. MaxCalls
    BY FlashAssumption DEF TypeOK, Chips
  <2>2. chip.doing \in 0 .. MaxCalls
    BY <2>1 DEF Chips
  <2>3. chip' \in Chips
    BY <2>1, <2>2 DEF Chips
  <2> QED BY <2>1, <2>2, <2>3 DEF Chips
<1> HIDE DEF ChipDone
<1>1. TypeOK'
  BY <1>0, <1>8 DEF TypeOK, Chips
<1>2. OpInv'
  BY <1>0, <1>8 DEF OpInv
<1>3. BankInv' /\ SelInv' /\ AwakeInv'
  BY <1>0, <1>8 DEF BankInv, Asking, Polling, Home, SelInv, AwakeInv
<1>4. StatusInv'
  BY <1>0, <1>8 DEF StatusInv, Hears
<1>5. DoneInv'
  BY <1>0, <1>8 DEF DoneInv, StatusInv, OpInv
<1> QED BY <1>1, <1>2, <1>3, <1>4, <1>5

----------------------------------------------------------------------------
(***************************************************************************)
(* The theorems.                                                           *)
(***************************************************************************)
LEMMA FlashInit == Init => FlashInv
<1> SUFFICES ASSUME Init PROVE FlashInv
  OBVIOUS
<1>1. TypeOK
  <2>1. /\ cmds \in Seq(Commands \cup { "UNLOCK" }) /\ Len(cmds) <= 2
        /\ stack \in Seq({ "ip", "ds", "port", "bank", "rom1" }) /\ Len(stack) <= 4
    <3>1. cmds = << >> /\ stack = << >>
      BY DEF Init
    <3> QED BY <3>1
  <2>2. 0 \in 0 .. MaxChunks /\ 0 \in 0 .. MaxCalls
    BY FlashAssumption
  <2>3. chip \in Chips
    BY <2>2 DEF Init, Chips
  <2>4. flight \in Flights
    BY DEF Init, NoFlight, Flights
  <2>5. /\ pc = "idle" /\ op = "none" /\ left = 0 /\ ok = FALSE /\ clean = TRUE
        /\ calls = 0 /\ sel = "NONE" /\ idx \in { 0, 1 } /\ bx = 0
        /\ ram = "APP" /\ rom1 = "APP"
        /\ rx \in [ { 0, 1 } -> { "junk", "busy", "ready" } ]
    BY DEF Init
  <2> QED BY <2>1, <2>2, <2>3, <2>4, <2>5 DEF TypeOK, Chips, Flights
<1>2. OpInv /\ BankInv
  BY DEF Init, OpInv, BankInv, Home, CommandPCs, PollPCs
<1>3. SelInv /\ AwakeInv
  BY DEF Init, SelInv, AwakeInv, NoFlight
<1>4. StatusInv /\ DoneInv
  BY DEF Init, StatusInv, DoneInv, Writes, CommandPCs
<1> QED BY <1>1, <1>2, <1>3, <1>4 DEF FlashInv

LEMMA FlashNext == FlashInv /\ [Next]_vars => FlashInv'
<1> SUFFICES ASSUME FlashInv, [Next]_vars PROVE FlashInv'
  OBVIOUS
<1>1. CASE CpuStep
  BY <1>1, CmdLowKeeps, CmdSendKeeps, CmdSentKeeps, CmdHighKeeps, LowKeeps, SendKeeps,
     SendDataKeeps, SentKeeps, ExchangedKeeps, RecvKeeps, ReceivedKeeps,
     RecvTimesOutKeeps, HighKeeps, ExitKeeps, AskOpenKeeps, AskKeeps, AskTimesOutKeeps,
     AskedKeeps, PollReadKeeps, PollTestKeeps, PollTimesOutKeeps, PollLeaveKeeps
  DEF CpuStep
<1>2. CASE Client \/ Others \/ HwEnds \/ ChipDone
  BY <1>2, ClientKeeps, OthersKeeps, HwEndsKeeps, ChipDoneKeeps
<1>3. CASE UNCHANGED vars
  <2> USE <1>3 DEF vars, call, poll
  <2>1. TypeOK'
    BY DEF FlashInv, TypeOK
  <2>2. OpInv' /\ BankInv' /\ SelInv' /\ AwakeInv'
    BY DEF FlashInv, OpInv, BankInv, Asking, Polling, Home, SelInv, AwakeInv
  <2>3. StatusInv' /\ DoneInv'
    BY DEF FlashInv, StatusInv, DoneInv, Hears, Whole, Ready
  <2> QED BY <2>1, <2>2, <2>3 DEF FlashInv
<1> QED BY <1>1, <1>2, <1>3 DEF Next

\* The invariant holds whatever the calls are, and whichever waits time out.
THEOREM FlashInvariant == Spec => []FlashInv
BY FlashInit, FlashNext, PTL DEF Spec

\* TypeOK: every variable keeps its type.
THEOREM FlashTypeCorrect == Spec => []TypeOK
<1>1. FlashInv => TypeOK
  BY DEF FlashInv
<1> QED BY <1>1, FlashInvariant, PTL

\* TrueMeansDone: an erase or a write (nile_flash_write_page.c,
\* __nile_flash_write_sr.c, __nile_flash_erase_address.c) that returns true, on a
\* chip found idle and selected each time, has been executed by the chip.
THEOREM WrittenIsDone == Spec => []TrueMeansDone
<1>1. FlashInv => TrueMeansDone
  BY DEF FlashInv, DoneInv, TrueMeansDone
<1> QED BY <1>1, FlashInvariant, PTL

\* TrueMeansReady: a call that waits (nile_flash_wait_ready.s) and returns true
\* leaves the chip ready, whatever happened before.
THEOREM WaitedIsReady == Spec => []TrueMeansReady
<1>1. FlashInv => TrueMeansReady
  BY DEF FlashInv, StatusInv, TrueMeansReady
<1> QED BY <1>1, FlashInvariant, PTL

\* CallEndsClean: a call that returns leaves the chip deselected, its frame empty,
\* and the banks and the stack as they were, whichever of its waits timed out.
THEOREM EndsClean == Spec => []CallEndsClean
<1>1. FlashInv => CallEndsClean
  BY DEF FlashInv, SelInv, BankInv, Home, CallEndsClean
<1> QED BY <1>1, FlashInvariant, PTL

\* ComesBack: where the two waits before the loop of nile_flash_wait_ready.s do not
\* time out, it always returns to its caller; flash_early_exit shows that it need
\* not where they do.
THEOREM AlwaysComesBack ==
    ASSUME "ask" \notin Timeouts
    PROVE  Spec => []ComesBack
<1> DEFINE Safe == ComesBack /\ (pc = "poll_leave" => Polling)
<1>1. Init => Safe
  BY DEF Init, ComesBack
<1>2. FlashInv /\ Safe /\ [Next]_vars => Safe'
  <2> SUFFICES ASSUME FlashInv, Safe, [Next]_vars PROVE Safe'
    OBVIOUS
  <2> USE DEF ComesBack, Goto
  <2>1. CASE CmdLow \/ CmdSend \/ CmdSent \/ CmdHigh \/ Low \/ Send \/ SendData \/ Sent
             \/ Exchanged \/ Recv \/ Received \/ RecvTimesOut \/ High \/ Exit
    BY <2>1 DEF CmdLow, CmdSend, CmdSent, CmdHigh, AfterCommand, Low, Send, SendData,
                Sent, Fails, Exchanged, Recv, Received, RecvTimesOut, High, Exit
  <2>2. CASE AskOpen \/ Ask \/ Asked \/ PollRead
    BY <2>2 DEF AskOpen, Ask, Asked, PollRead
  <2>3. CASE AskTimesOut
    BY <2>3 DEF AskTimesOut, TimesOut
  <2>4. CASE PollTest \/ PollTimesOut
    BY <2>4 DEF PollTest, PollTimesOut, FlashInv, BankInv, Polling, poll
  <2>5. CASE PollLeave
    <3>1. Polling
      BY <2>5 DEF PollLeave
    <3> QED BY <2>5, <3>1, LeavePolling
  <2>6. CASE Client \/ Others \/ HwEnds \/ ChipDone
    BY <2>6 DEF Client, Call, Others, HwEnds, ChipDone, Polling, poll
  <2>7. CASE UNCHANGED vars
    BY <2>7 DEF vars, Polling, poll
  <2> QED BY <2>1, <2>2, <2>3, <2>4, <2>5, <2>6, <2>7 DEF Next, CpuStep
<1> QED BY <1>1, <1>2, FlashInvariant, PTL DEF Spec

----------------------------------------------------------------------------
(***************************************************************************)
(* The versions that are accepted.                                         *)
(***************************************************************************)
\* The first part that differs decides.
LEMMA OlderParts ==
    ASSUME NEW a \in Nat, NEW b \in Nat, NEW c \in Nat,
           NEW x \in Nat, NEW y \in Nat, NEW z \in Nat
    PROVE  Older(<< a, b, c >>, << x, y, z >>) <=>
               \/ a < x
               \/ a = x /\ b < y
               \/ a = x /\ b = y /\ c < z
<1> DEFINE v == << a, b, c >>
           w == << x, y, z >>
           At(i) == v[i] < w[i] /\ \A j \in 1 .. i - 1 : v[j] = w[j]
<1>1. 1 .. 3 = { 1, 2, 3 } /\ 1 .. 2 = { 1, 2 } /\ 1 .. 1 = { 1 } /\ 1 .. 0 = {}
  OBVIOUS
<1>2. At(1) <=> a < x
  BY <1>1
<1>3. At(2) <=> a = x /\ b < y
  BY <1>1
<1>4. At(3) <=> a = x /\ b = y /\ c < z
  BY <1>1
<1>5. Older(v, w) <=> At(1) \/ At(2) \/ At(3)
  BY <1>1 DEF Older
<1> QED BY <1>2, <1>3, <1>4, <1>5

\* nile_flash_layout_version_at_least (version.c:27) is true exactly when a version
\* could be read, was installed completely and is not older than the one asked
\* for.
THEOREM AtLeastIsNotOlder ==
    ASSUME NEW readable \in BOOLEAN, NEW version \in Version,
           NEW major \in Nat, NEW minor \in Nat, NEW patch \in Nat
    PROVE  nile_flash_layout_version_at_least(readable, version, major, minor, patch) <=>
               /\ readable
               /\ version.partial_install = 0
               /\ ~ Older(Parts(version), << major, minor, patch >>)
<1>1. /\ version.major \in Nat /\ version.minor \in Nat /\ version.patch \in Nat
      /\ version.partial_install \in Nat
  BY DEF Version
<1>2. Older(Parts(version), << major, minor, patch >>) <=>
          \/ version.major < major
          \/ version.major = major /\ version.minor < minor
          \/ version.major = major /\ version.minor = minor /\ version.patch < patch
  BY <1>1, OlderParts DEF Parts
<1> QED BY <1>1, <1>2 DEF nile_flash_layout_version_at_least, Unusable

\* nile_flash_layout_version_compatible (version.c:44) is that, and below the first
\* incompatible major version; unless that is not above the one asked for, which
\* itself is always accepted.
THEOREM CompatibleIsBounded ==
    ASSUME NEW readable \in BOOLEAN, NEW version \in Version,
           NEW major \in Nat, NEW minor \in Nat, NEW patch \in Nat,
           NEW first \in Nat
    PROVE  nile_flash_layout_version_compatible(readable, version, major, minor, patch,
                                                first)
           <=> /\ nile_flash_layout_version_at_least(readable, version, major, minor,
                                                     patch)
               /\ version.major < first \/ version.major = major
BY DEF nile_flash_layout_version_compatible, nile_flash_layout_version_at_least,
       Unusable, Version

=============================================================================
